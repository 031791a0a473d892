------------------------------- MODULE Semver -------------------------------
(***************************************************************************)
(* Version requirements: is_in_range and process_version of ggl-semver.    *)
(*                                                                         *)
(* A requirement range is a string of comparisons separated by blanks.     *)
(* Here it is a sequence whose elements are Blank or one comparison, and a *)
(* version is a number, in the order strverscmp gives.                     *)
(***************************************************************************)
EXTENDS Integers, Sequences

LOCAL INSTANCE SequencesExt

Blank == [op |-> "blank", than |-> 0]
Ops == {">=", ">", "<=", "<", "=", ""}
Cmp(op, than) == [op |-> op, than |-> than]

\* What one comparison says; a bare version is an equality.
Holds(version, c) ==
    CASE c.op = ">=" -> version >= c.than
      [] c.op = ">"  -> version > c.than
      [] c.op = "<=" -> version <= c.than
      [] c.op = "<"  -> version < c.than
      [] c.op \in {"=", ""} -> version = c.than
      [] OTHER -> FALSE

\* The bytes up to a blank start with an operator or a digit, or nothing holds.
process_version(version, requirement) ==
    requirement # <<>> /\ Holds(version, Head(requirement))

\* The byte after a blank is taken as it is, even if it is a blank.  After a
\* blank at the end the code takes a byte beyond the range, so that what it
\* returns is undefined; such a range is not given to it here (EndsInBlank).
Scan(version, s, byte) ==
    IF byte = Blank /\ ~s.taken
      THEN [ok |-> s.ok /\ process_version(version, s.work), work |-> <<>>, taken |-> TRUE]
      ELSE [s EXCEPT !.work = Append(@, byte), !.taken = FALSE]

\* The empty range holds of every version.
is_in_range(version, range) ==
    LET end == FoldLeft(LAMBDA s, byte : Scan(version, s, byte),
                        [ok |-> TRUE, work |-> <<>>, taken |-> FALSE], range)
    IN  end.ok /\ (end.work # <<>> => process_version(version, end.work))

EndsInBlank(range) == range # <<>> /\ range[Len(range)] = Blank

\* The meaning of a range: every comparison in it holds.
Satisfies(version, range) ==
    \A i \in DOMAIN range : range[i] # Blank => Holds(version, range[i])

=============================================================================
