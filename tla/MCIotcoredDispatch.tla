------------------------- MODULE MCIotcoredDispatch -------------------------
(* Small instances of IotcoredDispatch for TLC. *)
EXTENDS IotcoredDispatch

TwoTopics == {"a", "b"}
Plain == [f \in {"a", "b"} |-> {f}]
FewRequests == {<<"a">>, <<"a", "b">>}
AllFaults == {"hangup", "write", "request", "reregister", "overlap"}

=============================================================================
