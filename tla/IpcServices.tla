---------------------------- MODULE IpcServices -----------------------------
(***************************************************************************)
(* The services of ggipcd.  A handler validates the arguments of its       *)
(* request, asks for authorization where the service has any, and then     *)
(* makes one core bus call or binds one subscription.  What it decides is  *)
(* a plan:                                                                 *)
(*   Reject                the handler returns an error                    *)
(*   Call(to, on)          a call of the daemon "to" about "on"            *)
(*   Bind(to, on)          a subscription with the daemon "to" about "on"  *)
(* ggipcd/src/services, ggipcd/src/ipc_dispatch.c                          *)
(***************************************************************************)
EXTENDS IpcAuthz

CONSTANTS
    Policies,       \* [component -> [service -> Seq(policy)]]
    MaxDepth,       \* GGL_MAX_OBJECT_DEPTH
    None            \* an optional argument that was not given

Reject == [do |-> "reject", to |-> None, on |-> None]
Call(to, on) == [do |-> "call", to |-> to, on |-> on]
Bind(to, on) == [do |-> "bind", to |-> to, on |-> on]

(* The policies are read from the configuration at every request; "read"   *)
(* says whether the read succeeded.                                        *)
Authorized(info, read, resource, matcher) ==
    /\ read
    /\ info.service \in DOMAIN Policies[info.component]
    /\ ggl_ipc_auth(Policies[info.component][info.service], info.operation,
                    resource, matcher)

(* An optional quality of service: not given, a number, or not a number.   *)
QosOk(qos) == qos = None \/ qos \in 0..2

(* The key path below services/<component>/configuration.                  *)
ggl_make_config_path_object(component, path) ==
    IF Len(path) + 3 > MaxDepth THEN None
    ELSE <<"services", component, "configuration">> \o path

(* What the callback of a configuration subscription can make of a path.   *)
ggl_parse_config_path(path) == Len(path) >= 4 /\ Len(path) <= MaxDepth

-----------------------------------------------------------------------------
ggl_handle_publish_to_topic(info, args, read) ==
    IF /\ args.valid
       /\ args.json # args.binary
       /\ Authorized(info, read, args.topic, "default")
    THEN Call("gg_pubsub", args.topic) ELSE Reject

ggl_handle_subscribe_to_topic(info, args, read) ==
    IF /\ args.valid
       /\ Authorized(info, read, args.topic, "default")
    THEN Bind("gg_pubsub", args.topic) ELSE Reject

ggl_handle_publish_to_iot_core(info, args, read) ==
    IF /\ args.valid /\ QosOk(args.qos)
       /\ args.base64
       /\ Authorized(info, read, args.topic, "mqtt")
    THEN Call("aws_iot_mqtt", args.topic) ELSE Reject

ggl_handle_subscribe_to_iot_core(info, args, read) ==
    IF /\ args.valid /\ QosOk(args.qos)
       /\ Authorized(info, read, args.topic, "mqtt")
    THEN Bind("aws_iot_mqtt", args.topic) ELSE Reject

(* The component a configuration request is about: the caller by default.  *)
About(info, args) == IF args.component = None THEN info.component
                     ELSE args.component

ggl_handle_get_configuration(info, args, read) ==
    LET path == ggl_make_config_path_object(About(info, args), args.path)
    IN  IF args.valid /\ path # None THEN Call("gg_config", path) ELSE Reject

ggl_handle_update_configuration(info, args, read) ==
    LET path == ggl_make_config_path_object(info.component, args.path)
    IN  IF /\ args.valid
           /\ args.path # <<>> /\ Head(args.path) # "accessControl"
           /\ path # None
        THEN Call("gg_config", path) ELSE Reject

ggl_handle_subscribe_to_configuration_update(info, args, read) ==
    LET keys == IF args.path = None THEN <<>> ELSE args.path
        path == ggl_make_config_path_object(About(info, args), keys)
    IN  IF args.valid /\ path # None THEN Bind("gg_config", path) ELSE Reject

ggl_handle_create_local_deployment(info, args, read) ==
    IF Authorized(info, read, <<>>, "default")
    THEN Call("gg_deployment", None) ELSE Reject

handle_get_system_config(info, args, read) ==
    IF args.valid THEN Call("gg_config", <<"system", args.key>>) ELSE Reject

ggl_handle_update_state(info, args, read) ==
    IF args.valid THEN Call("gg_health", info.component) ELSE Reject

-----------------------------------------------------------------------------
(* The tables of the services: which of them has an operation.             *)
ServiceOf(operation) ==
    CASE operation \in {"PublishToTopic", "SubscribeToTopic"} -> "pubsub"
      [] operation \in {"PublishToIoTCore", "SubscribeToIoTCore"} -> "mqttproxy"
      [] operation \in {"GetConfiguration", "UpdateConfiguration",
                        "SubscribeToConfigurationUpdate"} -> "config"
      [] operation = "CreateLocalDeployment" -> "Cli"
      [] operation = "GetSystemConfig" -> "private"
      [] operation = "UpdateState" -> "lifecycle"
      [] OTHER -> None

(* ggl_ipc_handle_operation for a connection of the given component.       *)
ggl_ipc_handle_operation(component, operation, args, read) ==
    LET info == [component |-> component, operation |-> operation,
                 service |-> ServiceOf(operation)]
    IN  CASE operation = "PublishToTopic" ->
                ggl_handle_publish_to_topic(info, args, read)
          [] operation = "SubscribeToTopic" ->
                ggl_handle_subscribe_to_topic(info, args, read)
          [] operation = "PublishToIoTCore" ->
                ggl_handle_publish_to_iot_core(info, args, read)
          [] operation = "SubscribeToIoTCore" ->
                ggl_handle_subscribe_to_iot_core(info, args, read)
          [] operation = "GetConfiguration" ->
                ggl_handle_get_configuration(info, args, read)
          [] operation = "UpdateConfiguration" ->
                ggl_handle_update_configuration(info, args, read)
          [] operation = "SubscribeToConfigurationUpdate" ->
                ggl_handle_subscribe_to_configuration_update(info, args, read)
          [] operation = "CreateLocalDeployment" ->
                ggl_handle_create_local_deployment(info, args, read)
          [] operation = "GetSystemConfig" ->
                handle_get_system_config(info, args, read)
          [] operation = "UpdateState" ->
                ggl_handle_update_state(info, args, read)
          [] OTHER -> Reject
=============================================================================
