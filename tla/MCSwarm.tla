------------------------------ MODULE MCSwarm --------------------------------
(* A robot and a machine whose service it starts and stops.                  *)
EXTENDS Swarm

CONSTANTS robot, local, ghost, standby, service, lead, bogus, image, update, detect

Of(n, r) == [name |-> n, role |-> r]

\* The states of configs/offload_detection.yaml, with a service beside them.
MCTopicsOf ==
  (standby :> <<Of(update, "sub")>>) @@
  (service :> <<Of(image, "sub"), Of(update, "sub")>>) @@
  (lead    :> <<Of(image, "pub"), Of(update, "pub")>>)

MCServicesOf ==
  (standby :> <<>>) @@
  (service :> <<Of(detect, "service")>>) @@
  (lead    :> <<Of(detect, "client")>>)

MCAssigned == (robot :> lead) @@ (local :> standby)
MCEdges == {<<robot, local>>}

\* The last three are slips of the operator.
MCCommands == {<<local, standby>>, <<local, service>>, <<robot, lead>>,
               <<ghost, service>>, <<robot, bogus>>, <<local, bogus>>}

\* configs/service-client-topics.yaml: a standby that lists nothing.
BareTopicsOf ==
  (standby :> <<>>) @@
  (service :> <<Of(image, "sub")>>) @@
  (lead    :> <<Of(image, "pub")>>)

BareCommands == {local} \X {standby, service}
==============================================================================
