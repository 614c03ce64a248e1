-------------------------------- MODULE Link --------------------------------
(***************************************************************************)
(* The connection between the two programs as each of them sees it: one    *)
(* FIFO queue per direction, through the broker.  A message sent while the  *)
(* other side is not registered is dropped, and the broker answers the      *)
(* sender with an error (broker/dayvar_broker.py, route_message).  The IDA  *)
(* plugin only logs such errors and hello_ack, so they are not put in       *)
(* toIda; the extension's bounded pump counts them, so they are in toWd.    *)
(***************************************************************************)
EXTENDS LiveTypes

VARIABLES
  toIda,   \* in transit to IDA, the plugin's own message queue included
  toWd,    \* in transit to the extension, its receive buffer included
  wdUp,    \* the extension's socket is connected (DvsSocketIsConnected)
  idaUp    \* the plugin's ProtocolClient is connected

linkVars == <<toIda, toWd, wdUp, idaUp>>

LinkInit == toIda = <<>> /\ toWd = <<>> /\ wdUp = FALSE /\ idaUp = FALSE

LinkTypeOK ==
  /\ toIda \in Seq(IdaMsg)
  /\ toWd \in Seq(WdMsg)
  /\ wdUp \in BOOLEAN
  /\ idaUp \in BOOLEAN

\* The extension sends m, having left rest unread.
SendToIda(m, rest) ==
  /\ toIda' = IF idaUp THEN Append(toIda, m) ELSE toIda
  /\ toWd' = IF idaUp THEN rest ELSE Append(rest, Logged)

\* The plugin, having taken one message off toIda, sends the messages ms in
\* order: ProtocolClient.send drops them when the client has stopped, the
\* broker when no extension is registered.
SendToWd(ms) ==
  toWd' = IF idaUp /\ wdUp THEN toWd \o ms ELSE toWd

\* A broken or closed connection of the extension: its receive buffer is
\* dropped, and so is what the extension had sent and the broker not yet read.
DropWd ==
  /\ wdUp' = FALSE
  /\ toWd' = <<>>
  /\ \E k \in 0 .. Len(toIda) : toIda' = SubSeq(toIda, 1, k)

\* A broken or closed connection of the plugin: messages the worker thread has
\* handed over stay in the plugin's queue, later ones are dropped.
DropIda ==
  /\ idaUp' = FALSE
  /\ \E k \in 0 .. Len(toIda) : toIda' = SubSeq(toIda, 1, k)
=============================================================================
