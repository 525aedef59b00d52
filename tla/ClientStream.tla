---------------------------- MODULE ClientStream ----------------------------
(***************************************************************************)
(* The client's end of the stream: gloox::Client as messenger.cpp uses it, *)
(* and the ConnectionListener callback it makes.  gloox calls onDisconnect *)
(* synchronously, from inside the send or the disconnect() that met the    *)
(* failure, so the callback is part of every operation below.              *)
(***************************************************************************)
EXTENDS MucService

CONSTANTS
  Failures      \* the ConnectionErrors that are neither NoError nor a user disconnect

NoError == "ConnNoError"
UserDisconnected == "ConnUserDisconnected"

ASSUME StreamAssumption ==
  /\ Failures # {}
  /\ NoError \notin Failures
  /\ UserDisconnected \notin Failures

VARIABLES
  conn,         \* "idle" before the session, "connected", "closed" after it
  result        \* Messenger::result, the exit code of the process

streamVars == <<conn, result>>

StreamInit ==
  /\ conn = "idle"
  /\ result = NoError

StreamTypeOK ==
  /\ conn \in {"idle", "connected", "closed"}
  /\ result \in Failures \cup {NoError}

\* Mutant: every reason for a disconnect becomes the result.
OnDisconnect_Unfiltered(e) == result' = e

\* Mutant: the reason for a disconnect is only printed.
OnDisconnect_Forgets(e) == result' = result

\* Messenger::onDisconnect(e): a failure becomes the result, a close the
\* program asked for leaves it alone.
OnDisconnect(e) ==
  result' = IF e # UserDisconnected /\ e # NoError THEN e ELSE result

\* Messenger::onTLSConnect: every certificate is accepted.
OnTLSConnect == TRUE

\* Hand stanzas to the stream.  gloox drops them silently once the stream is
\* closed; a send on a dead connection may still seem to work.
Write(stanzas) ==
  \/ /\ conn # "connected"
     /\ UNCHANGED <<up, conn, result>>
  \/ /\ conn = "connected"
     /\ up' = IF broken THEN up ELSE up \o stanzas
     /\ UNCHANGED <<conn, result>>
  \/ /\ conn = "connected" /\ broken
     /\ conn' = "closed"
     /\ \E e \in Failures : OnDisconnect(e)
     /\ UNCHANGED up

\* client->disconnect(): nothing on a stream that is not open.  The closing
\* tag is a send of its own, so its failure may be reported first; the close
\* that follows then calls onDisconnect(ConnUserDisconnected) a second time.
Disconnect ==
  \/ /\ conn # "connected"
     /\ UNCHANGED <<conn, result>>
  \/ /\ conn = "connected"
     /\ conn' = "closed"
     /\ \/ OnDisconnect(UserDisconnected)
        \/ broken /\ \E e \in Failures : OnDisconnect(e)

\* The handshake ends: TLS, authentication and resource binding have worked.
Establish ==
  /\ ~broken
  /\ OnTLSConnect
  /\ conn' = "connected"
  /\ UNCHANGED result

\* recv meets the end of the stream, or an error on it.
Lose ==
  /\ conn = "connected" /\ broken /\ down = <<>>
  /\ conn' = "closed"
  /\ \E e \in Failures : OnDisconnect(e)
=============================================================================
