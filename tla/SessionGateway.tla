---------------------------- MODULE SessionGateway ----------------------------
(***************************************************************************)
(* src/infrastructure/gateways/session.gateway.ts: the map from users to   *)
(* their open sockets, and the notices sent through it.                    *)
(*                                                                         *)
(* handleConnection() awaits the verification of the token; the client may *)
(* disconnect meanwhile, and handleDisconnect() then runs first.           *)
(***************************************************************************)
EXTENDS Naturals

CONSTANTS
  Sockets,  \* socket.io ids; each connection has a fresh one
  Users,    \* what payload.sub can be
  BadToken  \* the token of a socket that does not verify

ASSUME GatewayAssumption == BadToken \notin Users

Kinds == {"session:expired", "session:new-login"}

VARIABLES
  userSockets,  \* userSockets[u]: the ids in u's array (its order is unused)
  known,        \* the users the map has an array for
  pc,           \* pc[s]: "none", "verifying", or "handled" by handleConnection
  connected,    \* sockets that are connected
  token,        \* whom a socket's token verifies to, or BadToken
  inbox,        \* the notices a socket received
  sent,         \* history: the notices sent to a user
  overtaken     \* history: sockets that disconnected before they were verified

vars == <<userSockets, known, pc, connected, token, inbox, sent, overtaken>>
notices == <<inbox, sent>>

Init ==
  /\ userSockets = [u \in Users |-> {}] /\ known = {}
  /\ pc = [s \in Sockets |-> "none"]
  /\ connected = {}
  /\ token = [s \in Sockets |-> BadToken]
  /\ inbox = [s \in Sockets |-> {}]
  /\ sent = [u \in Users |-> {}]
  /\ overtaken = {}

\* handleConnection() up to its await.
Connect(s, t) ==
  /\ pc[s] = "none"
  /\ pc' = [pc EXCEPT ![s] = "verifying"]
  /\ connected' = connected \cup {s}
  /\ token' = [token EXCEPT ![s] = t]
  /\ UNCHANGED <<userSockets, known, notices, overtaken>>

\* A plausible slip: the user's array is made anew on each connection.
VerifiedAnew(s) ==
  /\ pc[s] = "verifying" /\ token[s] # BadToken
  /\ pc' = [pc EXCEPT ![s] = "handled"]
  /\ known' = known \cup {token[s]}
  /\ userSockets' = [userSockets EXCEPT ![token[s]] = {s}]
  /\ UNCHANGED <<connected, token, notices, overtaken>>

\* The token verifies: the id is pushed, whether or not the client is still
\* there.
Verified(s) ==
  /\ pc[s] = "verifying" /\ token[s] # BadToken
  /\ pc' = [pc EXCEPT ![s] = "handled"]
  /\ known' = known \cup {token[s]}
  /\ userSockets' = [userSockets EXCEPT ![token[s]] = @ \cup {s}]
  /\ UNCHANGED <<connected, token, notices, overtaken>>

\* The array of the one user that lists s shrinks, and goes when it is empty.
Unlist(s) ==
  LET u == CHOOSE x \in Users : s \in userSockets[x]
  IN  IF \A x \in Users : s \notin userSockets[x]
      THEN UNCHANGED <<userSockets, known>>
      ELSE /\ userSockets' = [userSockets EXCEPT ![u] = @ \ {s}]
           /\ known' = IF userSockets[u] = {s} THEN known \ {u} ELSE known

\* A plausible slip: the payload is decoded and used without verification.
RejectedUnchecked(s) ==
  /\ pc[s] = "verifying" /\ token[s] = BadToken
  /\ pc' = [pc EXCEPT ![s] = "handled"]
  /\ known' = known \cup {token[s]}
  /\ UNCHANGED <<userSockets, connected, token, notices, overtaken>>

\* verifyAsync rejects: the server disconnects the client.
Rejected(s) ==
  /\ pc[s] = "verifying" /\ token[s] = BadToken
  /\ pc' = [pc EXCEPT ![s] = "handled"]
  /\ connected' = connected \ {s}
  /\ Unlist(s)
  /\ UNCHANGED <<token, notices, overtaken>>

\* A plausible slip: a client that goes is not looked up.
HandleDisconnectIgnoring(s) ==
  /\ s \in connected
  /\ connected' = connected \ {s}
  /\ overtaken' = IF pc[s] = "verifying" THEN overtaken \cup {s} ELSE overtaken
  /\ UNCHANGED <<userSockets, known, pc, token, notices>>

\* The client goes: handleDisconnect() runs at once.
HandleDisconnect(s) ==
  /\ s \in connected
  /\ connected' = connected \ {s}
  /\ overtaken' = IF pc[s] = "verifying" THEN overtaken \cup {s} ELSE overtaken
  /\ Unlist(s)
  /\ UNCHANGED <<pc, token, notices>>

\* notifySessionExpired() and notifyNewLogin(): an emit to every listed id;
\* one to an id that has gone reaches nobody.
Notify(user, kind) ==
  /\ inbox' = [s \in Sockets |->
                 IF user \in known /\ s \in userSockets[user] \cap connected
                 THEN inbox[s] \cup {kind} ELSE inbox[s]]
  /\ sent' = [sent EXCEPT ![user] = @ \cup {kind}]
  /\ UNCHANGED <<userSockets, known, pc, connected, token, overtaken>>

NotifySessionExpired(user) == Notify(user, "session:expired")
NotifyNewLogin(user) == Notify(user, "session:new-login")

Next ==
  \/ \E s \in Sockets : \/ \E t \in Users \cup {BadToken} : Connect(s, t)
                        \/ Verified(s) \/ Rejected(s) \/ HandleDisconnect(s)
  \/ \E user \in Users : NotifySessionExpired(user) \/ NotifyNewLogin(user)

Spec == Init /\ [][Next]_vars
-----------------------------------------------------------------------------
TypeOK ==
  /\ userSockets \in [Users -> SUBSET Sockets] /\ known \subseteq Users
  /\ pc \in [Sockets -> {"none", "verifying", "handled"}]
  /\ connected \subseteq Sockets /\ overtaken \subseteq Sockets
  /\ token \in [Sockets -> Users \cup {BadToken}]
  /\ inbox \in [Sockets -> SUBSET Kinds] /\ sent \in [Users -> SUBSET Kinds]

\* The map has an array for a user exactly while it lists a socket, and lists
\* every socket under the user its own token names: nobody gets the notices
\* of somebody else, however connections and disconnections interleave.
MapIsTight ==
  /\ known = {u \in Users : userSockets[u] # {}}
  /\ \A u \in Users : \A s \in userSockets[u] : pc[s] = "handled" /\ token[s] = u

\* A verified client that is still connected is listed.
ConnectedAreListed ==
  \A s \in connected :
    pc[s] = "handled" => token[s] # BadToken /\ s \in userSockets[token[s]]

\* The map keeps the id of a client that has gone only if its disconnect
\* overtook its verification (handleDisconnect then found nothing to remove,
\* and nothing will ever remove the id).
StaleOnlyIfOvertaken ==
  \A u \in Users : userSockets[u] \ connected \subseteq overtaken

\* A notice to a user reaches every verified client the user has at that
\* moment.
NoticeReachesAll ==
  [][\A user \in Users : \A kind \in sent'[user] \ sent[user] :
        \A s \in connected :
          pc[s] = "handled" /\ token[s] = user => kind \in inbox'[s]]_vars

\* Whose client a socket is: nobody's until its token has verified, and nobody's
\* once it has gone.
present == [s \in Sockets |-> IF s \in connected /\ pc[s] = "handled" THEN token[s] ELSE BadToken]

Promised == INSTANCE Presence
            WITH Clients <- Sockets, Notices <- Kinds, Nobody <- BadToken

\* Notices reach all and only the clients a user has at that moment, for all
\* that the map behind them keeps ids of clients that left before their token
\* was verified.
ImplementsPresence == Promised!Spec

\* What a client received was sent to the user it verified as.
NoticesAreOwn ==
  \A s \in Sockets : inbox[s] # {} =>
    token[s] \in Users /\ inbox[s] \subseteq sent[token[s]]
=============================================================================
