------------------------- MODULE SessionGatewayProofs -------------------------
(***************************************************************************)
(* Proofs about SessionGateway for any sockets and users.  MapIsTight says *)
(* a socket is listed under one user only; it is what lets                 *)
(* handleDisconnect() stop at the first array that holds the id, and what  *)
(* the other three invariants rest on.                                     *)
(***************************************************************************)
EXTENDS SessionGateway, TLAPS

\* A socket that was never connected is not connected now, one that was not
\* handled received nothing, and one that waits for its verification is still
\* connected or else overtaken: this part is what makes the stale ids those of
\* overtaken clients.
Fresh ==
  \A s \in Sockets : /\ pc[s] = "none" => s \notin connected
                     /\ pc[s] # "handled" => inbox[s] = {}
                     /\ pc[s] = "verifying" => s \in connected \cup overtaken

Inv ==
  /\ TypeOK /\ Fresh
  /\ MapIsTight /\ ConnectedAreListed /\ StaleOnlyIfOvertaken /\ NoticesAreOwn

(* The empty gateway satisfies the inductive invariant. *)
LEMMA InitInv == Init => Inv
  BY GatewayAssumption
  DEF Init, Inv, TypeOK, Fresh, MapIsTight, ConnectedAreListed,
      StaleOnlyIfOvertaken, NoticesAreOwn

(* What handleDisconnect()'s loop does, given that s is listed under the   *)
(* user of its token only.                                                 *)
LEMMA UnlistEffect ==
  ASSUME TypeOK, MapIsTight, NEW s \in Sockets, Unlist(s)
  PROVE  /\ userSockets' = [u \in Users |-> userSockets[u] \ {s}]
         /\ known' = {u \in Users : userSockets'[u] # {}}
<1>1. CASE \A x \in Users : s \notin userSockets[x]
  BY <1>1 DEF TypeOK, MapIsTight, Unlist
<1>2. CASE \E x \in Users : s \in userSockets[x]
  <2> DEFINE u == CHOOSE x \in Users : s \in userSockets[x]
  <2>1. u \in Users /\ s \in userSockets[u]
    BY <1>2
  <2>2. \A x \in Users : s \in userSockets[x] => x = u
    BY <2>1 DEF MapIsTight
  <2>3. /\ userSockets' = [userSockets EXCEPT ![u] = @ \ {s}]
        /\ known' = IF userSockets[u] = {s} THEN known \ {u} ELSE known
    BY <1>2 DEF Unlist
  <2> HIDE DEF u
  <2>4. userSockets' = [x \in Users |-> userSockets[x] \ {s}]
    BY <2>1, <2>2, <2>3 DEF TypeOK
  <2>5. known' = {x \in Users : userSockets'[x] # {}}
    BY <2>1, <2>2, <2>3, <2>4 DEF TypeOK, MapIsTight
  <2>6. QED
    BY <2>4, <2>5
<1>3. QED
  BY <1>1, <1>2

(* Every step preserves the inductive invariant. *)
LEMMA NextInv == Inv /\ [Next]_vars => Inv'
<1> SUFFICES ASSUME Inv, [Next]_vars
             PROVE  Inv'
  OBVIOUS
<1> USE GatewayAssumption
    DEF Inv, Fresh, MapIsTight, ConnectedAreListed, StaleOnlyIfOvertaken,
        NoticesAreOwn, notices
<1>1. ASSUME NEW s \in Sockets, NEW t \in Users \cup {BadToken}, Connect(s, t)
      PROVE  Inv'
  <2>1. TypeOK'
    BY <1>1 DEF TypeOK, Connect
  <2>2. QED
    BY <1>1, <2>1 DEF TypeOK, Connect
<1>2. ASSUME NEW s \in Sockets, Verified(s)
      PROVE  Inv'
  <2>1. TypeOK'
    BY <1>2 DEF TypeOK, Verified
  <2>2. token[s] \in Users
    BY <1>2 DEF TypeOK, Verified
  <2>3. userSockets' = [u \in Users |-> IF u = token[s] THEN userSockets[u] \cup {s}
                                       ELSE userSockets[u]]
    BY <1>2 DEF TypeOK, Verified
  <2>4. MapIsTight'
    BY <1>2, <2>2, <2>3 DEF TypeOK, Verified
  <2>5. StaleOnlyIfOvertaken'
    <3>1. s \notin connected => s \in overtaken
      BY <1>2 DEF Verified
    <3>2. QED
      BY <1>2, <2>2, <2>3, <3>1 DEF TypeOK, Verified
  <2>6. ConnectedAreListed'
    BY <1>2, <2>2, <2>3 DEF TypeOK, Verified
  <2>7. Fresh' /\ NoticesAreOwn'
    BY <1>2, <2>2 DEF TypeOK, Verified
  <2>8. QED
    BY <2>1, <2>4, <2>5, <2>6, <2>7
<1>3. ASSUME NEW s \in Sockets, Rejected(s)
      PROVE  Inv'
  <2>1. /\ userSockets' = [u \in Users |-> userSockets[u] \ {s}]
        /\ known' = {u \in Users : userSockets'[u] # {}}
    BY <1>3, UnlistEffect DEF Rejected
  <2>2. TypeOK'
    BY <1>3, <2>1 DEF TypeOK, Rejected
  <2>3. QED
    BY <1>3, <2>1, <2>2 DEF TypeOK, Rejected
<1>4. ASSUME NEW s \in Sockets, HandleDisconnect(s)
      PROVE  Inv'
  <2>1. /\ userSockets' = [u \in Users |-> userSockets[u] \ {s}]
        /\ known' = {u \in Users : userSockets'[u] # {}}
    BY <1>4, UnlistEffect DEF HandleDisconnect
  <2>2. TypeOK'
    BY <1>4, <2>1 DEF TypeOK, HandleDisconnect
  <2>3. QED
    BY <1>4, <2>1, <2>2 DEF TypeOK, HandleDisconnect
<1>5. ASSUME NEW user \in Users, NEW kind \in Kinds, Notify(user, kind)
      PROVE  Inv'
  <2>1. TypeOK'
    BY <1>5 DEF TypeOK, Notify
  <2>2. QED
    BY <1>5, <2>1 DEF TypeOK, Notify
<1>6. CASE UNCHANGED vars
  BY <1>6 DEF TypeOK, vars
<1>7. QED
  BY <1>1, <1>2, <1>3, <1>4, <1>5, <1>6
  DEF Next, NotifySessionExpired, NotifyNewLogin, Kinds

(* Every behaviour of the gateway stays inside the inductive invariant. *)
THEOREM GatewayInvariant == Spec => []Inv
  BY InitInv, NextInv, PTL DEF Spec

(* The map, the handshakes and the inboxes keep their types. *)
THEOREM GatewayTypeOK == Spec => []TypeOK
<1>1. Inv => TypeOK
  BY DEF Inv
<1>2. QED
  BY <1>1, GatewayInvariant, PTL

(* The map has no empty array and lists a socket under its own user only.  *)
THEOREM GatewayMapIsTight == Spec => []MapIsTight
<1>1. Inv => MapIsTight
  BY DEF Inv
<1>2. QED
  BY <1>1, GatewayInvariant, PTL

(* Every verified client that is still connected is listed. *)
THEOREM GatewayConnectedAreListed == Spec => []ConnectedAreListed
<1>1. Inv => ConnectedAreListed
  BY DEF Inv
<1>2. QED
  BY <1>1, GatewayInvariant, PTL

(* An id outlives its client in the map only if the client left before its *)
(* token was verified.                                                     *)
THEOREM GatewayStaleOnlyIfOvertaken == Spec => []StaleOnlyIfOvertaken
<1>1. Inv => StaleOnlyIfOvertaken
  BY DEF Inv
<1>2. QED
  BY <1>1, GatewayInvariant, PTL

(* Nobody receives a notice that was sent to somebody else. *)
THEOREM GatewayNoticesAreOwn == Spec => []NoticesAreOwn
<1>1. Inv => NoticesAreOwn
  BY DEF Inv
<1>2. QED
  BY <1>1, GatewayInvariant, PTL

(* A notice reaches every verified client the user has at that moment. *)
THEOREM GatewayNoticeReachesAll == Spec => NoticeReachesAll
<1> DEFINE Reaches == \A user \in Users : \A kind \in sent'[user] \ sent[user] :
                        \A s \in connected :
                          pc[s] = "handled" /\ token[s] = user => kind \in inbox'[s]
<1>1. Inv /\ [Next]_vars => [Reaches]_vars
  <2> SUFFICES ASSUME Inv, Next
               PROVE  Reaches
    OBVIOUS
  <2>1. ASSUME NEW user \in Users, NEW kind \in Kinds, Notify(user, kind)
        PROVE  Reaches
    <3>1. \A s \in connected : pc[s] = "handled" /\ token[s] = user =>
            user \in known /\ s \in userSockets[user]
      BY <2>1 DEF Inv, TypeOK, MapIsTight, ConnectedAreListed
    <3>2. \A x \in Users : sent'[x] \ sent[x] \subseteq (IF x = user THEN {kind} ELSE {})
      BY <2>1 DEF Inv, TypeOK, Notify
    <3>3. QED
      BY <2>1, <3>1, <3>2 DEF Inv, TypeOK, Notify
  <2>2. CASE sent' = sent
    BY <2>2
  <2>3. QED
    BY <2>1, <2>2
    DEF Next, Connect, Verified, Rejected, HandleDisconnect, notices,
        NotifySessionExpired, NotifyNewLogin, Kinds
<1>2. QED
  BY <1>1, GatewayInvariant, PTL DEF Spec, NoticeReachesAll

(* The map as Presence sees it: what a notice reaches is whose client each *)
(* socket is, because the map lists all of those and, of the others, only  *)
(* sockets that are no longer connected.                                   *)
LEMMA NextPromised == Inv /\ [Next]_vars => [Promised!Next]_<<present, inbox>>
<1> SUFFICES ASSUME Inv, [Next]_vars
             PROVE  [Promised!Next]_<<present, inbox>>
  OBVIOUS
<1> USE GatewayAssumption DEF notices
<1>1. ASSUME NEW s \in Sockets, NEW t \in Users \cup {BadToken}, Connect(s, t)
      PROVE  UNCHANGED <<present, inbox>>
  BY <1>1 DEF Inv, TypeOK, Fresh, Connect, present
<1>2. ASSUME NEW s \in Sockets, Verified(s)
      PROVE  Promised!Next \/ UNCHANGED <<present, inbox>>
  <2>1. token[s] \in Users /\ inbox' = inbox /\ present[s] = BadToken
    BY <1>2 DEF Inv, TypeOK, Verified, present
  <2>2. CASE s \in connected
    <3>1. present' = [present EXCEPT ![s] = token[s]]
      BY <1>2, <2>2 DEF Inv, TypeOK, Verified, present
    <3>2. Promised!Join(s, token[s])
      BY <2>1, <3>1 DEF Promised!Join
    <3>3. QED
      BY <2>1, <3>2 DEF Promised!Next
  <2>3. CASE s \notin connected
    <3>1. present' = present
      BY <1>2, <2>3 DEF Inv, TypeOK, Verified, present
    <3>2. QED
      BY <2>1, <3>1
  <2>4. QED
    BY <2>2, <2>3
<1>3. ASSUME NEW s \in Sockets, Rejected(s) \/ HandleDisconnect(s)
      PROVE  Promised!Next
  <2>1. inbox' = inbox
    BY <1>3 DEF Rejected, HandleDisconnect
  <2>2. present' = [present EXCEPT ![s] = BadToken]
    BY <1>3 DEF Inv, TypeOK, Rejected, HandleDisconnect, present
  <2>3. Promised!Leave(s)
    BY <2>1, <2>2 DEF Promised!Leave
  <2>4. QED
    BY <2>3 DEF Promised!Next
<1>4. ASSUME NEW user \in Users, NEW kind \in Kinds, Notify(user, kind)
      PROVE  Promised!Next
  <2>1. ASSUME NEW s \in Sockets
        PROVE  (user \in known /\ s \in userSockets[user] \cap connected) <=> present[s] = user
    BY DEF Inv, TypeOK, MapIsTight, ConnectedAreListed, present
  <2>2. inbox' = [s \in Sockets |-> IF present[s] = user THEN inbox[s] \cup {kind} ELSE inbox[s]]
    BY <1>4, <2>1 DEF Notify
  <2>3. present' = present
    BY <1>4 DEF Notify, present
  <2>4. Promised!Notify(user, kind)
    BY <2>2, <2>3 DEF Promised!Notify
  <2>5. QED
    BY <2>4 DEF Promised!Next
<1>5. CASE UNCHANGED vars
  BY <1>5 DEF vars, present
<1>6. QED
  BY <1>1, <1>2, <1>3, <1>4, <1>5
  DEF Next, NotifySessionExpired, NotifyNewLogin, Kinds

(* session.gateway.ts:55: whatever ids the map still keeps, a notice goes  *)
(* to all and only the clients its user has at that moment.                *)
THEOREM GatewayImplementsPresence == Spec => ImplementsPresence
<1>1. Init => Promised!Init
  BY DEF Init, Promised!Init, present
<1>2. QED
  BY <1>1, NextPromised, GatewayInvariant, PTL DEF Spec, ImplementsPresence, Promised!Spec
=============================================================================
