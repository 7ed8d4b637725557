---------------------------- MODULE Session_proofs ----------------------------
(* Theorems about Session, for any number of tokens, devices and requests. *)
EXTENDS Session, TLAPS

(* A token nobody drew has no session.                                     *)
UnusedIsUnstored == \A t \in Tokens : token[t] = "unused" => session[t] = Nil

(* The token a request has drawn is its own, and no session is stored      *)
(* under it yet.                                                           *)
NewIsOwn ==
    \A h \in Handlers :
        LET new == req[h].new IN
        /\ req[h].pc \in {"replace", "rotateRead", "rotateExpired", "rotate"} =>
              new # Nil /\ req[h].device # Nil
        /\ new # Nil => /\ token[new] = "drawn" /\ session[new] = Nil
                        /\ \A g \in Handlers : req[g].new = new => g = h

(* Where Get is about to remove an expired session.                        *)
Removing == {"refuseExpired", "rotateExpired", "deleteExpired"}

(* The token a request has read from the tables, or was handed, is that of *)
(* no request at work: its session is never written again.                 *)
OldIsPast ==
    \A h \in Handlers :
        LET old == req[h].old IN
        /\ req[h].pc \in {"rotateRead", "rotate", "deleteRead", "delete"} \cup Removing =>
              old # Nil
        /\ old # Nil => /\ token[old] # "unused"
                        /\ \A g \in Handlers : req[g].new # old

(* Nor is a session whose removal was missed.                              *)
MissedIsPast ==
    \A t \in missed : token[t] # "unused" /\ \A g \in Handlers : req[g].new # t

(* What a request knows of the device of the old session is true as long   *)
(* as that session is there, unless its removal was missed.                *)
DeviceIsKnown ==
    \A h \in Handlers :
        LET r == req[h] IN
        /\ r.pc = "replace" /\ r.old # Nil => session[r.old] \in {Nil, r.device}
        /\ r.pc \in {"rotate", "delete"} =>
              session[r.old] \in {Nil, r.oldDevice} \/ r.old \in missed
        /\ r.pc \in Removing => r.oldDevice # Nil /\ session[r.old] \in {Nil, r.oldDevice}

SessionInv ==
    /\ SessionTypeOK
    /\ IndexNeverDangling
    /\ UnusedIsUnstored
    /\ NewIsOwn
    /\ OldIsPast
    /\ MissedIsPast
    /\ DeviceIsKnown

-----------------------------------------------------------------------------
(* No session and no key: the invariant holds at the start.                *)
LEMMA SessionInitial == Init => SessionInv
BY SessionAssumption
DEF Init, SessionInv, SessionTypeOK, IndexNeverDangling, UnusedIsUnstored, NewIsOwn,
    OldIsPast, MissedIsPast, DeviceIsKnown, Removing, Idle, Request

(* Get: the request knows the session it found, or that there is none.     *)
LEMMA GetTypes ==
    ASSUME SessionTypeOK, NEW h \in Handlers, NEW t \in Tokens,
           NEW next \in {"idle", "rotate", "delete"}, NEW remove \in Removing,
           Get(h, t, next, remove)
    PROVE  req' \in [Handlers -> Request]
<1>1. session[t] \in Devices \cup {Nil} /\ req[h] \in Request
  BY DEF SessionTypeOK
<1>2. req' = [req EXCEPT ![h] = [req[h] EXCEPT !.pc = IF Expired(t) THEN remove ELSE next,
                                              !.old = t, !.oldDevice = session[t]]]
  BY DEF Get, SessionTypeOK, Request
<1>3. [req[h] EXCEPT !.pc = IF Expired(t) THEN remove ELSE next,
                     !.old = t, !.oldDevice = session[t]] \in Request
  BY <1>1 DEF Request, Removing
<1> QED BY <1>2, <1>3 DEF SessionTypeOK

(* Every step keeps the keys, tokens and requests of their types. *)
LEMMA SessionTypeStep == SessionInv /\ [Next]_vars => SessionTypeOK'
<1> SUFFICES ASSUME SessionTypeOK, OldIsPast, [Next]_vars PROVE SessionTypeOK'
  BY DEF SessionInv
<1> USE SessionAssumption DEF SessionTypeOK
<1>1. ASSUME NEW h \in Handlers, NEW d \in Devices, NEW t \in Tokens, Login(h, d, t)
      PROVE SessionTypeOK'
  BY <1>1 DEF Login, Draw, Enters, Idle, Request
<1>2. ASSUME NEW h \in Handlers, NEW t \in Tokens, NEW d \in Devices, NEW new \in Tokens,
             Refresh(h, t, d, new)
      PROVE SessionTypeOK'
  BY <1>2 DEF Refresh, Draw, Idle, Request
<1>3. ASSUME NEW h \in Handlers, NEW t \in Tokens, Logout(h, t) PROVE SessionTypeOK'
  BY <1>3 DEF Logout, Enters, Idle, Request
<1>4. ASSUME NEW h \in Handlers, NEW answered \in BOOLEAN, ReplaceDeviceSession(h, answered)
      PROVE SessionTypeOK'
  BY <1>4 DEF ReplaceDeviceSession, Store, Idle, Request
<1>5. ASSUME NEW h \in Handlers, NEW answered \in BOOLEAN, Rotate(h, answered)
      PROVE SessionTypeOK'
  BY <1>5 DEF Rotate, Store, Idle, Request
<1>6. ASSUME NEW h \in Handlers, RotateRead(h) \/ DeleteRead(h) PROVE SessionTypeOK'
  <2>1. req[h].old \in Tokens
    BY <1>6 DEF RotateRead, DeleteRead, OldIsPast, Request
  <2>2. req' \in [Handlers -> Request]
    BY <1>6, <2>1, GetTypes DEF RotateRead, DeleteRead, Removing
  <2> QED BY <1>6, <2>2 DEF RotateRead, DeleteRead, Get
<1>7. ASSUME NEW h \in Handlers, RemoveExpired(h) PROVE SessionTypeOK'
  <2>1. req[h] \in Request /\ req[h].old \in Tokens
    BY <1>7 DEF RemoveExpired, OldIsPast, Removing, Request
  <2>2. req' \in [Handlers -> Request]
    BY <1>7, <2>1 DEF RemoveExpired, GoesOn, Idle, Request
  <2> QED BY <1>7, <2>1, <2>2 DEF RemoveExpired
<1>8. ASSUME NEW h \in Handlers, Delete(h) PROVE SessionTypeOK'
  BY <1>8 DEF Delete, Idle, Request
<1>9. ASSUME NEW h \in Handlers, RequestFails(h) PROVE SessionTypeOK'
  BY <1>9 DEF RequestFails, Idle, Request
<1>10. ASSUME NEW h \in Handlers, NEW t \in Tokens, Refuse(h, t) PROVE SessionTypeOK'
  BY <1>10, GetTypes DEF Refuse, Get, Enters, Removing
<1>11. ASSUME NEW t \in Tokens, Overdue(t) PROVE SessionTypeOK'
  BY <1>11 DEF Overdue
<1>12. ASSUME NEW t \in Tokens, KeysExpire(t) PROVE SessionTypeOK'
  BY <1>12 DEF KeysExpire
<1>13. CASE UNCHANGED vars
  BY <1>13 DEF vars
<1> QED
  BY <1>1, <1>2, <1>3, <1>4, <1>5, <1>6, <1>7, <1>8, <1>9, <1>10, <1>11, <1>12, <1>13 DEF Next

-----------------------------------------------------------------------------
(* What the types below rest on. *)
Facts ==
    /\ IndexNeverDangling
    /\ UnusedIsUnstored
    /\ NewIsOwn
    /\ OldIsPast
    /\ MissedIsPast
    /\ DeviceIsKnown

(* A step that stores nothing, and removes a session together with the key *)
(* that names it, keeps the facts; requests go on, or end.                 *)
Withdraws ==
    /\ \A t \in Tokens : session'[t] \in {session[t], Nil}
    /\ \A d \in Devices : \/ index'[d] = Nil
                          \/ /\ index'[d] = index[d]
                             /\ \/ session'[index[d]] = session[index[d]]
                                \/ index[d] \in missed
    /\ UNCHANGED <<token, missed>>

(* A step that only removes sessions, each with its key, keeps the facts.  *)
LEMMA WithdrawStep ==
    ASSUME SessionInv, SessionTypeOK', Withdraws,
           \A h \in Handlers : req'[h] \in {req[h], Idle}
    PROVE  Facts'
<1> USE SessionAssumption DEF SessionInv, Withdraws
<1>1. \A h \in Handlers : req[h] \in Request /\ req'[h] \in Request
  BY DEF SessionTypeOK
<1>2. IndexNeverDangling'
  BY DEF IndexNeverDangling, SessionTypeOK
<1>3. UnusedIsUnstored'
  BY DEF UnusedIsUnstored
<1>4. NewIsOwn'
  BY <1>1 DEF NewIsOwn, Idle, Request
<1>5. OldIsPast' /\ MissedIsPast'
  <2>1. \A h \in Handlers : req'[h].new \in {req[h].new, Nil}
    BY DEF Idle
  <2>2. OldIsPast'
    BY <1>1 DEF OldIsPast, Removing, Idle, Request
  <2>3. MissedIsPast'
    <3>1. \A t \in missed : t # Nil
      BY DEF SessionTypeOK
    <3> QED BY <2>1, <3>1 DEF MissedIsPast
  <2> QED BY <2>2, <2>3
<1>6. DeviceIsKnown'
  <2> SUFFICES ASSUME NEW h \in Handlers
               PROVE  LET r == req'[h] IN
                      /\ r.pc = "replace" /\ r.old # Nil => session'[r.old] \in {Nil, r.device}
                      /\ r.pc \in {"rotate", "delete"} =>
                            session'[r.old] \in {Nil, r.oldDevice} \/ r.old \in missed'
                      /\ r.pc \in Removing =>
                            r.oldDevice # Nil /\ session'[r.old] \in {Nil, r.oldDevice}
    BY DEF DeviceIsKnown
  <2>1. CASE req'[h] = Idle
    BY <2>1 DEF Idle, Removing
  <2>2. CASE req'[h] = req[h]
    <3>1. req[h].old # Nil => req[h].old \in Tokens
      BY <1>1 DEF Request
    <3>2. req[h].pc \in {"rotate", "delete"} \cup Removing => req[h].old # Nil
      BY DEF OldIsPast
    <3> QED BY <2>2, <3>1, <3>2 DEF DeviceIsKnown
  <2> QED BY <2>1, <2>2
<1> QED BY <1>2, <1>3, <1>4, <1>5, <1>6 DEF Facts

(* The pipelines of Replace and Rotate: the new session and its key come,  *)
(* the old ones go, and the request ends.                                  *)
LEMMA StoreStep ==
    ASSUME SessionInv, SessionTypeOK', NEW h \in Handlers, NEW answered \in BOOLEAN,
           NEW oldDevice \in Devices \cup {Nil},
           \/ req[h].pc = "replace" /\ oldDevice = Nil
           \/ req[h].pc = "rotate" /\ oldDevice = req[h].oldDevice,
           Store(req[h].new, req[h].device, req[h].old, oldDevice, answered),
           req' = [req EXCEPT ![h] = Idle]
    PROVE  Facts'
<1> USE SessionAssumption DEF SessionInv
<1> DEFINE new == req[h].new
           device == req[h].device
           old == req[h].old
<1>1. \A g \in Handlers : req[g] \in Request /\ req'[g] \in Request
                          /\ req'[g] = IF g = h THEN Idle ELSE req[g]
  BY DEF SessionTypeOK
<1>2. new \in Tokens /\ device \in Devices /\ old \in Tokens \cup {Nil}
  BY <1>1 DEF Request, NewIsOwn
<1>3. session[new] = Nil /\ token[new] = "drawn" /\ \A g \in Handlers : req[g].new = new => g = h
  BY <1>2 DEF NewIsOwn
<1>4. \A t \in Tokens : session'[t] = IF t = new THEN device ELSE IF t = old THEN Nil ELSE session[t]
  BY DEF Store
<1>5. \A d \in Devices : index'[d] = IF d = device THEN new
                                     ELSE IF d = oldDevice THEN Nil ELSE index[d]
  BY DEF Store
<1>6. \A t \in Tokens : token'[t] = IF t = new THEN (IF answered THEN "held" ELSE "drawn")
                                    ELSE token[t]
  BY DEF Store, SessionTypeOK
<1>7. old # new /\ new \notin missed /\ missed' = missed
  BY <1>2 DEF OldIsPast, MissedIsPast, Store
<1>8. old # Nil => session[old] \in {Nil, device, oldDevice} \/ old \in missed
  BY DEF DeviceIsKnown
<1>9. IndexNeverDangling'
  <2> SUFFICES ASSUME NEW d \in Devices, index'[d] # Nil 
               PROVE  \/ session'[index'[d]] = d
                      \/ session'[index'[d]] = Nil /\ index'[d] \in missed'
    BY DEF IndexNeverDangling
  <2>1. CASE d = device
    BY <2>1, <1>2, <1>4, <1>5
  <2>2. CASE d # device
    <3>1. d # oldDevice /\ index'[d] = index[d]
      BY <2>2, <1>5
    <3>2. /\ index[d] \in Tokens
          /\ session[index[d]] = d \/ (session[index[d]] = Nil /\ index[d] \in missed)
      BY <3>1 DEF IndexNeverDangling, SessionTypeOK
    <3>3. index[d] # new /\ (index[d] = old => index[d] \in missed)
      BY <1>3, <1>7, <1>8, <2>2, <3>1, <3>2 DEF SessionTypeOK
    <3> QED BY <1>4, <1>7, <3>1, <3>2, <3>3
  <2> QED BY <2>1, <2>2
<1>10. UnusedIsUnstored'
  BY <1>2, <1>4, <1>6 DEF UnusedIsUnstored
<1>11. NewIsOwn'
  <2> SUFFICES ASSUME NEW g \in Handlers
               PROVE  /\ req'[g].pc \in {"replace", "rotateRead", "rotateExpired", "rotate"} =>
                            req'[g].new # Nil /\ req'[g].device # Nil
                      /\ req'[g].new # Nil =>
                            /\ token'[req'[g].new] = "drawn" /\ session'[req'[g].new] = Nil
                            /\ \A f \in Handlers : req'[f].new = req'[g].new => f = g
    BY DEF NewIsOwn
  <2>1. CASE g = h
    BY <2>1, <1>1 DEF Idle
  <2>2. CASE g # h
    <3>1. req'[g] = req[g] /\ (req[g].new # Nil => req[g].new \in Tokens \ {new})
      BY <2>2, <1>1, <1>3 DEF Request
    <3>2. \A f \in Handlers : req'[f].new \in {req[f].new, Nil}
      BY <1>1 DEF Idle
    <3> QED BY <3>1, <3>2, <1>4, <1>6 DEF NewIsOwn
  <2> QED BY <2>1, <2>2
<1>12. OldIsPast'
  <2> SUFFICES ASSUME NEW g \in Handlers
               PROVE  /\ req'[g].pc \in {"rotateRead", "rotate", "deleteRead", "delete"}
                                            \cup Removing => req'[g].old # Nil
                      /\ req'[g].old # Nil =>
                            /\ token'[req'[g].old] # "unused"
                            /\ \A f \in Handlers : req'[f].new # req'[g].old
    BY DEF OldIsPast
  <2>1. CASE g = h
    BY <2>1, <1>1 DEF Idle, Removing
  <2>2. CASE g # h
    <3>1. req'[g] = req[g] /\ (req[g].old # Nil => req[g].old \in Tokens)
      BY <2>2, <1>1 DEF Request
    <3>2. \A f \in Handlers : req'[f].new \in {req[f].new, Nil}
      BY <1>1 DEF Idle
    <3> QED BY <3>1, <3>2, <1>6 DEF OldIsPast
  <2> QED BY <2>1, <2>2
<1>13. DeviceIsKnown'
  <2> SUFFICES ASSUME NEW g \in Handlers
               PROVE  LET r == req'[g] IN
                      /\ r.pc = "replace" /\ r.old # Nil => session'[r.old] \in {Nil, r.device}
                      /\ r.pc \in {"rotate", "delete"} =>
                            session'[r.old] \in {Nil, r.oldDevice} \/ r.old \in missed'
                      /\ r.pc \in Removing =>
                            r.oldDevice # Nil /\ session'[r.old] \in {Nil, r.oldDevice}
    BY DEF DeviceIsKnown
  <2>1. CASE g = h
    BY <2>1, <1>1 DEF Idle, Removing
  <2>2. CASE g # h
    <3>1. req'[g] = req[g] /\ (req[g].old # Nil => req[g].old \in Tokens)
      BY <2>2, <1>1 DEF Request
    <3>2. req[g].old # Nil => session'[req[g].old] \in {session[req[g].old], Nil}
      BY <3>1, <1>4 DEF OldIsPast
    <3>3. req[g].pc \in {"rotate", "delete"} \cup Removing => req[g].old # Nil
      BY DEF OldIsPast
    <3> QED BY <1>7, <3>1, <3>2, <3>3 DEF DeviceIsKnown
  <2> QED BY <2>1, <2>2
<1>14. MissedIsPast'
  <2>1. \A g \in Handlers : req'[g].new \in {req[g].new, Nil}
    BY <1>1 DEF Idle
  <2> QED BY <1>6, <1>7, <2>1 DEF MissedIsPast, SessionTypeOK
<1> QED BY <1>9, <1>10, <1>11, <1>12, <1>13, <1>14 DEF Facts

(* A request that begins: its new token was unused, its old token has a    *)
(* session, and nothing is stored.                                         *)
LEMMA BeginStep ==
    ASSUME SessionInv, SessionTypeOK', NEW h \in Handlers,
           UNCHANGED <<session, index, missed>>,
           req' = [req EXCEPT ![h] = req'[h]],
           LET r == req'[h] IN
           /\ r.pc \in {"replace", "rotateRead", "deleteRead"}
           /\ r.pc # "replace" => r.old # Nil
           /\ r.old # Nil => session[r.old] # Nil \/ r.old \in missed
           /\ r.pc = "replace" /\ r.old # Nil => session[r.old] \in {r.device, Nil}
           /\ \/ /\ r.new = Nil /\ r.pc = "deleteRead"
                 /\ token' = token
              \/ /\ r.new \in Tokens /\ r.device # Nil
                 /\ Draw(r.new)
    PROVE  Facts'
<1> USE SessionAssumption DEF SessionInv
<1> DEFINE r == req'[h]
<1>1. \A g \in Handlers : req[g] \in Request /\ req'[g] \in Request
                          /\ req'[g] = IF g = h THEN r ELSE req[g]
  BY DEF SessionTypeOK
<1>2. \A t \in Tokens : IF t = r.new
                        THEN token[t] = "unused" /\ token'[t] = "drawn" /\ session[t] = Nil
                        ELSE token'[t] = token[t]
  <2>1. CASE token' = token /\ r.new = Nil
    BY <2>1
  <2>2. CASE r.new \in Tokens /\ Draw(r.new)
    <3>1. token[r.new] = "unused" /\ session[r.new] = Nil
      BY <2>2 DEF Draw, UnusedIsUnstored
    <3>2. \A t \in Tokens : token'[t] = IF t = r.new THEN "drawn" ELSE token[t]
      BY <2>2 DEF Draw, SessionTypeOK
    <3> QED BY <3>1, <3>2
  <2> QED BY <2>1, <2>2
<1>3. IndexNeverDangling' /\ UnusedIsUnstored'
  BY <1>2 DEF IndexNeverDangling, UnusedIsUnstored, SessionTypeOK
<1>4. \A g \in Handlers \ {h} : req'[g] = req[g] /\ req[g].new \in Tokens \cup {Nil}
                                /\ req[g].old \in Tokens \cup {Nil}
                                /\ (req[g].new # Nil => req[g].new # r.new)
                                /\ (req[g].old # Nil => req[g].old # r.new)
  BY <1>1, <1>2 DEF Request, NewIsOwn, OldIsPast
<1>5. r.old \in Tokens \cup {Nil} /\ r.new \in Tokens \cup {Nil}
  BY <1>1 DEF Request
<1>6. NewIsOwn'
  BY <1>1, <1>2, <1>4, <1>5 DEF NewIsOwn
<1>7. r.old # Nil => token'[r.old] # "unused" /\ \A g \in Handlers : req'[g].new # r.old
  BY <1>1, <1>2, <1>4, <1>5 DEF NewIsOwn, UnusedIsUnstored, MissedIsPast
<1>8. OldIsPast'
  BY <1>1, <1>2, <1>4, <1>5, <1>7 DEF OldIsPast, Removing
<1>9. DeviceIsKnown'
  BY <1>1 DEF DeviceIsKnown, Removing
<1>10. MissedIsPast'
  BY <1>1, <1>2, <1>4, <1>5 DEF MissedIsPast, SessionTypeOK
<1> QED BY <1>3, <1>6, <1>8, <1>9, <1>10 DEF Facts

(* A request reads the session of a token that was handed out: it knows    *)
(* its device, or that it is gone.                                         *)
LEMMA ReadStep ==
    ASSUME SessionInv, SessionTypeOK', NEW h \in Handlers, NEW t \in Tokens,
           NEW next \in {"idle", "rotate", "delete"}, NEW remove \in Removing,
           Get(h, t, next, remove),
           next = "rotate" \/ remove = "rotateExpired" => req[h].pc = "rotateRead",
           next = "idle" => Expired(t),
           token[t] # "unused", \A g \in Handlers : req[g].new # t
    PROVE  Facts'
<1> USE SessionAssumption DEF SessionInv
<1>1. \A g \in Handlers : /\ req[g] \in Request
                          /\ req'[g].new = req[g].new /\ req'[g].device = req[g].device
                          /\ g # h => req'[g] = req[g]
  BY DEF SessionTypeOK, Request, Get
<1>2. /\ req'[h].pc = IF Expired(t) THEN remove ELSE next
      /\ req'[h].old = t /\ req'[h].oldDevice = session[t]
      /\ UNCHANGED <<session, index, token, overdue, missed>>
  BY DEF SessionTypeOK, Request, Get
<1>3. IndexNeverDangling' /\ UnusedIsUnstored'
  BY <1>2 DEF IndexNeverDangling, UnusedIsUnstored
<1>4. NewIsOwn'
  <2>1. req'[h].pc \in {"replace", "rotateRead", "rotateExpired", "rotate"} => req[h].pc = "rotateRead"
    BY <1>2 DEF Removing
  <2> QED BY <1>1, <1>2, <2>1 DEF NewIsOwn
<1>5. OldIsPast' /\ MissedIsPast'
  BY <1>1, <1>2 DEF OldIsPast, MissedIsPast
<1>6. DeviceIsKnown'
  BY <1>1, <1>2 DEF DeviceIsKnown, Expired, Removing
<1> QED BY <1>3, <1>4, <1>5, <1>6 DEF Facts

(* Get removes an expired session with the key of its device, or nothing   *)
(* and the miss is remembered.                                             *)
LEMMA RemoveStep ==
    ASSUME SessionInv, SessionTypeOK', NEW h \in Handlers, RemoveExpired(h)
    PROVE  Facts'
<1> USE SessionAssumption DEF SessionInv
<1> DEFINE old == req[h].old
           oldDevice == req[h].oldDevice
<1>1. /\ \A g \in Handlers : req[g] \in Request /\ (g # h => req'[g] = req[g])
      /\ req[h].pc \in Removing
      /\ token' = token
  BY DEF SessionTypeOK, RemoveExpired, GoesOn, Removing
<1>2. old \in Tokens /\ oldDevice \in Devices /\ session[old] \in {Nil, oldDevice}
  BY <1>1 DEF OldIsPast, DeviceIsKnown, Request
<1>3. \/ /\ session' = [session EXCEPT ![old] = Nil]
         /\ index' = [index EXCEPT ![oldDevice] = Nil]
         /\ missed' = missed
      \/ UNCHANGED <<session, index>> /\ missed' = missed \cup {old}
  BY DEF RemoveExpired
<1>4. /\ \A t \in Tokens : session'[t] \in {session[t], Nil}
      /\ missed \subseteq missed' /\ missed' \subseteq missed \cup {old}
      /\ session'[old] = Nil \/ old \in missed'
  BY <1>2, <1>3 DEF SessionTypeOK
<1>5. IndexNeverDangling'
  BY <1>2, <1>3 DEF IndexNeverDangling, SessionTypeOK
<1>6. UnusedIsUnstored'
  BY <1>1, <1>4 DEF UnusedIsUnstored
<1>7. \/ /\ req'[h].pc = "idle" /\ req'[h].new = Nil /\ req'[h].old = Nil
      \/ /\ req'[h].device = req[h].device /\ req'[h].new = req[h].new
         /\ req'[h].old = old /\ req'[h].oldDevice = Nil
         /\ \/ req'[h].pc = "rotate" /\ req[h].pc = "rotateExpired"
            \/ req'[h].pc = "delete"
  <2>1. CASE req[h].pc = "refuseExpired"
    BY <2>1 DEF RemoveExpired, GoesOn, Idle, SessionTypeOK
  <2>2. CASE req[h].pc # "refuseExpired"
    BY <1>1, <2>2 DEF RemoveExpired, GoesOn, Removing, SessionTypeOK, Request
  <2> QED BY <2>1, <2>2
<1>8. \A g \in Handlers : /\ req[g].new \in Tokens \cup {Nil} /\ req[g].old \in Tokens \cup {Nil}
                          /\ req'[g].new \in {req[g].new, Nil}
                          /\ req'[g].old \in {req[g].old, Nil}
  BY <1>1, <1>7 DEF Request
<1>9. NewIsOwn'
  <2> SUFFICES ASSUME NEW g \in Handlers
               PROVE  /\ req'[g].pc \in {"replace", "rotateRead", "rotateExpired", "rotate"} =>
                            req'[g].new # Nil /\ req'[g].device # Nil
                      /\ req'[g].new # Nil =>
                            /\ token'[req'[g].new] = "drawn" /\ session'[req'[g].new] = Nil
                            /\ \A f \in Handlers : req'[f].new = req'[g].new => f = g
    BY DEF NewIsOwn
  <2>1. req'[g].pc \in {"replace", "rotateRead", "rotateExpired", "rotate"} =>
           req'[g].new # Nil /\ req'[g].device # Nil
    BY <1>1, <1>7 DEF NewIsOwn
  <2>2. ASSUME req'[g].new # Nil
        PROVE  /\ token'[req'[g].new] = "drawn" /\ session'[req'[g].new] = Nil
               /\ \A f \in Handlers : req'[f].new = req'[g].new => f = g
    BY <1>1, <1>4, <1>8, <2>2 DEF NewIsOwn
  <2> QED BY <2>1, <2>2
<1>10. OldIsPast'
  <2>1. \A g \in Handlers : req'[g].pc \in {"rotateRead", "rotate", "deleteRead", "delete"}
                                            \cup Removing => req'[g].old # Nil
    BY <1>1, <1>2, <1>7 DEF OldIsPast, Removing
  <2>2. \A g \in Handlers : req'[g].old # Nil =>
           token'[req'[g].old] # "unused" /\ \A f \in Handlers : req'[f].new # req'[g].old
    BY <1>1, <1>8 DEF OldIsPast
  <2> QED BY <2>1, <2>2 DEF OldIsPast
<1>11. MissedIsPast'
  <2>1. \A t \in missed' : token[t] # "unused" /\ t # Nil /\ \A g \in Handlers : req[g].new # t
    BY <1>1, <1>2, <1>4 DEF MissedIsPast, OldIsPast, SessionTypeOK
  <2> QED BY <1>1, <1>8, <2>1 DEF MissedIsPast
<1>12. DeviceIsKnown'
  <2> SUFFICES ASSUME NEW g \in Handlers
               PROVE  LET r == req'[g] IN
                      /\ r.pc = "replace" /\ r.old # Nil => session'[r.old] \in {Nil, r.device}
                      /\ r.pc \in {"rotate", "delete"} =>
                            session'[r.old] \in {Nil, r.oldDevice} \/ r.old \in missed'
                      /\ r.pc \in Removing =>
                            r.oldDevice # Nil /\ session'[r.old] \in {Nil, r.oldDevice}
    BY DEF DeviceIsKnown
  <2>1. CASE g = h
    BY <1>1, <1>4, <1>7, <2>1 DEF Removing
  <2>2. CASE g # h
    <3>1. req'[g] = req[g] /\ (req[g].old # Nil => req[g].old \in Tokens)
      BY <1>1, <2>2 DEF Request
    <3>2. req[g].pc \in {"rotate", "delete"} \cup Removing => req[g].old # Nil
      BY DEF OldIsPast
    <3> QED BY <1>4, <3>1, <3>2 DEF DeviceIsKnown
  <2> QED BY <2>1, <2>2
<1> QED BY <1>5, <1>6, <1>9, <1>10, <1>11, <1>12 DEF Facts

-----------------------------------------------------------------------------
(* Every step keeps the facts of any schedule.                             *)
LEMMA FactsStep == SessionInv /\ SessionTypeOK' /\ [Next]_vars => Facts'
<1> SUFFICES ASSUME SessionInv, SessionTypeOK', [Next]_vars PROVE Facts'
  OBVIOUS
<1> USE SessionAssumption
<1>0. SessionTypeOK /\ IndexNeverDangling /\ \A h \in Handlers : req[h] \in Request
  BY DEF SessionInv, SessionTypeOK
<1>1. ASSUME NEW h \in Handlers, NEW d \in Devices, NEW t \in Tokens, Login(h, d, t)
      PROVE Facts'
  <2>1. req'[h] = [Idle EXCEPT !.pc = "replace", !.device = d, !.old = index[d], !.new = t]
        /\ req' = [req EXCEPT ![h] = req'[h]]
    BY <1>0, <1>1 DEF Login, SessionTypeOK
  <2>2. index[d] # Nil => /\ session[index[d]] \in {d, Nil}
                          /\ session[index[d]] # Nil \/ index[d] \in missed
    BY <1>0, SessionAssumption DEF IndexNeverDangling
  <2>3. /\ req'[h].pc = "replace" /\ req'[h].old = index[d] /\ req'[h].device = d
        /\ req'[h].new = t /\ d # Nil
    BY <2>1 DEF Idle
  <2>4. UNCHANGED <<session, index, missed>> /\ Draw(req'[h].new)
    BY <1>1, <2>3 DEF Login
  <2> QED BY <2>1, <2>2, <2>3, <2>4, BeginStep
<1>2. ASSUME NEW h \in Handlers, NEW t \in Tokens, NEW d \in Devices, NEW new \in Tokens,
             Refresh(h, t, d, new)
      PROVE Facts'
  <2>1. req'[h] = [Idle EXCEPT !.pc = "rotateRead", !.old = t, !.device = d, !.new = new]
        /\ req' = [req EXCEPT ![h] = req'[h]]
    BY <1>0, <1>2 DEF Refresh, SessionTypeOK
  <2>2. /\ req'[h].pc = "rotateRead" /\ req'[h].old = t /\ req'[h].device = d
        /\ req'[h].new = new /\ t # Nil /\ d # Nil
    BY <2>1 DEF Idle
  <2>3. UNCHANGED <<session, index, missed>> /\ Draw(req'[h].new) /\ session[t] # Nil
    BY <1>2, <2>2 DEF Refresh, Live
  <2> QED BY <2>1, <2>2, <2>3, BeginStep
<1>3. ASSUME NEW h \in Handlers, NEW t \in Tokens, Logout(h, t) PROVE Facts'
  <2>1. req'[h] = [Idle EXCEPT !.pc = "deleteRead", !.old = t]
        /\ req' = [req EXCEPT ![h] = req'[h]]
    BY <1>0, <1>3 DEF Logout, SessionTypeOK
  <2>2. /\ req'[h].pc = "deleteRead" /\ req'[h].old = t /\ req'[h].new = Nil
        /\ t # Nil
    BY <2>1 DEF Idle
  <2>3. UNCHANGED <<session, index, missed>> /\ token' = token /\ session[t] # Nil
    BY <1>3 DEF Logout, Live
  <2> QED BY <2>1, <2>2, <2>3, BeginStep
<1>4. ASSUME NEW h \in Handlers, NEW answered \in BOOLEAN, ReplaceDeviceSession(h, answered)
      PROVE Facts'
  BY <1>4, StoreStep DEF ReplaceDeviceSession
<1>5. ASSUME NEW h \in Handlers, NEW answered \in BOOLEAN, Rotate(h, answered)
      PROVE Facts'
  <2>1. req[h].oldDevice \in Devices \cup {Nil}
    BY <1>0 DEF Request
  <2> QED BY <1>5, <2>1, StoreStep DEF Rotate
<1>6. ASSUME NEW h \in Handlers, RotateRead(h) \/ DeleteRead(h) PROVE Facts'
  <2> DEFINE old == req[h].old
  <2>1. old \in Tokens /\ token[old] # "unused" /\ \A g \in Handlers : req[g].new # old
    BY <1>0, <1>6 DEF RotateRead, DeleteRead, SessionInv, OldIsPast, Request
  <2>2. CASE RotateRead(h)
    BY <2>1, <2>2, ReadStep DEF RotateRead, Removing
  <2>3. CASE DeleteRead(h)
    BY <2>1, <2>3, ReadStep DEF DeleteRead, Removing
  <2> QED BY <1>6, <2>2, <2>3
<1>7. ASSUME NEW h \in Handlers, Delete(h) PROVE Facts'
  <2>1. /\ req[h].old \in Tokens
        /\ session[req[h].old] \in {Nil, req[h].oldDevice} \/ req[h].old \in missed
    BY <1>0, <1>7 DEF Delete, SessionInv, OldIsPast, DeviceIsKnown, Request
  <2>2. Withdraws
    BY <1>0, <1>7, <2>1 DEF Delete, Withdraws, SessionTypeOK, IndexNeverDangling
  <2> QED BY <1>0, <1>7, <2>2, WithdrawStep DEF Delete, SessionTypeOK
<1>8. ASSUME NEW h \in Handlers, RequestFails(h) PROVE Facts'
  <2>1. Withdraws
    BY <1>8 DEF RequestFails, Withdraws
  <2> QED BY <1>0, <1>8, <2>1, WithdrawStep DEF RequestFails, SessionTypeOK
<1>9. ASSUME NEW h \in Handlers, NEW t \in Tokens, Refuse(h, t) PROVE Facts'
  <2>1. token[t] = "held" /\ \A g \in Handlers : req[g].new # t
    BY <1>9 DEF Refuse, SessionInv, NewIsOwn
  <2> QED BY <1>9, <2>1, ReadStep DEF Refuse, Removing
<1>10. ASSUME NEW t \in Tokens, Overdue(t) PROVE Facts'
  <2>1. Withdraws
    BY <1>10 DEF Overdue, Withdraws
  <2> QED BY <1>10, <2>1, WithdrawStep DEF Overdue
<1>11. ASSUME NEW t \in Tokens, KeysExpire(t) PROVE Facts'
  <2>1. Withdraws
    BY <1>0, <1>11 DEF KeysExpire, Withdraws, SessionTypeOK
  <2> QED BY <1>11, <2>1, WithdrawStep DEF KeysExpire
<1>12. CASE UNCHANGED vars
  <2>1. Withdraws
    BY <1>12 DEF vars, Withdraws
  <2> QED BY <1>12, <2>1, WithdrawStep DEF vars
<1>13. ASSUME NEW h \in Handlers, RemoveExpired(h) PROVE Facts'
  BY <1>13, RemoveStep
<1> QED
  BY <1>1, <1>2, <1>3, <1>4, <1>5, <1>6, <1>7, <1>8, <1>9, <1>10, <1>11, <1>12, <1>13 DEF Next

(* What the theorems rest on. *)
THEOREM SessionInvariant == Spec => []SessionInv
<1>1. SessionInv /\ [Next]_vars => SessionInv'
  BY SessionTypeStep, FactsStep DEF SessionInv, Facts
<1> QED BY SessionInitial, <1>1, PTL DEF Spec

(* However logins, refreshes and logouts overlap, fail or lose their       *)
(* answers, the key of a device names a session of that device or none     *)
(* (Get, Rotate, Delete of redis_token_store.go).                          *)
THEOREM SessionKeysStayOK == Spec => []SessionKeysOK
<1>1. SessionInv => SessionKeysOK
  BY DEF SessionInv, SessionKeysOK
<1> QED BY <1>1, SessionInvariant, PTL

(* What a step may do to a session. *)
Returns ==
    \A t \in Tokens : /\ session[t] # Nil => session'[t] \in {session[t], Nil}
                      /\ session[t] = Nil /\ session'[t] # Nil =>
                            \E h \in Handlers : req[h].new = t /\ req'[h] = Idle

(* A session that was replaced, rotated, logged out or has expired never   *)
(* comes back, whatever a slow request still writes.                       *)
THEOREM GoneSessionsStayGone == Spec => SessionsNeverReturn
<1>1. SessionInv /\ [Next]_vars => [Returns]_vars
  <2> SUFFICES ASSUME SessionInv, [Next]_vars PROVE [Returns]_vars
    OBVIOUS
  <2>1. SessionTypeOK'
    BY SessionTypeStep
  <2>3. CASE UNCHANGED session
    BY <2>3 DEF Returns, SessionInv, SessionTypeOK
  <2>4. ASSUME NEW h \in Handlers, NEW answered \in BOOLEAN,
               ReplaceDeviceSession(h, answered) \/ Rotate(h, answered)
        PROVE  Returns
    <3>1. /\ req[h].new \in Tokens /\ session[req[h].new] = Nil /\ req'[h] = Idle
      BY <2>4, SessionAssumption
      DEF ReplaceDeviceSession, Rotate, SessionInv, SessionTypeOK, Request, NewIsOwn
    <3>2. \A t \in Tokens : session'[t] = IF t = req[h].new THEN req[h].device
                                          ELSE IF t = req[h].old THEN Nil ELSE session[t]
      BY <2>4 DEF ReplaceDeviceSession, Rotate, Store
    <3> QED BY <3>1, <3>2 DEF Returns
  <2>5. ASSUME NEW h \in Handlers, RotateRead(h) \/ DeleteRead(h) PROVE UNCHANGED session
    BY <2>5 DEF RotateRead, DeleteRead, Get
  <2>6. ASSUME NEW h \in Handlers, NEW t \in Tokens, Refuse(h, t) PROVE UNCHANGED session
    BY <2>6 DEF Refuse, Get
  <2>7. ASSUME NEW h \in Handlers, Delete(h) \/ RemoveExpired(h) PROVE Returns
    <3>1. \A t \in Tokens : session'[t] \in {session[t], Nil}
      BY <2>7 DEF Delete, RemoveExpired, SessionInv, SessionTypeOK
    <3> QED BY <3>1 DEF Returns
  <2>8. ASSUME NEW t \in Tokens, KeysExpire(t) PROVE Returns
    <3>1. \A s \in Tokens : session'[s] \in {session[s], Nil}
      BY <2>8 DEF KeysExpire, SessionInv, SessionTypeOK
    <3> QED BY <3>1 DEF Returns
  <2>9. CASE UNCHANGED vars
    BY <2>3, <2>9 DEF vars
  <2>10. ASSUME NEW h \in Handlers, NEW d \in Devices, NEW t \in Tokens, NEW new \in Tokens,
                Login(h, d, t) \/ Refresh(h, t, d, new)
         PROVE  UNCHANGED session
    BY <2>10 DEF Login, Refresh
  <2>11. ASSUME NEW h \in Handlers, RequestFails(h) PROVE UNCHANGED session
    BY <2>11 DEF RequestFails
  <2>12. ASSUME NEW t \in Tokens, Overdue(t) PROVE UNCHANGED session
    BY <2>12 DEF Overdue
  <2>13. ASSUME NEW h \in Handlers, NEW t \in Tokens, Logout(h, t) PROVE UNCHANGED session
    BY <2>13 DEF Logout
  <2> QED BY <2>3, <2>4, <2>5, <2>6, <2>7, <2>8, <2>9, <2>10, <2>11, <2>12, <2>13
      DEF Next
<1>2. SessionsNeverReturn <=> [][Returns]_vars
  BY PTL DEF SessionsNeverReturn, Returns
<1> QED BY <1>1, <1>2, SessionInvariant, PTL DEF Spec
-----------------------------------------------------------------------------
(* Requests in good order. *)

(* As long as requests are orderly, one is at work at a time.              *)
OneAtWork ==
    orderly => \A g, h \in Handlers : req[g].pc # "idle" /\ req[h].pc # "idle" => g = h

(* A token that has obtained another one was drawn before, and by no       *)
(* request that is still at work; in good order its session is gone.       *)
SpentIsPast ==
    \A t \in Tokens : yields[t] # "none" =>
        token[t] # "unused" /\ \A g \in Handlers : req[g].new # t
SpentIsGone ==
    orderly => \A t \in Tokens : yields[t] # "none" => yields[t] = "once" /\ session[t] = Nil

(* What a request has read is still so: the key of its device names the    *)
(* session it is about to replace, or nothing any more; it stays with the  *)
(* device of that session; and it is the first to spend its token.         *)
RequestInOrder(h) ==
    LET r == req[h] IN
    /\ r.pc \in {"replace", "rotateRead", "rotateExpired", "rotate"} =>
          index[r.device] \in {r.old, Nil}
    /\ r.pc = "rotateRead" => session[r.old] \in {Nil, r.device}
    /\ r.pc \in {"rotateExpired", "rotate"} => r.oldDevice \in {Nil, r.device}
    /\ r.pc \in {"delete"} \cup Removing /\ r.oldDevice # Nil =>
          index[r.oldDevice] \in {r.old, Nil}
    /\ r.pc \in {"rotateRead", "rotateExpired", "rotate"} => yields[r.old] = "none"
RequestsInOrder == orderly => \A h \in Handlers : RequestInOrder(h)

OrderFacts ==
    /\ OneAtWork
    /\ OneSessionPerDevice
    /\ SpentIsPast
    /\ SpentIsGone
    /\ RequestsInOrder

OrderlyInv == SessionInv /\ OrderFacts

(* The stronger invariant holds at the start.                              *)
LEMMA OrderlyInitial == Init => OrderlyInv
BY SessionInitial
DEF Init, OrderlyInv, OrderFacts, OneAtWork, OneSessionPerDevice, SpentIsPast, SpentIsGone,
    RequestsInOrder, RequestInOrder, Removing, Idle

(* Sessions and keys go, but no key of a session that stays.               *)
KeysOfLiveStay ==
    orderly => \A t \in Tokens : session'[t] # Nil /\ index[session[t]] = t =>
                                    index'[session[t]] = t

(* While requests come one at a time, such a step keeps what holds then,   *)
(* too.                                                                    *)
LEMMA OrderWithdrawn ==
    ASSUME OrderlyInv, SessionTypeOK', Withdraws, KeysOfLiveStay,
           UNCHANGED <<yields, orderly>>,
           \A h \in Handlers : req'[h] \in {req[h], Idle}
    PROVE  OrderFacts'
<1> USE SessionAssumption DEF OrderlyInv, OrderFacts
<1>1. /\ \A h \in Handlers : req[h] \in Request /\ req'[h] \in Request
      /\ \A t \in Tokens : session'[t] \in {session[t], Nil}
      /\ \A d \in Devices : index'[d] \in {index[d], Nil}
      /\ token' = token
  BY DEF Withdraws, SessionInv, SessionTypeOK
<1>2. OneAtWork'
  BY DEF OneAtWork, Idle
<1>3. OneSessionPerDevice'
  BY <1>1 DEF OneSessionPerDevice, KeysOfLiveStay
<1>4. SpentIsPast'
  <2>1. \A h \in Handlers : req'[h].new \in {req[h].new, Nil}
    BY DEF Idle
  <2> QED BY <1>1, <2>1 DEF SpentIsPast
<1>5. SpentIsGone'
  BY <1>1 DEF SpentIsGone
<1>6. RequestsInOrder'
  <2> SUFFICES ASSUME orderly, NEW h \in Handlers PROVE RequestInOrder(h)'
    BY DEF RequestsInOrder
  <2>1. CASE req'[h] = Idle
    BY <2>1 DEF RequestInOrder, Removing, Idle
  <2>2. CASE req'[h] = req[h]
    <3> DEFINE r == req[h]
    <3>1. RequestInOrder(h)
      BY DEF RequestsInOrder
    <3>2. /\ r.pc \in {"replace", "rotateRead", "rotateExpired", "rotate"} => r.device \in Devices
          /\ r.pc = "rotateRead" => r.old \in Tokens
          /\ r.oldDevice # Nil => r.oldDevice \in Devices
      BY <1>1 DEF SessionInv, NewIsOwn, OldIsPast, Request
    <3> QED BY <1>1, <2>2, <3>1, <3>2 DEF RequestInOrder
  <2> QED BY <2>1, <2>2
<1> QED BY <1>2, <1>3, <1>4, <1>5, <1>6

(* A request enters while the others are idle, or order is over.           *)
LEMMA OrderBegins ==
    ASSUME OrderlyInv, SessionTypeOK', NEW h \in Handlers, req[h].pc = "idle",
           UNCHANGED <<session, index, yields>>,
           req' = [req EXCEPT ![h] = req'[h]],
           \A t \in Tokens : token[t] # "unused" => token'[t] # "unused",
           req'[h].new # Nil => token[req'[h].new] = "unused",
           orderly' => orderly /\ \A g \in Handlers \ {h} : req[g].pc = "idle",
           orderly' => RequestInOrder(h)'
    PROVE  OrderFacts'
<1> USE DEF OrderlyInv, OrderFacts
<1>1. \A g \in Handlers \ {h} : req'[g] = req[g]
  BY DEF SessionInv, SessionTypeOK
<1>2. OneAtWork'
  BY <1>1 DEF OneAtWork
<1>3. OneSessionPerDevice'
  BY DEF OneSessionPerDevice
<1>4. SpentIsPast'
  BY <1>1, SessionAssumption DEF SpentIsPast
<1>5. SpentIsGone'
  BY DEF SpentIsGone
<1>6. RequestsInOrder'
  BY <1>1 DEF RequestsInOrder, RequestInOrder
<1> QED BY <1>2, <1>3, <1>4, <1>5, <1>6

(* Get learns the device of the session, if it is still there.             *)
LEMMA OrderReads ==
    ASSUME OrderlyInv, SessionTypeOK', NEW h \in Handlers,
           \/ RotateRead(h) \/ DeleteRead(h)
           \/ \E t \in Tokens : Refuse(h, t)
    PROVE  OrderFacts'
<1> USE SessionAssumption DEF OrderlyInv, OrderFacts
<1> DEFINE old == req'[h].old
<1>1. /\ \A g \in Handlers : req[g] \in Request /\ req'[g].new = req[g].new
      /\ \A g \in Handlers \ {h} : req'[g] = req[g]
      /\ req'[h].device = req[h].device /\ req'[h].oldDevice = session[old]
      /\ UNCHANGED <<session, index, token, yields>>
  <2>1. \A g \in Handlers : req[g] \in Request
    BY DEF SessionInv, SessionTypeOK
  <2>2. PICK t \in Tokens \cup {Nil}, next \in {"idle", "rotate", "delete"}, remove \in Removing :
           Get(h, t, next, remove)
    BY <2>1 DEF RotateRead, DeleteRead, Refuse, Removing, Request
  <2> QED BY <2>1, <2>2 DEF Get, SessionInv, SessionTypeOK, Request
<1>2. /\ \/ /\ req[h].pc = "rotateRead" /\ req'[h].pc \in {"rotate", "rotateExpired"}
            /\ old = req[h].old
         \/ /\ req[h].pc = "deleteRead" /\ req'[h].pc \in {"delete", "deleteExpired"}
            /\ old = req[h].old
         \/ /\ req[h].pc = "idle" /\ req'[h].pc = "refuseExpired" /\ old \in Tokens
      /\ orderly' => orderly /\ \A g \in Handlers \ {h} : req[g].pc = "idle"
  <2>0. req[h] \in Request
    BY DEF SessionInv, SessionTypeOK, Request
  <2>1. CASE RotateRead(h)
    BY <2>0, <2>1 DEF RotateRead, Get, OneAtWork, SessionInv, SessionTypeOK, Request
  <2>2. CASE DeleteRead(h)
    BY <2>0, <2>2 DEF DeleteRead, Get, OneAtWork, SessionInv, SessionTypeOK, Request
  <2>3. CASE \E t \in Tokens : Refuse(h, t)
    <3>1. PICK t \in Tokens : Refuse(h, t)
      BY <2>3
    <3>2. req[h].pc = "idle" /\ req'[h].pc = "refuseExpired" /\ old = t
      BY <2>0, <3>1 DEF Refuse, Get, SessionInv, SessionTypeOK, Request
    <3> QED BY <3>1, <3>2 DEF Refuse, Enters
  <2> QED BY <2>1, <2>2, <2>3
<1>3. old \in Tokens
  BY <1>1, <1>2 DEF SessionInv, OldIsPast, Request
<1>4. OneAtWork'
  BY <1>1, <1>2 DEF OneAtWork
<1>5. OneSessionPerDevice' /\ SpentIsPast' /\ SpentIsGone'
  BY <1>1, <1>2 DEF OneSessionPerDevice, SpentIsPast, SpentIsGone
<1>6. ASSUME orderly PROVE RequestInOrder(h)'
  <2>1. RequestInOrder(h)
    BY <1>6 DEF RequestsInOrder
  <2>2. session[old] # Nil => session[old] \in Devices /\ index[session[old]] = old
    BY <1>3, <1>6 DEF OneSessionPerDevice, SessionInv, SessionTypeOK
  <2> QED BY <1>1, <1>2, <2>1, <2>2 DEF RequestInOrder, Removing
<1>7. RequestsInOrder'
  <2> SUFFICES ASSUME orderly', NEW g \in Handlers PROVE RequestInOrder(g)'
    BY DEF RequestsInOrder
  <2>1. CASE g = h
    BY <1>2, <1>6, <2>1
  <2>2. CASE g # h
    BY <1>1, <1>2, <2>2 DEF RequestInOrder, Removing
  <2> QED BY <2>1, <2>2
<1> QED BY <1>4, <1>5, <1>7

(* Get removes an expired session: the key it deletes names that session,  *)
(* or nothing any more.                                                    *)
LEMMA OrderRemoves ==
    ASSUME OrderlyInv, SessionTypeOK', NEW h \in Handlers, RemoveExpired(h)
    PROVE  OrderFacts'
<1> USE SessionAssumption DEF OrderlyInv, OrderFacts
<1> DEFINE old == req[h].old
           oldDevice == req[h].oldDevice
<1>1. /\ \A g \in Handlers : req[g] \in Request /\ req'[g].new \in {req[g].new, Nil}
      /\ \A g \in Handlers \ {h} : req'[g] = req[g]
      /\ req[h].pc \in Removing
      /\ UNCHANGED <<token, yields, orderly>>
  BY DEF SessionInv, SessionTypeOK, Request, RemoveExpired, GoesOn, Removing, Idle
<1>2. old \in Tokens /\ oldDevice \in Devices
  BY <1>1 DEF SessionInv, OldIsPast, DeviceIsKnown, Request
<1>3. \/ /\ session' = [session EXCEPT ![old] = Nil]
         /\ index' = [index EXCEPT ![oldDevice] = Nil]
      \/ UNCHANGED <<session, index>>
  BY DEF RemoveExpired
<1>4. /\ \A t \in Tokens : session'[t] \in {session[t], Nil}
      /\ \A d \in Devices : index'[d] \in {index[d], Nil}
  BY <1>2, <1>3 DEF SessionInv, SessionTypeOK
<1>5. OneAtWork'
  BY <1>1 DEF OneAtWork, Removing
<1>6. OneSessionPerDevice'
  <2> SUFFICES ASSUME orderly, NEW t \in Tokens, session'[t] # Nil
               PROVE  index'[session'[t]] = t
    BY <1>1 DEF OneSessionPerDevice
  <2>1. session'[t] = session[t] /\ session[t] \in Devices /\ index[session[t]] = t
    BY <1>4 DEF OneSessionPerDevice, SessionInv, SessionTypeOK
  <2>2. index[oldDevice] \in {old, Nil}
    BY <1>1, <1>2 DEF RequestsInOrder, RequestInOrder
  <2>3. CASE UNCHANGED <<session, index>>
    BY <2>1, <2>3
  <2>4. CASE session' = [session EXCEPT ![old] = Nil] /\ index' = [index EXCEPT ![oldDevice] = Nil]
    <3>1. t # old
      BY <1>2, <2>4 DEF SessionInv, SessionTypeOK
    <3>2. session[t] # oldDevice
      BY <2>1, <2>2, <3>1
    <3> QED BY <2>1, <2>4, <3>2 DEF SessionInv, SessionTypeOK
  <2> QED BY <1>3, <2>3, <2>4
<1>7. SpentIsPast' /\ SpentIsGone'
  BY <1>1, <1>4 DEF SpentIsPast, SpentIsGone
<1>8. ASSUME orderly PROVE RequestInOrder(h)'
  <2>1. RequestInOrder(h)
    BY <1>8 DEF RequestsInOrder
  <2>2. \/ req'[h] = Idle
        \/ /\ req[h].pc = "rotateExpired" /\ req'[h].pc = "rotate"
           /\ req'[h].old = old /\ req'[h].device = req[h].device /\ req'[h].oldDevice = Nil
        \/ req'[h].pc = "delete" /\ req'[h].oldDevice = Nil
    BY <1>1 DEF RemoveExpired, GoesOn, Removing, SessionInv, SessionTypeOK, Request
  <2>3. req[h].pc = "rotateExpired" => req[h].device \in Devices
    BY <1>1 DEF SessionInv, NewIsOwn, Request
  <2> QED BY <1>1, <1>4, <2>1, <2>2, <2>3 DEF RequestInOrder, Removing, Idle
<1>9. RequestsInOrder'
  <2> SUFFICES ASSUME orderly, NEW g \in Handlers PROVE RequestInOrder(g)'
    BY <1>1 DEF RequestsInOrder
  <2>1. CASE g = h
    BY <1>8, <2>1
  <2>2. CASE g # h
    <3>1. req'[g].pc = "idle"
      BY <1>1, <2>2 DEF OneAtWork, Removing
    <3> QED BY <3>1 DEF RequestInOrder, Removing
  <2> QED BY <2>1, <2>2
<1> QED BY <1>5, <1>6, <1>7, <1>9

(* A request stores its session in place of the one it knows.              *)
LEMMA OrderStores ==
    ASSUME OrderlyInv, SessionTypeOK', NEW h \in Handlers, NEW answered \in BOOLEAN,
           ReplaceDeviceSession(h, answered) \/ Rotate(h, answered)
    PROVE  OrderFacts'
<1> USE SessionAssumption DEF OrderlyInv, OrderFacts
<1> DEFINE new == req[h].new
           device == req[h].device
           old == req[h].old
           oldDevice == IF req[h].pc = "rotate" THEN req[h].oldDevice ELSE Nil
<1>1. /\ \A g \in Handlers : req[g] \in Request
      /\ \A g \in Handlers : req'[g] = IF g = h THEN Idle ELSE req[g]
      /\ req[h].pc \in {"replace", "rotate"}
      /\ orderly' = orderly
  BY DEF SessionInv, SessionTypeOK, ReplaceDeviceSession, Rotate
<1>2. /\ new \in Tokens /\ device \in Devices /\ old \in Tokens \cup {Nil}
      /\ session[new] = Nil /\ token[new] = "drawn" /\ old # new
  BY <1>1 DEF Request, SessionInv, NewIsOwn, OldIsPast
<1>3. Store(new, device, old, oldDevice, answered)
  BY DEF ReplaceDeviceSession, Rotate
<1>4. \A t \in Tokens : session'[t] = IF t = new THEN device ELSE IF t = old THEN Nil ELSE session[t]
  BY <1>3 DEF Store
<1>5. \A d \in Devices : index'[d] = IF d = device THEN new
                                     ELSE IF d = oldDevice THEN Nil ELSE index[d]
  BY <1>3 DEF Store
<1>6. \A t \in Tokens : token[t] # "unused" => token'[t] # "unused"
  BY <1>3 DEF Store, SessionInv, SessionTypeOK
<1>7. \A t \in Tokens : \/ yields'[t] = yields[t]
                        \/ /\ t = old /\ req[h].pc = "rotate"
                           /\ yields[t] = "none" => yields'[t] = "once"
  BY DEF ReplaceDeviceSession, Rotate, SessionInv, SessionTypeOK
<1>8. OneAtWork'
  BY <1>1 DEF OneAtWork, Idle
<1>9. OneSessionPerDevice'
  <2> SUFFICES ASSUME orderly, NEW t \in Tokens, session'[t] # Nil
               PROVE  index'[session'[t]] = t
    BY <1>1 DEF OneSessionPerDevice
  <2>1. RequestInOrder(h)
    BY DEF RequestsInOrder
  <2>2. CASE t = new
    BY <1>2, <1>4, <1>5, <2>2
  <2>3. CASE t # new
    <3>1. t # old /\ session'[t] = session[t] /\ session[t] \in Devices /\ index[session[t]] = t
      BY <1>4, <2>3 DEF OneSessionPerDevice, SessionInv, SessionTypeOK
    <3>2. session[t] # device
      BY <1>1, <2>1, <3>1 DEF RequestInOrder
    <3>3. oldDevice \in {Nil, device}
      BY <2>1 DEF RequestInOrder
    <3> QED BY <1>5, <3>1, <3>2, <3>3
  <2> QED BY <2>2, <2>3
<1>10. SpentIsPast'
  <2>1. \A g \in Handlers : req'[g].new \in {req[g].new, Nil}
    BY <1>1 DEF Idle
  <2>2. old # Nil => token[old] # "unused" /\ \A g \in Handlers : req[g].new # old
    BY DEF SessionInv, OldIsPast
  <2> QED BY <1>6, <1>7, <2>1, <2>2 DEF SpentIsPast
<1>11. SpentIsGone'
  <2> SUFFICES ASSUME orderly, NEW t \in Tokens, yields'[t] # "none"
               PROVE  yields'[t] = "once" /\ session'[t] = Nil
    BY <1>1 DEF SpentIsGone
  <2>1. CASE yields'[t] = yields[t]
    <3>1. yields[t] = "once" /\ session[t] = Nil /\ t # new
      BY <2>1 DEF SpentIsGone, SpentIsPast
    <3> QED BY <1>4, <2>1, <3>1
  <2>2. CASE yields'[t] # yields[t]
    <3>1. t = old /\ req[h].pc = "rotate" /\ yields[t] = "none"
      BY <1>7, <2>2 DEF RequestsInOrder, RequestInOrder
    <3> QED BY <1>2, <1>4, <1>7, <2>2, <3>1
  <2> QED BY <2>1, <2>2
<1>12. RequestsInOrder'
  <2> SUFFICES ASSUME orderly, NEW g \in Handlers PROVE RequestInOrder(g)'
    BY <1>1 DEF RequestsInOrder
  <2>1. req'[g].pc = "idle"
    BY <1>1 DEF OneAtWork, Idle
  <2> QED BY <2>1 DEF RequestInOrder, Removing
<1> QED BY <1>8, <1>9, <1>10, <1>11, <1>12

(* Every step keeps the stronger invariant.                                *)
LEMMA OrderlyStep == OrderlyInv /\ [Next]_vars => OrderlyInv'
<1> SUFFICES ASSUME OrderlyInv, [Next]_vars PROVE OrderlyInv'
  OBVIOUS
<1>0. SessionInv' /\ SessionTypeOK' /\ SessionTypeOK
  BY SessionTypeStep, FactsStep DEF OrderlyInv, SessionInv, Facts
<1> USE SessionAssumption
<1>1. ASSUME NEW h \in Handlers, NEW d \in Devices, NEW t \in Tokens, Login(h, d, t)
      PROVE OrderFacts'
  <2>1. /\ req' = [req EXCEPT ![h] = req'[h]]
        /\ req'[h].pc = "replace" /\ req'[h].device = d /\ req'[h].old = index[d]
        /\ req'[h].new = t
    BY <1>0, <1>1 DEF Login, Idle, SessionTypeOK
  <2>2. RequestInOrder(h)'
    BY <1>1, <2>1 DEF Login, RequestInOrder, Removing
  <2> QED BY <1>0, <1>1, <2>1, <2>2, OrderBegins DEF Login, Draw, Enters, SessionTypeOK
<1>2. ASSUME NEW h \in Handlers, NEW t \in Tokens, NEW d \in Devices, NEW new \in Tokens,
             Refresh(h, t, d, new)
      PROVE OrderFacts'
  <2>1. /\ req' = [req EXCEPT ![h] = req'[h]]
        /\ req'[h].pc = "rotateRead" /\ req'[h].device = d /\ req'[h].old = t
        /\ req'[h].new = new
    BY <1>0, <1>2 DEF Refresh, Idle, SessionTypeOK
  <2>2. orderly' => d = session[t] /\ index[d] = t /\ yields[t] = "none"
    BY <1>2 DEF Refresh, Live, OrderlyInv, OrderFacts, OneSessionPerDevice, SpentIsGone
  <2>3. orderly' => RequestInOrder(h)'
    BY <1>2, <2>1, <2>2 DEF Refresh, RequestInOrder, Removing
  <2> QED BY <1>0, <1>2, <2>1, <2>3, OrderBegins DEF Refresh, Draw, SessionTypeOK
<1>3. ASSUME NEW h \in Handlers, NEW t \in Tokens, Logout(h, t) PROVE OrderFacts'
  <2>1. /\ req' = [req EXCEPT ![h] = req'[h]]
        /\ req'[h].pc = "deleteRead" /\ req'[h].new = Nil
    BY <1>0, <1>3 DEF Logout, Idle, SessionTypeOK
  <2>2. RequestInOrder(h)'
    BY <2>1 DEF RequestInOrder, Removing
  <2> QED BY <1>0, <1>3, <2>1, <2>2, OrderBegins DEF Logout, Enters
<1>4. ASSUME NEW h \in Handlers, NEW answered \in BOOLEAN,
             ReplaceDeviceSession(h, answered) \/ Rotate(h, answered)
      PROVE OrderFacts'
  BY <1>0, <1>4, OrderStores
<1>5. ASSUME NEW h \in Handlers,
             \/ RotateRead(h) \/ DeleteRead(h) \/ RemoveExpired(h)
             \/ \E t \in Tokens : Refuse(h, t)
      PROVE OrderFacts'
  BY <1>0, <1>5, OrderReads, OrderRemoves
<1>6. ASSUME NEW h \in Handlers, Delete(h) PROVE OrderFacts'
  <2>1. /\ req[h] \in Request /\ req[h].old \in Tokens
        /\ session[req[h].old] \in {Nil, req[h].oldDevice} \/ req[h].old \in missed
    BY <1>0, <1>6 DEF Delete, OrderlyInv, SessionInv, OldIsPast, DeviceIsKnown, Request,
                      SessionTypeOK
  <2>2. Withdraws
    BY <1>0, <1>6, <2>1 DEF Delete, Withdraws, SessionTypeOK, IndexNeverDangling, OrderlyInv,
                            SessionInv
  <2>3. KeysOfLiveStay
    <3> SUFFICES ASSUME orderly, NEW t \in Tokens, session'[t] # Nil, index[session[t]] = t
                 PROVE  index'[session[t]] = t
      BY DEF KeysOfLiveStay
    <3>1. t # req[h].old /\ session[t] \in Devices
      BY <1>0, <1>6, <2>1 DEF Delete, SessionTypeOK
    <3>2. session[t] # req[h].oldDevice
      BY <1>6, <3>1 DEF Delete, OrderlyInv, OrderFacts, RequestsInOrder, RequestInOrder
    <3> QED BY <1>6, <3>1, <3>2 DEF Delete
  <2> QED BY <1>0, <1>6, <2>2, <2>3, OrderWithdrawn DEF Delete, SessionTypeOK
<1>7. ASSUME NEW h \in Handlers, RequestFails(h) PROVE OrderFacts'
  <2>1. Withdraws /\ KeysOfLiveStay
    BY <1>7 DEF RequestFails, Withdraws, KeysOfLiveStay
  <2> QED BY <1>0, <1>7, <2>1, OrderWithdrawn DEF RequestFails, SessionTypeOK
<1>8. ASSUME NEW t \in Tokens, Overdue(t) PROVE OrderFacts'
  <2>1. Withdraws /\ KeysOfLiveStay
    BY <1>8 DEF Overdue, Withdraws, KeysOfLiveStay
  <2> QED BY <1>0, <1>8, <2>1, OrderWithdrawn DEF Overdue
<1>9. ASSUME NEW t \in Tokens, KeysExpire(t) PROVE OrderFacts'
  <2>1. Withdraws /\ KeysOfLiveStay
    BY <1>0, <1>9 DEF KeysExpire, Withdraws, KeysOfLiveStay, SessionTypeOK
  <2> QED BY <1>0, <1>9, <2>1, OrderWithdrawn DEF KeysExpire
<1>10. ASSUME UNCHANGED vars PROVE OrderFacts'
  <2>1. Withdraws /\ KeysOfLiveStay
    BY <1>10 DEF vars, Withdraws, KeysOfLiveStay
  <2> QED BY <1>0, <1>10, <2>1, OrderWithdrawn DEF vars
<1>11. OrderFacts'
  BY <1>1, <1>2, <1>3, <1>4, <1>5, <1>6, <1>7, <1>8, <1>9, <1>10 DEF Next
<1> QED BY <1>0, <1>11 DEF OrderlyInv

(* As long as requests do not overlap and no refresh moves a session to    *)
(* another device, a device has at most one session, which its key names,  *)
(* and a refresh token obtains at most one other - whatever requests fail, *)
(* answers are lost and keys expire between their commands.                *)
THEOREM OrderlySessionsHold == Spec => []OrderlySessions
<1>1. OrderlyInv => OrderlySessions
  BY DEF OrderlyInv, OrderFacts, OrderlySessions, OneSessionPerDevice, RefreshedOnce,
         SpentIsGone
<1> QED BY OrderlyInitial, OrderlyStep, <1>1, PTL DEF Spec

=============================================================================
