------------------------------- MODULE Session -------------------------------
(***************************************************************************)
(* The long-lived login sessions of one user: the Redis keys behind a      *)
(* refresh token (RefreshKey) and behind a device (UserDeviceSessionKey),  *)
(* and the requests that read one and then write both: Login, Refresh and  *)
(* Logout of AuthService over RedisTokenStore.                             *)
(*                                                                         *)
(* Every command or MULTI/EXEC pipeline of Redis is one step; between two  *)
(* of them other requests run. A token stands for its random id; the       *)
(* stored hash is that of its only clear text, so the comparison of the    *)
(* hashes never fails for a token the server handed out. No code disables  *)
(* a user, and normalizeDeviceID leaves no request without a device.       *)
(***************************************************************************)
CONSTANTS Tokens,   \* token ids, drawn at random and never twice
          Devices,  \* device ids of the user
          Handlers, \* requests the service works on at the same time
          Nil       \* "no value"

ASSUME SessionAssumption == Nil \notin Tokens \cup Devices

VARIABLES session,  \* refresh key: the device of the session stored under a token
          index,    \* device key: the token of the device's session
          token,    \* what has become of a token id
          overdue,  \* tokens whose session's ExpiresAt is over
          req,      \* the local state of each request
          missed,   \* history: expired sessions whose removal by Get failed
          yields,   \* history: how many tokens were obtained for this one
          orderly   \* history: no two requests overlapped and none moved device

vars == <<session, index, token, overdue, req, missed, yields, orderly>>

Idle == [pc |-> "idle", old |-> Nil, device |-> Nil, oldDevice |-> Nil, new |-> Nil]
Request == [pc : {"idle", "replace", "rotateRead", "rotate", "deleteRead", "delete",
                  "refuseExpired", "rotateExpired", "deleteExpired"},
            old : Tokens \cup {Nil}, device : Devices \cup {Nil},
            oldDevice : Devices \cup {Nil}, new : Tokens \cup {Nil}]

SessionTypeOK ==
    /\ session \in [Tokens -> Devices \cup {Nil}]
    /\ index \in [Devices -> Tokens \cup {Nil}]
    /\ token \in [Tokens -> {"unused", "drawn", "held"}]
    /\ overdue \subseteq Tokens
    /\ req \in [Handlers -> Request]
    /\ missed \subseteq Tokens
    /\ yields \in [Tokens -> {"none", "once", "again"}]
    /\ orderly \in BOOLEAN

Init ==
    /\ session = [t \in Tokens |-> Nil]
    /\ index = [d \in Devices |-> Nil]
    /\ token = [t \in Tokens |-> "unused"]
    /\ overdue = {}
    /\ req = [h \in Handlers |-> Idle]
    /\ missed = {}
    /\ yields = [t \in Tokens |-> "none"]
    /\ orderly = TRUE

Live(t) == session[t] # Nil /\ t \notin overdue
Expired(t) == session[t] # Nil /\ t \in overdue

(* A request that finds another one at work is no longer orderly. *)
Enters(h) == orderly' = (orderly /\ \A g \in Handlers \ {h} : req[g].pc = "idle")

-----------------------------------------------------------------------------
(* Get of RedisTokenStore, called by a request that goes on at pc next:    *)
(* its GET finds the session, or none. For one past its ExpiresAt it also  *)
(* removes the keys (RemoveExpired), then answers that there is none.      *)
Get(h, t, next, remove) ==
    /\ req' = [req EXCEPT ![h].pc = IF Expired(t) THEN remove ELSE next,
                          ![h].old = t, ![h].oldDevice = session[t]]
    /\ UNCHANGED <<session, index, token, overdue, missed, yields>>

(* The pipeline of Get: it deletes the key of the expired session and that *)
(* of its device, whatever token that names by now. Its error is dropped:  *)
(* the request goes on as if the session were gone.                        *)
GoesOn(h) ==
    LET after == IF req[h].pc = "rotateExpired" THEN "rotate" ELSE "delete" IN
    req' = [req EXCEPT ![h] = IF req[h].pc = "refuseExpired" THEN Idle
                              ELSE [req[h] EXCEPT !.pc = after, !.oldDevice = Nil]]
RemoveSessionOnly(h) ==
    /\ req[h].pc \in {"refuseExpired", "rotateExpired", "deleteExpired"}
    /\ session' = [session EXCEPT ![req[h].old] = Nil]
    /\ GoesOn(h)
    /\ UNCHANGED <<index, token, overdue, missed, yields, orderly>>
RemoveExpired(h) ==
    /\ req[h].pc \in {"refuseExpired", "rotateExpired", "deleteExpired"}
    /\ \/ /\ session' = [session EXCEPT ![req[h].old] = Nil]
          /\ index' = [index EXCEPT ![req[h].oldDevice] = Nil]
          /\ UNCHANGED missed
       \/ /\ missed' = missed \cup {req[h].old}
          /\ UNCHANGED <<session, index>>
    /\ GoesOn(h)
    /\ UNCHANGED <<token, overdue, yields, orderly>>

(* A pipeline that stores the session of a new token under its two keys,   *)
(* after it deleted the key of an old token and of an old device. answered *)
(* tells whether the reply reached the client.                             *)
Store(new, device, old, oldDevice, answered) ==
    /\ session' = [t \in Tokens |-> IF t = new THEN device
                                    ELSE IF t = old THEN Nil ELSE session[t]]
    /\ index' = [d \in Devices |-> IF d = device THEN new
                                   ELSE IF d = oldDevice THEN Nil ELSE index[d]]
    /\ token' = [token EXCEPT ![new] = IF answered THEN "held" ELSE "drawn"]
    /\ UNCHANGED <<overdue, missed>>

Draw(t) == token[t] = "unused" /\ token' = [token EXCEPT ![t] = "drawn"]

(* Login: draws a token; ReplaceDeviceSession reads the device key ... *)
Login(h, d, t) ==
    /\ req[h].pc = "idle"
    /\ Draw(t)
    /\ Enters(h)
    /\ req' = [req EXCEPT ![h] = [Idle EXCEPT !.pc = "replace", !.device = d,
                                              !.old = index[d], !.new = t]]
    /\ UNCHANGED <<session, index, overdue, missed, yields>>

(* ... and replaces the session it found there by the new one. *)
ReplaceKeepsOld(h, answered) ==
    /\ req[h].pc = "replace"
    /\ Store(req[h].new, req[h].device, Nil, Nil, answered)
    /\ req' = [req EXCEPT ![h] = Idle]
    /\ UNCHANGED <<yields, orderly>>
ReplaceDeviceSession(h, answered) ==
    /\ req[h].pc = "replace"
    /\ Store(req[h].new, req[h].device, req[h].old, Nil, answered)
    /\ req' = [req EXCEPT ![h] = Idle]
    /\ UNCHANGED <<yields, orderly>>

(* Refresh reads the session of the token presented; not found: refused.   *)
(* The device is the one the client names, or that of the session.         *)
Refresh(h, t, d, new) ==
    /\ req[h].pc = "idle"
    /\ token[t] = "held"
    /\ Live(t)
    /\ Draw(new)
    /\ orderly' = (/\ orderly
                   /\ \A g \in Handlers \ {h} : req[g].pc = "idle"
                   /\ d = session[t])
    /\ req' = [req EXCEPT ![h] = [Idle EXCEPT !.pc = "rotateRead", !.old = t,
                                              !.device = d, !.new = new]]
    /\ UNCHANGED <<session, index, overdue, missed, yields>>

(* A Refresh or Logout of a token whose session is gone is refused without *)
(* a trace; of one whose session has expired, after its removal.           *)
Refuse(h, t) ==
    /\ req[h].pc = "idle"
    /\ token[t] = "held"
    /\ Expired(t)
    /\ Enters(h)
    /\ Get(h, t, "idle", "refuseExpired")

(* Rotate reads the old session again; not found is no error there. *)
RotateRead(h) ==
    /\ req[h].pc = "rotateRead"
    /\ Get(h, req[h].old, "rotate", "rotateExpired")
    /\ UNCHANGED orderly

RotateKeepsOld(h, answered) ==
    /\ req[h].pc = "rotate"
    /\ Store(req[h].new, req[h].device, Nil, Nil, answered)
    /\ yields' = [yields EXCEPT ![req[h].old] = IF @ = "none" THEN "once" ELSE "again"]
    /\ req' = [req EXCEPT ![h] = Idle]
    /\ UNCHANGED orderly

RotateMovesOld(h, answered) ==
    /\ req[h].pc = "rotate"
    /\ session' = [t \in Tokens |-> IF t \in {req[h].new, req[h].old} THEN req[h].device
                                    ELSE session[t]]
    /\ index' = [index EXCEPT ![req[h].device] = req[h].new]
    /\ token' = [token EXCEPT ![req[h].new] = IF answered THEN "held" ELSE "drawn"]
    /\ req' = [req EXCEPT ![h] = Idle]
    /\ UNCHANGED <<overdue, missed, yields, orderly>>
Rotate(h, answered) ==
    /\ req[h].pc = "rotate"
    /\ Store(req[h].new, req[h].device, req[h].old, req[h].oldDevice, answered)
    /\ yields' = [yields EXCEPT ![req[h].old] = IF @ = "none" THEN "once" ELSE "again"]
    /\ req' = [req EXCEPT ![h] = Idle]
    /\ UNCHANGED orderly

(* Logout: the session must be there; Delete reads it again and removes    *)
(* its keys.                                                               *)
Logout(h, t) ==
    /\ req[h].pc = "idle"
    /\ token[t] = "held"
    /\ Live(t)
    /\ Enters(h)
    /\ req' = [req EXCEPT ![h] = [Idle EXCEPT !.pc = "deleteRead", !.old = t]]
    /\ UNCHANGED <<session, index, token, overdue, missed, yields>>

DeleteRead(h) ==
    /\ req[h].pc = "deleteRead"
    /\ Get(h, req[h].old, "delete", "deleteExpired")
    /\ UNCHANGED orderly

Delete(h) ==
    /\ req[h].pc = "delete"
    /\ session' = [session EXCEPT ![req[h].old] = Nil]
    /\ index' = [d \in Devices |-> IF d = req[h].oldDevice THEN Nil ELSE index[d]]
    /\ req' = [req EXCEPT ![h] = Idle]
    /\ UNCHANGED <<token, overdue, missed, yields, orderly>>

-----------------------------------------------------------------------------
(* A request ends on an error of Redis, or with the process; what it wrote *)
(* before stays.                                                           *)
RequestFails(h) ==
    /\ req[h].pc # "idle"
    /\ req' = [req EXCEPT ![h] = Idle]
    /\ UNCHANGED <<session, index, token, overdue, missed, yields, orderly>>

(* ExpiresAt is computed before the keys are written, so it is over a      *)
(* little before Redis drops them; one TTL and one EXEC for both keys.     *)
Overdue(t) ==
    /\ Live(t)
    /\ overdue' = overdue \cup {t}
    /\ UNCHANGED <<session, index, token, req, missed, yields, orderly>>

KeysExpire(t) ==
    /\ t \in overdue
    /\ session' = [session EXCEPT ![t] = Nil]
    /\ index' = [d \in Devices |-> IF index[d] = t THEN Nil ELSE index[d]]
    /\ UNCHANGED <<token, overdue, req, missed, yields, orderly>>

Next ==
    \/ \E h \in Handlers :
          \/ \E d \in Devices, t \in Tokens :
                Login(h, d, t) \/ \E new \in Tokens : Refresh(h, t, d, new)
          \/ \E t \in Tokens : Logout(h, t) \/ Refuse(h, t)
          \/ \E answered \in BOOLEAN : ReplaceDeviceSession(h, answered) \/ Rotate(h, answered)
          \/ RotateRead(h) \/ DeleteRead(h) \/ RemoveExpired(h) \/ Delete(h) \/ RequestFails(h)
    \/ \E t \in Tokens : Overdue(t) \/ KeysExpire(t)

Spec == Init /\ [][Next]_vars

-----------------------------------------------------------------------------
(* The key of a device never names a token without a session, nor a        *)
(* session of another device: whatever requests overlap, a login finds the *)
(* session it has to replace or none. (Rotate, Delete and Get delete two   *)
(* keys after they read only one of them.) One case is excepted: the       *)
(* removal of an expired session failed, Get dropped the error, and Rotate *)
(* or Delete then deleted the session alone.                               *)
IndexNeverDangling ==
    \A d \in Devices : index[d] # Nil =>
        session[index[d]] = d \/ (session[index[d]] = Nil /\ index[d] \in missed)

(* The keys are well formed, and each device key rests on a session. *)
SessionKeysOK == SessionTypeOK /\ IndexNeverDangling

(* "写入新会话前删除同一用户同一设备的旧 token": as long as requests do not   *)
(* overlap and no refresh moves a session to another device, a device has  *)
(* at most one session and its key names it.                               *)
OneSessionPerDevice ==
    orderly => \A t \in Tokens : session[t] # Nil => index[session[t]] = t

(* "旧 token 成功刷新后立即失效": without overlap a refresh token obtains at  *)
(* most one other.                                                         *)
RefreshedOnce == orderly => \A t \in Tokens : yields[t] # "again"

(* What is promised of requests that do not overlap. *)
OrderlySessions == OneSessionPerDevice /\ RefreshedOnce

(* A session that is gone never comes back under the same token, and no    *)
(* session changes its device: a stale request can create sessions, but    *)
(* only under the token it drew itself.                                    *)
SessionsNeverReturn ==
    [][\A t \in Tokens : /\ session[t] # Nil => session'[t] \in {session[t], Nil}
                         /\ session[t] = Nil /\ session'[t] # Nil =>
                               \E h \in Handlers : req[h].new = t /\ req'[h] = Idle]_vars

=============================================================================
