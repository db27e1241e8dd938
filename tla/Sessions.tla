----------------------------- MODULE Sessions -----------------------------
(***************************************************************************)
(* Refresh sessions: services/auth/session.service.ts between the session  *)
(* documents in the database and one browser whose tabs share the refresh  *)
(* cookie and may log in again. A handler awaits the database between its  *)
(* steps, so those of several requests interleave; responses arrive in any *)
(* order. Nobody copies the cookie: every token that is presented comes    *)
(* from the browser's own cookie jar.                                      *)
(***************************************************************************)
EXTENDS Integers

CONSTANTS
  Tabs,
  Grace,      \* ROTATION_GRACE_MS
  Idle,       \* REFRESHTOKEN, the idle timeout
  Absolute,   \* SESSION_ABSOLUTE, from the login
  Failures,   \* what may go wrong, a subset of {"lost", "dbFails"}
  MaxTime,    \* bound: clock
  MaxJti,     \* bound: token ids
  MaxLogins   \* bound: logins

(***************************************************************************)
(* "lost": a response does not reach the browser.                          *)
(* "dbFails": a database call throws, whether or not it was applied.       *)
(***************************************************************************)
ASSUME FailuresAssumption == Failures \subseteq {"lost", "dbFails"}
ASSUME TimesAssumption ==
  /\ Grace \in Nat /\ Idle \in Nat \ {0} /\ Absolute \in Nat \ {0}
  /\ MaxTime \in Nat /\ MaxJti \in Nat \ {0} /\ MaxLogins \in Nat \ {0}

VARIABLES
  now,
  sessions,  \* sessions[sid]: the Session document
  minted,    \* the last token id handed to the database
  cookie,    \* the token in the cookie jar
  tab,       \* tab[t]: the request of tab t and where its handler is
  wins       \* wins[j]: how many rotations token j has won

vars == <<now, sessions, minted, cookie, tab, wins>>

\* Token ids count from 1; 0 is no token.
Jti == 0..MaxJti
Sids == 1..MaxLogins
Token == [sid : {0} \union Sids, jti : Jti, exp : 0..(MaxTime + Idle)]
NoToken == [sid |-> 0, jti |-> 0, exp |-> 0]

\* `live` until the document is deleted; a session that is yet to come has no
\* current token.
Session ==
  [live : BOOLEAN, current : Jti, previous : Jti, rotatedAt : 0..MaxTime,
   expiresAt : 0..(MaxTime + Absolute)]

NoSession == [live |-> FALSE, current |-> 0, previous |-> 0, rotatedAt |-> 0,
              expiresAt |-> 0]

(***************************************************************************)
(* A handler's steps: the request is "sent"; "create", "rotate", "lookup", *)
(* "revoke", "user" and "logout" each await one database call; "reply" is  *)
(* on its way back. `set` is the Set-Cookie header of the response so far. *)
(* `at` is the handler's `now`; `stale` and `late` record what its token   *)
(* and the session were when it started.                                   *)
(***************************************************************************)
IdleTab ==
  [stage |-> "idle", op |-> "refresh", token |-> NoToken, at |-> 0,
   stale |-> FALSE, late |-> FALSE, granted |-> FALSE, set |-> "keep",
   sets |-> NoToken]

Tab ==
  [stage : {"idle", "sent", "create", "rotate", "lookup", "revoke", "user",
            "logout", "reply"},
   op : {"login", "refresh", "logout"}, token : Token, at : 0..MaxTime,
   stale : BOOLEAN, late : BOOLEAN, granted : BOOLEAN,
   set : {"keep", "clear", "token"}, sets : Token]

TypeOK ==
  /\ now \in 0..MaxTime
  /\ sessions \in [Sids -> Session]
  /\ minted \in Jti
  /\ cookie \in Token
  /\ tab \in [Tabs -> Tab]
  /\ wins \in [Jti -> Nat]

\* Mutant of NewToken: every refresh restarts the whole idle window.
NewTokenSliding(sid, j, expiresAt) ==
  [sid |-> sid, jti |-> j, exp |-> now + Idle]

\* Mutant of NewToken: every token gets the session's whole term.
NewTokenFullTerm(sid, j, expiresAt) ==
  [sid |-> sid, jti |-> j, exp |-> now + Absolute]

\* The lifetime of a refresh token, cut short by the absolute cap.
NewToken(sid, j, expiresAt) ==
  [sid |-> sid, jti |-> j,
   exp |-> IF now + Idle <= expiresAt THEN now + Idle ELSE expiresAt]

Created(j) ==
  [live |-> TRUE, current |-> j, previous |-> 0, rotatedAt |-> 0,
   expiresAt |-> now + Absolute]

\* The first login is over.
Init ==
  /\ now = 0
  /\ sessions = [sid \in Sids |-> IF sid = 1 THEN Created(1) ELSE NoSession]
  /\ minted = 1
  /\ cookie = NewToken(1, 1, Absolute)
  /\ tab = [t \in Tabs |-> IdleTab]
  /\ wins = [j \in Jti |-> 0]

\* The session that the request of tab t is about.
Own(t) == sessions[tab[t].token.sid]

----------------------------------------------------------------------------
\* Bound: the sessions left suffice for one login, and it is the only one.
MayLogIn ==
  /\ \E sid \in Sids : sessions[sid] = NoSession
  /\ \A t \in Tabs : tab[t].stage # "idle" => tab[t].op # "login"

\* The browser attaches the cookie, unless its max-age has passed.
Send(t, op) ==
  /\ tab[t].stage = "idle"
  /\ op = "login" => MayLogIn
  /\ tab' = [tab EXCEPT ![t] = [IdleTab EXCEPT
               !.stage = "sent", !.op = op,
               !.token = IF cookie.exp > now THEN cookie ELSE NoToken]]
  /\ UNCHANGED <<now, sessions, minted, cookie, wins>>

\* clearRefreshTokenCookie, and the response leaves without an access token.
Clear(t) == tab' = [tab EXCEPT ![t].stage = "reply", ![t].set = "clear",
                               ![t].sets = NoToken]

\* setRefreshTokenCookie, and on to the next stage.
SetCookie(t, token, stage) ==
  tab' = [tab EXCEPT ![t].stage = stage, ![t].set = "token", ![t].sets = token]

Await(t, stage) == tab' = [tab EXCEPT ![t].stage = stage]

\* rotateSession up to its first database call: a missing or expired token
\* is an AuthError or a JsonWebTokenError, and both clear the cookie.
RefreshStarts(t) ==
  /\ tab[t].stage = "sent" /\ tab[t].op = "refresh"
  /\ IF tab[t].token.exp > now
       THEN tab' = [tab EXCEPT
              ![t].stage = "rotate", ![t].at = now,
              ![t].stale = tab[t].token.jti \notin
                             {Own(t).current, Own(t).previous},
              ![t].late = ~Own(t).live]
       ELSE Clear(t)
  /\ UNCHANGED <<now, sessions, minted, cookie, wins>>

\* Mutant of MayRotate: currentJti is not matched.
MayRotateAnyToken(t) == Own(t).live /\ Own(t).expiresAt > tab[t].at

\* Mutant of MayRotate: an upsert brings a deleted session back.
MayRotateUpsert(t) ==
  Own(t).current = tab[t].token.jti /\ Own(t).expiresAt > tab[t].at

\* The filter of the rotating findOneAndUpdate.
MayRotate(t) ==
  /\ Own(t).live
  /\ Own(t).current = tab[t].token.jti
  /\ Own(t).expiresAt > tab[t].at

\* Its update.
Rotated(t) ==
  /\ minted < MaxJti
  /\ minted' = minted + 1
  /\ sessions' = [sessions EXCEPT ![tab[t].token.sid] =
                    [@ EXCEPT !.current = minted + 1,
                              !.previous = tab[t].token.jti,
                              !.rotatedAt = tab[t].at]]
  /\ wins' = [wins EXCEPT ![tab[t].token.jti] = @ + 1]

RotateWins(t) ==
  /\ tab[t].stage = "rotate"
  /\ MayRotate(t)
  /\ Rotated(t)
  /\ SetCookie(t, NewToken(tab[t].token.sid, minted + 1, Own(t).expiresAt),
               "user")
  /\ UNCHANGED <<now, cookie>>

RotateMisses(t) ==
  /\ tab[t].stage = "rotate"
  /\ ~MayRotate(t)
  /\ Await(t, "lookup")
  /\ UNCHANGED <<now, sessions, minted, cookie, wins>>

\* lostConcurrentRace.
InsideGrace(t) ==
  /\ Own(t).previous = tab[t].token.jti
  /\ tab[t].at - Own(t).rotatedAt < Grace

\* findById: no live session, the grace window, or reuse.
Lookup(t) ==
  /\ tab[t].stage = "lookup"
  /\ LET sid == tab[t].token.sid
         found == Own(t).live /\ Own(t).expiresAt > tab[t].at
         current == NewToken(sid, Own(t).current, Own(t).expiresAt)
     IN  CASE ~found                  -> Clear(t)
           [] found /\ InsideGrace(t) -> SetCookie(t, current, "user")
           [] OTHER                   -> Await(t, "revoke")
  /\ UNCHANGED <<now, sessions, minted, cookie, wins>>

Revoked(sid) == sessions' = [sessions EXCEPT ![sid].live = FALSE]

\* Mutant of Revoke: the deletion also matches on currentJti.
RevokeMatching(t) ==
  /\ tab[t].stage = "revoke"
  /\ IF Own(t).current = tab[t].token.jti THEN Revoked(tab[t].token.sid)
                                           ELSE UNCHANGED sessions
  /\ Clear(t)
  /\ UNCHANGED <<now, minted, cookie, wins>>

\* deleteOne after reuse, and RevokedSessionError.
Revoke(t) ==
  /\ tab[t].stage = "revoke"
  /\ Revoked(tab[t].token.sid)
  /\ Clear(t)
  /\ UNCHANGED <<now, minted, cookie, wins>>

\* User.findById after rotateSession, and the access token is sent.
UserFound(t) ==
  /\ tab[t].stage = "user"
  /\ tab' = [tab EXCEPT ![t].stage = "reply", ![t].granted = TRUE]
  /\ UNCHANGED <<now, sessions, minted, cookie, wins>>

\* revokeSession: an expired token still names its session.
LogoutStarts(t) ==
  /\ tab[t].stage = "sent" /\ tab[t].op = "logout"
  /\ IF tab[t].token = NoToken THEN Clear(t) ELSE Await(t, "logout")
  /\ UNCHANGED <<now, sessions, minted, cookie, wins>>

Logout(t) ==
  /\ tab[t].stage = "logout"
  /\ Revoked(tab[t].token.sid)
  /\ Clear(t)
  /\ UNCHANGED <<now, minted, cookie, wins>>

\* login: wrong credentials, or on to createSession.
LoginStarts(t) ==
  /\ tab[t].stage = "sent" /\ tab[t].op = "login"
  /\ \E stage \in {"reply", "create"} : Await(t, stage)
  /\ UNCHANGED <<now, sessions, minted, cookie, wins>>

NextSid == CHOOSE sid \in Sids : sessions[sid] = NoSession

\* Session.create; sessions there are stay as they are.
Create ==
  /\ minted < MaxJti
  /\ minted' = minted + 1
  /\ \E sid \in Sids : sessions[sid] = NoSession
  /\ sessions' = [sessions EXCEPT ![NextSid] = Created(minted + 1)]
  /\ UNCHANGED wins

LoginCreates(t) ==
  /\ tab[t].stage = "create"
  /\ Create
  /\ SetCookie(t, NewToken(NextSid, minted + 1, now + Absolute), "reply")
  /\ UNCHANGED <<now, cookie>>

DatabaseStages == {"create", "rotate", "lookup", "revoke", "user", "logout"}

\* The call of t has been applied although it throws.
AppliedAnyway(t) ==
  \/ tab[t].stage = "create" /\ Create
  \/ tab[t].stage = "rotate" /\ MayRotate(t) /\ Rotated(t)
  \/ /\ tab[t].stage \in {"revoke", "logout"}
     /\ Revoked(tab[t].token.sid)
     /\ UNCHANGED <<minted, wins>>

\* Mutant of DatabaseFails: a refresh drops the cookie on any error.
DatabaseFailsClear(t) ==
  /\ "dbFails" \in Failures
  /\ tab[t].stage \in DatabaseStages
  /\ Clear(t)
  /\ UNCHANGED <<sessions, minted, wins>> \/ AppliedAnyway(t)
  /\ UNCHANGED <<now, cookie>>

\* A database call throws. Logout clears the cookie; a refresh leaves it as
\* the response has it so far, which after a rotation is the new token.
DatabaseFails(t) ==
  /\ "dbFails" \in Failures
  /\ tab[t].stage \in DatabaseStages
  /\ IF tab[t].op = "logout" THEN Clear(t) ELSE Await(t, "reply")
  /\ UNCHANGED <<sessions, minted, wins>> \/ AppliedAnyway(t)
  /\ UNCHANGED <<now, cookie>>

\* The response arrives and the browser applies its Set-Cookie.
Receive(t) ==
  /\ tab[t].stage = "reply"
  /\ cookie' = CASE tab[t].set = "keep" -> cookie
                 [] tab[t].set = "clear" -> NoToken
                 [] tab[t].set = "token" -> tab[t].sets
  /\ tab' = [tab EXCEPT ![t] = IdleTab]
  /\ UNCHANGED <<now, sessions, minted, wins>>

ResponseLost(t) ==
  /\ "lost" \in Failures
  /\ tab[t].stage = "reply"
  /\ tab' = [tab EXCEPT ![t] = IdleTab]
  /\ UNCHANGED <<now, sessions, minted, cookie, wins>>

Tick ==
  /\ now < MaxTime
  /\ now' = now + 1
  /\ UNCHANGED <<sessions, minted, cookie, tab, wins>>

\* MongoDB's TTL index deletes the document some time after expiresAt.
TtlDeletes ==
  /\ \E sid \in Sids : /\ sessions[sid].live
                       /\ now >= sessions[sid].expiresAt
                       /\ Revoked(sid)
  /\ UNCHANGED <<now, minted, cookie, tab, wins>>

Step(t) ==
  \/ RefreshStarts(t) \/ RotateWins(t) \/ RotateMisses(t) \/ Lookup(t)
  \/ Revoke(t) \/ UserFound(t) \/ LogoutStarts(t) \/ Logout(t)
  \/ LoginStarts(t) \/ LoginCreates(t)
  \/ DatabaseFails(t)

Next ==
  \/ \E t \in Tabs, op \in {"login", "refresh", "logout"} : Send(t, op)
  \/ \E t \in Tabs : Step(t) \/ Receive(t) \/ ResponseLost(t)
  \/ Tick
  \/ TtlDeletes

Spec == Init /\ [][Next]_vars

----------------------------------------------------------------------------
(***************************************************************************)
(* "Matching on currentJti makes this the atomic `only one rotation wins`" *)
(* (session.service.ts:92): no token is exchanged for two successors.      *)
(***************************************************************************)
OneRotationWins == \A j \in Jti : wins[j] <= 1

(***************************************************************************)
(* A revoked session stays revoked: a request that starts after the        *)
(* document is gone (logout, reuse, expiry) is not given an access token,  *)
(* however its steps interleave with the others'.                          *)
(***************************************************************************)
NothingGrantedAfterEnd == \A t \in Tabs : tab[t].late => ~tab[t].granted

(***************************************************************************)
(* "Presenting any older jti means ... the whole session is deleted"       *)
(* (session.service.ts:31-33): when a request that came with neither the   *)
(* current nor the previous token is answered, and no database call of it  *)
(* failed, the session is gone, whatever else rotated it meanwhile.        *)
(***************************************************************************)
OldTokenEndsSession ==
  \A t \in Tabs :
    tab[t].stage = "reply" /\ tab[t].stale /\ tab[t].set # "keep"
      => ~Own(t).live \/ Own(t).expiresAt <= tab[t].at

(***************************************************************************)
(* "SESSION_ABSOLUTE caps that from login" (session.service.ts:38-39): no  *)
(* cookie, delivered or on its way, outlives the session document, and no  *)
(* access token is granted to a request that started after the cap.        *)
(***************************************************************************)
CapOf(token) == IF token = NoToken THEN 0 ELSE sessions[token.sid].expiresAt

AbsoluteCap ==
  /\ cookie.exp <= CapOf(cookie)
  /\ \A t \in Tabs :
       /\ tab[t].sets.exp <= CapOf(tab[t].sets)
       /\ tab[t].granted => tab[t].at < Own(t).expiresAt

(***************************************************************************)
(* "Only a dead session drops the cookie - a DB hiccup shouldn't log the   *)
(* admin out" (refresh.controller.ts:37): a valid cookie of a live session *)
(* is cleared by a logout only - or by a late answer, to a request that    *)
(* carried another token than the one that is in the jar by now (after a   *)
(* rotation in another tab, or a new login).                               *)
(***************************************************************************)
CookieKept ==
  [][cookie' = NoToken /\ cookie.exp > now =>
       \E t \in Tabs :
         /\ tab[t].stage = "reply" /\ tab'[t].stage = "idle"
         /\ \/ tab[t].op = "logout"
            \/ ~sessions[cookie.sid].live
            \/ tab[t].token # cookie]_vars

(***************************************************************************)
(* "Presenting any older jti means the token was copied and replayed"      *)
(* (session.service.ts:31-32) and "Past the window, an old jti can only be *)
(* a copied token" (44): reuse is never detected here, where nobody copies *)
(* tokens.                                                                 *)
(***************************************************************************)
HonestBrowserKept == \A t \in Tabs : tab[t].stage # "revoke"
===========================================================================
