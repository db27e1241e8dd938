--------------------------- MODULE SessionsProofs ---------------------------
(***************************************************************************)
(* Proofs about Sessions for any number of tabs, logins and tokens, any    *)
(* values of the three time limits, any interleaving, lost responses and   *)
(* failing database calls.                                                 *)
(***************************************************************************)
EXTENDS Sessions, TLAPS

----------------------------------------------------------------------------
(* Types. *)

LEMMA NewTokenType ==
  ASSUME TypeOK, NEW sid \in Sids, NEW j \in Jti,
         NEW e \in 0..(MaxTime + Absolute)
  PROVE  NewToken(sid, j, e) \in Token
BY TimesAssumption DEF TypeOK, NewToken, Token, Sids, Jti

LEMMA TokenTypes == NoToken \in Token /\ IdleTab \in Tab /\ NoSession \in Session
BY TimesAssumption DEF NoToken, Token, Jti, Sids, IdleTab, Tab, NoSession,
                       Session

LEMMA CreatedType ==
  ASSUME TypeOK, NEW j \in Jti
  PROVE  Created(j) \in Session
BY TimesAssumption DEF TypeOK, Created, Session, Jti

\* The next session is one that is yet to come.
LEMMA NextSidUnused ==
  ASSUME \E sid \in Sids : sessions[sid] = NoSession
  PROVE  NextSid \in Sids /\ sessions[NextSid] = NoSession
BY DEF NextSid

LEMMA InitTypes == Init => TypeOK
<1> SUFFICES ASSUME Init PROVE TypeOK
  OBVIOUS
<1> USE TimesAssumption DEF Init
<1>1. 1 \in Sids /\ 1 \in Jti /\ 0 \in Jti
  BY DEF Sids, Jti
<1>2. Created(1) \in Session
  BY <1>1 DEF Created, Session
<1>3. cookie \in Token
  BY <1>1 DEF NewToken, Token
<1>4. sessions \in [Sids -> Session]
  BY <1>2, TokenTypes
<1>5. tab \in [Tabs -> Tab]
  BY TokenTypes
<1> QED
  BY <1>1, <1>3, <1>4, <1>5 DEF TypeOK

----------------------------------------------------------------------------
(* The invariant. *)

Known(sid) == sessions[sid].current # 0

\* Token ids are given once: a session's current token has not been exchanged
\* yet, and no other session has it.
JtiInv ==
  /\ \A sid \in Sids : /\ sessions[sid].current <= minted
                       /\ sessions[sid].live => Known(sid)
  /\ \A s, r \in Sids :
       s # r /\ sessions[s].current = sessions[r].current => ~Known(s)
  /\ \A j \in Jti : j > minted => wins[j] = 0
  /\ \A sid \in Sids : Known(sid) => wins[sessions[sid].current] = 0
  /\ OneRotationWins

\* A token belongs to a session there is or was, and ends with it.
TokenSound(token) ==
  \/ token = NoToken
  \/ /\ token.sid \in Sids
     /\ Known(token.sid)
     /\ token.jti \in 1..minted
     /\ token.exp <= sessions[token.sid].expiresAt

TokenInv ==
  /\ TokenSound(cookie)
  /\ \A t \in Tabs : TokenSound(tab[t].token) /\ TokenSound(tab[t].sets)

\* What op and stage say about each other and about the response.
StageSound(t) ==
  /\ tab[t].at <= now
  /\ tab[t].stage \in {"rotate", "lookup", "revoke", "user"}
       => tab[t].op = "refresh" /\ tab[t].token # NoToken
  /\ tab[t].stage = "logout" => tab[t].op = "logout" /\ tab[t].token # NoToken
  /\ tab[t].stage = "create" => tab[t].op = "login"
  /\ tab[t].stage \notin {"user", "reply"} => tab[t].set = "keep"
  /\ tab[t].set = "token" => tab[t].sets # NoToken

\* Access tokens are on their way inside the session's term only.
GrantSound(t) ==
  /\ tab[t].granted => tab[t].stage = "reply"
  /\ tab[t].stage = "user" \/ tab[t].granted
       => tab[t].token # NoToken /\ tab[t].at < Own(t).expiresAt

\* A request that came too late does not get past the look-up.
LateSound(t) ==
  tab[t].late =>
    /\ tab[t].token # NoToken
    /\ ~Own(t).live
    /\ tab[t].stage \in {"rotate", "lookup", "reply"}
    /\ ~tab[t].granted

\* The session has ended, for a request that read the clock at `at`.
Ended(t) == ~Own(t).live \/ Own(t).expiresAt <= tab[t].at

\* A stale token stays stale, and its request ends the session or fails.
StaleSound(t) ==
  tab[t].stale =>
    /\ tab[t].token # NoToken
    /\ tab[t].op = "refresh"
    /\ tab[t].token.jti \notin {Own(t).current, Own(t).previous}
    /\ tab[t].stage \in {"rotate", "lookup", "revoke", "reply"}
    /\ tab[t].set # "keep" => Ended(t)

\* A response clears the cookie after a logout, or when the token that came
\* with the request is worth nothing any more.
ClearSound(t) ==
  tab[t].set = "clear" =>
    \/ tab[t].op = "logout"
    \/ tab[t].token.exp <= now
    \/ tab[t].token # NoToken /\ Ended(t)

TabSound(t) ==
  /\ StageSound(t) /\ GrantSound(t) /\ LateSound(t) /\ StaleSound(t)
  /\ ClearSound(t)

TabInv == \A t \in Tabs : TabSound(t)

IInv == TypeOK /\ JtiInv /\ TokenInv /\ TabInv

----------------------------------------------------------------------------
(* The session documents. *)

\* What a rotation leaves alone.
LEMMA RotatedTypes ==
  ASSUME TypeOK, NEW t \in Tabs, tab[t].token.sid \in Sids, Rotated(t)
  PROVE  /\ minted + 1 \in Jti
         /\ minted' \in Jti
         /\ sessions' \in [Sids -> Session]
         /\ wins' \in [Jti -> Nat]
<1>1. minted + 1 \in Jti /\ minted' = minted + 1
  BY TimesAssumption DEF Rotated, TypeOK, Jti
<1>2. tab[t].token.jti \in Jti /\ tab[t].at \in 0..MaxTime
  BY DEF TypeOK, Tab, Token
<1>3. sessions' \in [Sids -> Session]
  BY <1>1, <1>2 DEF Rotated, TypeOK, Session
<1>4. wins' \in [Jti -> Nat]
  BY <1>2 DEF Rotated, TypeOK
<1> QED
  BY <1>1, <1>3, <1>4

LEMMA CreateTypes ==
  ASSUME TypeOK, Create
  PROVE  /\ minted + 1 \in Jti
         /\ minted' \in Jti
         /\ sessions' \in [Sids -> Session]
         /\ wins' \in [Jti -> Nat]
<1>1. minted + 1 \in Jti /\ minted' = minted + 1
  BY TimesAssumption DEF Create, TypeOK, Jti
<1>2. Created(minted + 1) \in Session
  BY <1>1, CreatedType
<1> QED
  BY <1>1, <1>2 DEF Create, TypeOK

LEMMA RevokedTypes ==
  ASSUME TypeOK, NEW sid \in Sids, Revoked(sid)
  PROVE  sessions' \in [Sids -> Session]
BY DEF TypeOK, Revoked, Session

\* Every step writes the sessions in one of four ways.
Unwritten == UNCHANGED <<sessions, minted, wins>>
Written ==
  \/ Unwritten
  \/ \E t \in Tabs : tab[t].stage = "rotate" /\ MayRotate(t) /\ Rotated(t)
  \/ Create
  \/ \E sid \in Sids : /\ Known(sid)
                       /\ Revoked(sid)
                       /\ UNCHANGED <<minted, wins>>

LEMMA StepWrites == IInv /\ [Next]_vars => Written
<1> SUFFICES ASSUME IInv, [Next]_vars PROVE Written
  OBVIOUS
<1> USE DEF Written, Unwritten
<1>0. \A t \in Tabs : tab[t].stage \in {"revoke", "logout"}
        => tab[t].token.sid \in Sids /\ Known(tab[t].token.sid)
  BY DEF IInv, TabInv, TabSound, StageSound, TokenInv, TokenSound
<1>1. ASSUME NEW t \in Tabs, NEW op \in {"login", "refresh", "logout"},
             Send(t, op)
      PROVE  Written
  BY <1>1 DEF Send
<1>2. ASSUME NEW t \in Tabs, AppliedAnyway(t) PROVE Written
  BY <1>0, <1>2 DEF AppliedAnyway
<1>3. ASSUME NEW t \in Tabs, Step(t) PROVE Written
  <2>1. CASE RefreshStarts(t)
    BY <2>1 DEF RefreshStarts
  <2>2. CASE RotateWins(t)
    BY <2>2 DEF RotateWins
  <2>3. CASE RotateMisses(t)
    BY <2>3 DEF RotateMisses
  <2>4. CASE Lookup(t)
    BY <2>4 DEF Lookup
  <2>5. CASE Revoke(t)
    BY <1>0, <2>5 DEF Revoke
  <2>6. CASE UserFound(t)
    BY <2>6 DEF UserFound
  <2>7. CASE LogoutStarts(t)
    BY <2>7 DEF LogoutStarts
  <2>8. CASE Logout(t)
    BY <1>0, <2>8 DEF Logout
  <2>9. CASE LoginStarts(t)
    BY <2>9 DEF LoginStarts
  <2>10. CASE LoginCreates(t)
    BY <2>10 DEF LoginCreates
  <2>11. CASE DatabaseFails(t)
    BY <1>2, <2>11 DEF DatabaseFails
  <2> QED
    BY <1>3, <2>1, <2>2, <2>3, <2>4, <2>5, <2>6, <2>7, <2>8, <2>9, <2>10,
       <2>11 DEF Step
<1>4. ASSUME NEW t \in Tabs, Receive(t) \/ ResponseLost(t) PROVE Written
  BY <1>4 DEF Receive, ResponseLost
<1>5. CASE Tick
  BY <1>5 DEF Tick
<1>6. CASE TtlDeletes
  BY <1>6 DEF TtlDeletes, IInv, JtiInv
<1>7. CASE UNCHANGED vars
  BY <1>7 DEF vars
<1> QED
  BY <1>1, <1>3, <1>4, <1>5, <1>6, <1>7 DEF Next

\* Token ids stay unique.
LEMMA NextJtiInv == IInv /\ [Next]_vars => JtiInv'
<1> SUFFICES ASSUME IInv, Written PROVE JtiInv'
  BY StepWrites
<1> USE DEF JtiInv, OneRotationWins, Known
<1>0. TypeOK /\ JtiInv
  BY DEF IInv
<1>1. CASE Unwritten
  BY <1>0, <1>1 DEF Unwritten
<1>2. ASSUME NEW t \in Tabs, tab[t].stage = "rotate", MayRotate(t),
             Rotated(t)
      PROVE  JtiInv'
  <2> DEFINE s == tab[t].token.sid
             j == tab[t].token.jti
  <2>1. s \in Sids /\ j \in 1..minted
    <3>1. tab[t].token # NoToken /\ TokenSound(tab[t].token)
      BY <1>2 DEF IInv, TabInv, TabSound, StageSound, TokenInv
    <3> QED
      BY <3>1 DEF TokenSound
  <2>2. minted \in Nat /\ j \in Jti /\ minted + 1 \in Jti
    <3>1. minted \in 0..MaxJti /\ minted < MaxJti
      BY <1>0, <1>2 DEF Rotated, TypeOK, Jti
    <3> QED
      BY <2>1, <3>1, TimesAssumption DEF Jti
  <2>3. sessions[s].current = j /\ wins[j] = 0
    BY <1>0, <1>2, <2>1 DEF MayRotate, Own
  <2>4. minted' = minted + 1 /\ sessions'[s].current = minted + 1
    <3>1. sessions[s] \in Session /\ s \in DOMAIN sessions
      BY <1>0, <2>1 DEF TypeOK
    <3>2. sessions'[s] = [sessions[s] EXCEPT !.current = minted + 1,
                            !.previous = tab[t].token.jti,
                            !.rotatedAt = tab[t].at]
      BY <1>2, <3>1 DEF Rotated
    <3> QED
      BY <1>2, <3>1, <3>2 DEF Rotated, Session
  <2>5. /\ \A r \in Sids : r # s => sessions'[r] = sessions[r]
        /\ \A i \in Jti : wins'[i] = IF i = j THEN 1 ELSE wins[i]
    BY <1>0, <1>2, <2>2, <2>3 DEF Rotated, TypeOK
  <2>6. \A r \in Sids : sessions[r].current \in Jti
    BY <1>0 DEF TypeOK, Session
  <2> QED
    BY <1>0, <2>1, <2>2, <2>3, <2>4, <2>5, <2>6 DEF Jti
<1>3. CASE Create
  <2> DEFINE s == NextSid
  <2>1. s \in Sids /\ sessions[s] = NoSession
    BY <1>3, NextSidUnused DEF Create
  <2>2. /\ minted' = minted + 1 /\ minted \in Nat /\ wins' = wins
        /\ minted + 1 \in Jti
        /\ sessions'[s] = Created(minted + 1)
        /\ \A r \in Sids : r # s => sessions'[r] = sessions[r]
    BY <1>0, <1>3, <2>1, CreateTypes DEF Create, TypeOK, Jti
  <2>3. sessions'[s].current = minted + 1
    BY <2>2 DEF Created
  <2>4. \A r \in Sids : sessions[r].current \in Jti
    BY <1>0 DEF TypeOK, Session
  <2> QED
    BY <1>0, <2>1, <2>2, <2>3, <2>4 DEF Jti
<1>4. ASSUME NEW sid \in Sids, Known(sid), Revoked(sid),
             UNCHANGED <<minted, wins>>
      PROVE  JtiInv'
  <2>1. \A r \in Sids : sessions'[r].current = sessions[r].current
                        /\ (sessions'[r].live => sessions[r].live)
    BY <1>0, <1>4 DEF Revoked, TypeOK, Session
  <2> QED
    BY <1>0, <1>4, <2>1
<1> QED
  BY <1>1, <1>2, <1>3, <1>4 DEF Written

\* A session that is there keeps its term and stays dead once it is; its
\* current token only changes for a new one.
Evolves ==
  /\ minted \in Nat /\ minted' \in Nat /\ minted <= minted'
  /\ \A sid \in Sids : Known(sid) =>
       /\ sessions'[sid].current # 0
       /\ sessions'[sid].expiresAt = sessions[sid].expiresAt
       /\ sessions'[sid].live => sessions[sid].live
       /\ \/ /\ sessions'[sid].current = sessions[sid].current
             /\ sessions'[sid].previous = sessions[sid].previous
          \/ /\ sessions'[sid].current = minted + 1
             /\ sessions'[sid].previous = sessions[sid].current

LEMMA SessionsEvolve == IInv /\ [Next]_vars => Evolves
<1> SUFFICES ASSUME IInv, Written PROVE Evolves
  BY StepWrites
<1> USE DEF Evolves, Known
<1>0. TypeOK /\ minted \in Nat
  BY DEF IInv, TypeOK, Jti
<1>1. CASE Unwritten
  BY <1>0, <1>1 DEF Unwritten
<1>2. ASSUME NEW t \in Tabs, tab[t].stage = "rotate", MayRotate(t),
             Rotated(t)
      PROVE  Evolves
  BY <1>0, <1>2 DEF Rotated, MayRotate, Own, TypeOK, Session
<1>3. CASE Create
  <2>1. NextSid \in Sids /\ sessions[NextSid].current = 0
    BY <1>3, NextSidUnused DEF Create, NoSession
  <2> QED
    BY <1>0, <1>3, <2>1 DEF Create, TypeOK
<1>4. ASSUME NEW sid \in Sids, Known(sid), Revoked(sid),
             UNCHANGED <<minted, wins>>
      PROVE  Evolves
  BY <1>0, <1>4 DEF Revoked, TypeOK, Session
<1> QED
  BY <1>1, <1>2, <1>3, <1>4 DEF Written

----------------------------------------------------------------------------
(* The browser and its requests. *)

\* The types of what is in the database.
LEMMA NextSessionTypes ==
  IInv /\ [Next]_vars =>
    sessions' \in [Sids -> Session] /\ minted' \in Jti /\ wins' \in [Jti -> Nat]
<1> SUFFICES ASSUME IInv, Written
             PROVE  /\ sessions' \in [Sids -> Session]
                    /\ minted' \in Jti /\ wins' \in [Jti -> Nat]
  BY StepWrites
<1>0. TypeOK
  BY DEF IInv
<1>1. CASE Unwritten
  BY <1>0, <1>1 DEF Unwritten, TypeOK
<1>2. ASSUME NEW t \in Tabs, tab[t].stage = "rotate", MayRotate(t),
             Rotated(t)
      PROVE  /\ sessions' \in [Sids -> Session]
             /\ minted' \in Jti /\ wins' \in [Jti -> Nat]
  <2>1. tab[t].token # NoToken /\ TokenSound(tab[t].token)
    BY <1>2 DEF IInv, TabInv, TabSound, StageSound, TokenInv
  <2>2. tab[t].token.sid \in Sids
    BY <2>1 DEF TokenSound
  <2> QED
    BY <1>0, <1>2, <2>2, RotatedTypes
<1>3. CASE Create
  BY <1>0, <1>3, CreateTypes
<1>4. ASSUME NEW sid \in Sids, Known(sid), Revoked(sid),
             UNCHANGED <<minted, wins>>
      PROVE  /\ sessions' \in [Sids -> Session]
             /\ minted' \in Jti /\ wins' \in [Jti -> Nat]
  BY <1>0, <1>4, RevokedTypes DEF TypeOK
<1> QED
  BY <1>1, <1>2, <1>3, <1>4 DEF Written

\* A token that is sound stays so, and a new one is.
LEMMA SoundTokenStays ==
  ASSUME Evolves, NEW token \in Token, TokenSound(token)
  PROVE  TokenSound(token)'
BY DEF Evolves, TokenSound, Known

LEMMA NewTokenEnds ==
  ASSUME TypeOK, NEW sid \in Sids, NEW j \in Jti,
         NEW e \in 0..(MaxTime + Absolute)
  PROVE  /\ NewToken(sid, j, e).sid = sid
         /\ NewToken(sid, j, e).jti = j
         /\ NewToken(sid, j, e).exp <= e
BY TimesAssumption DEF NewToken, TypeOK

\* So does a tab that nothing happens to.
LEMMA TabStays ==
  ASSUME IInv, Evolves, now \in Nat, now' \in Nat, now <= now',
         NEW t \in Tabs, tab'[t] = tab[t]
  PROVE  /\ TokenSound(tab[t].token)' /\ TokenSound(tab[t].sets)'
         /\ TabSound(t)'
<1> DEFINE token == tab[t].token
           sid == token.sid
<1>0. /\ TokenSound(token) /\ TokenSound(tab[t].sets) /\ TabSound(t)
      /\ tab[t] \in Tab
  BY DEF IInv, TokenInv, TabInv, TypeOK
<1>1. TokenSound(tab[t].token)' /\ TokenSound(tab[t].sets)'
  BY <1>0 DEF Evolves, TokenSound, Known
<1>2. token # NoToken =>
        /\ sid \in Sids
        /\ token.jti \in 1..minted
        /\ sessions'[sid].expiresAt = sessions[sid].expiresAt
        /\ sessions'[sid].live => sessions[sid].live
        /\ \/ /\ sessions'[sid].current = sessions[sid].current
              /\ sessions'[sid].previous = sessions[sid].previous
           \/ /\ sessions'[sid].current = minted + 1
              /\ sessions'[sid].previous = sessions[sid].current
  BY <1>0 DEF Evolves, TokenSound, Known
<1>3. tab[t].at \in Nat /\ minted \in Nat /\ token.exp \in Nat
  BY <1>0 DEF Tab, Token, Evolves
<1>4. StageSound(t)'
  BY <1>0, <1>3 DEF TabSound, StageSound
<1>5. GrantSound(t)'
  BY <1>0, <1>2 DEF TabSound, GrantSound, Own
<1>6. LateSound(t)'
  BY <1>0, <1>2 DEF TabSound, LateSound, Own
<1>7. StaleSound(t)'
  BY <1>0, <1>2, <1>3 DEF TabSound, StaleSound, Ended, Own
<1>8. ClearSound(t)'
  BY <1>0, <1>2, <1>3 DEF TabSound, ClearSound, Ended, Own
<1> QED
  BY <1>1, <1>4, <1>5, <1>6, <1>7, <1>8 DEF TabSound

\* What each step of tab t has to show.
StepSound(t) ==
  /\ tab' \in [Tabs -> Tab]
  /\ \A u \in Tabs \ {t} : tab'[u] = tab[u]
  /\ TokenSound(tab[t].token)' /\ TokenSound(tab[t].sets)'
  /\ TabSound(t)'

\* What a handler knows of its request.
LEMMA HandlerKnows ==
  ASSUME IInv, NEW t \in Tabs
  PROVE  /\ tab \in [Tabs -> Tab] /\ tab[t] \in Tab
         /\ tab[t].at \in 0..MaxTime /\ tab[t].token.exp \in Nat
         /\ minted \in Nat /\ now \in 0..MaxTime
         /\ StageSound(t) /\ GrantSound(t) /\ LateSound(t)
         /\ StaleSound(t) /\ ClearSound(t)
         /\ TokenSound(tab[t].token) /\ TokenSound(tab[t].sets)
         /\ tab[t].token \in Token
BY DEF IInv, TabInv, TabSound, TokenInv, TypeOK, Tab, Token, Jti

\* What a session that it names may become.
LEMMA OwnEvolves ==
  ASSUME IInv, Evolves, NEW t \in Tabs, tab[t].token # NoToken
  PROVE  LET sid == tab[t].token.sid IN
         /\ sid \in Sids /\ tab[t].token.jti \in 1..minted
         /\ Own(t) = sessions[sid] /\ Own(t) \in Session
         /\ Known(sid)
         /\ sessions'[sid].expiresAt = sessions[sid].expiresAt
         /\ sessions'[sid].live => sessions[sid].live
         /\ \/ /\ sessions'[sid].current = sessions[sid].current
               /\ sessions'[sid].previous = sessions[sid].previous
            \/ /\ sessions'[sid].current = minted + 1
               /\ sessions'[sid].previous = sessions[sid].current
<1>1. TokenSound(tab[t].token) /\ sessions \in [Sids -> Session]
  BY DEF IInv, TokenInv, TypeOK
<1>2. LET sid == tab[t].token.sid IN
      sid \in Sids /\ Known(sid) /\ tab[t].token.jti \in 1..minted
  BY <1>1 DEF TokenSound
<1> QED
  BY <1>1, <1>2 DEF Evolves, Own

\* The tokens of a tab, if they stay or are replaced by sound ones.
LEMMA TokenKept ==
  ASSUME IInv, Evolves, NEW t \in Tabs, tab'[t].token = tab[t].token
  PROVE  TokenSound(tab[t].token)'
BY HandlerKnows DEF Evolves, TokenSound, Known

LEMMA SetsKept ==
  ASSUME IInv, Evolves, NEW t \in Tabs, tab'[t].sets = tab[t].sets
  PROVE  TokenSound(tab[t].sets)'
BY HandlerKnows DEF Evolves, TokenSound, Known

\* A handler that awaits its next call, and nothing else changes.
LEMMA AwaitSound ==
  ASSUME IInv, Evolves, NEW t \in Tabs, now' = now,
         NEW stage \in {"rotate", "lookup", "revoke", "reply", "logout",
                        "create"},
         Await(t, stage),
         tab[t].stage # "user" \/ stage = "reply",
         stage \in {"rotate", "lookup", "revoke"} =>
           tab[t].op = "refresh" /\ tab[t].token # NoToken,
         stage = "logout" => tab[t].op = "logout" /\ tab[t].token # NoToken,
         stage = "create" => tab[t].op = "login",
         stage # "reply" => tab[t].set = "keep",
         ~tab[t].granted,
         tab[t].late => stage \in {"rotate", "lookup", "reply"},
         tab[t].stale => stage \in {"rotate", "lookup", "revoke", "reply"}
  PROVE  StepSound(t)
<1>0. tab[t] \in Tab /\ tab \in [Tabs -> Tab]
  BY HandlerKnows
<1>1. /\ tab' = [tab EXCEPT ![t].stage = stage]
      /\ tab'[t] = [tab[t] EXCEPT !.stage = stage]
  BY <1>0 DEF Await
<1>2. tab'[t] \in Tab /\ tab' \in [Tabs -> Tab]
  BY <1>0, <1>1 DEF Tab
<1>3. \A u \in Tabs \ {t} : tab'[u] = tab[u]
  BY <1>0, <1>1
<1>4. /\ tab'[t].stage = stage /\ tab'[t].op = tab[t].op
      /\ tab'[t].token = tab[t].token /\ tab'[t].at = tab[t].at
      /\ tab'[t].stale = tab[t].stale /\ tab'[t].late = tab[t].late
      /\ tab'[t].granted = tab[t].granted /\ tab'[t].set = tab[t].set
      /\ tab'[t].sets = tab[t].sets
  BY <1>0, <1>1 DEF Tab
<1>5. TokenSound(tab[t].token)' /\ TokenSound(tab[t].sets)'
  BY <1>4, TokenKept, SetsKept
<1>6. StageSound(t)'
  BY <1>4, HandlerKnows DEF StageSound
<1>7. GrantSound(t)'
  BY <1>4, HandlerKnows DEF GrantSound
<1>8. LateSound(t)'
  BY <1>4, HandlerKnows, OwnEvolves DEF LateSound, Own
<1>9. StaleSound(t)'
  <2> SUFFICES ASSUME tab[t].stale PROVE StaleSound(t)'
    BY <1>4 DEF StaleSound
  <2>1. /\ tab[t].token # NoToken /\ tab[t].op = "refresh"
        /\ tab[t].token.jti \notin {Own(t).current, Own(t).previous}
        /\ tab[t].set # "keep" => Ended(t)
    BY HandlerKnows DEF StaleSound
  <2>2. tab[t].token.jti # minted + 1
    BY <2>1, HandlerKnows, OwnEvolves
  <2> QED
    BY <1>4, <2>1, <2>2, OwnEvolves DEF StaleSound, Ended, Own
<1>10. ClearSound(t)'
  BY <1>4, HandlerKnows, OwnEvolves DEF ClearSound, Ended, Own
<1> QED
  BY <1>2, <1>3, <1>5, <1>6, <1>7, <1>8, <1>9, <1>10 DEF StepSound, TabSound

\* A response that clears the cookie.
LEMMA ClearedSound ==
  ASSUME IInv, Evolves, NEW t \in Tabs, now' = now, Clear(t),
         ~tab[t].granted,
         tab[t].stale => tab[t].token # NoToken /\ Ended(t)',
         \/ tab[t].op = "logout"
         \/ tab[t].token.exp <= now
         \/ tab[t].token # NoToken /\ Ended(t)'
  PROVE  StepSound(t)
<1>0. tab[t] \in Tab /\ tab \in [Tabs -> Tab]
  BY HandlerKnows
<1>1. /\ tab' = [tab EXCEPT ![t] = tab'[t]]
      /\ tab'[t] = [tab[t] EXCEPT !.stage = "reply", !.set = "clear",
                                  !.sets = NoToken]
      /\ \A u \in Tabs \ {t} : tab'[u] = tab[u]
  BY <1>0 DEF Clear
<1>2. tab'[t] \in Tab /\ tab' \in [Tabs -> Tab]
  <2>1. tab'[t] \in Tab
    BY <1>0, <1>1, TokenTypes DEF Tab
  <2> QED
    BY <1>0, <2>1 DEF Clear
<1>3. /\ tab'[t].stage = "reply" /\ tab'[t].op = tab[t].op
      /\ tab'[t].token = tab[t].token /\ tab'[t].at = tab[t].at
      /\ tab'[t].stale = tab[t].stale /\ tab'[t].late = tab[t].late
      /\ tab'[t].granted = tab[t].granted /\ tab'[t].set = "clear"
      /\ tab'[t].sets = NoToken
  BY <1>0, <1>1 DEF Tab
<1>4. TokenSound(tab[t].token)' /\ TokenSound(tab[t].sets)'
  BY <1>3, TokenKept DEF TokenSound
<1>5. StageSound(t)'
  BY <1>3, HandlerKnows DEF StageSound
<1>6. GrantSound(t)'
  BY <1>3, HandlerKnows DEF GrantSound
<1>7. LateSound(t)'
  BY <1>3, HandlerKnows, OwnEvolves DEF LateSound, Own
<1>8. StaleSound(t)'
  <2> SUFFICES ASSUME tab[t].stale PROVE StaleSound(t)'
    BY <1>3 DEF StaleSound
  <2>1. /\ tab[t].token # NoToken /\ tab[t].op = "refresh"
        /\ tab[t].token.jti \notin {Own(t).current, Own(t).previous}
    BY HandlerKnows DEF StaleSound
  <2>2. tab[t].token.jti # minted + 1
    BY <2>1, HandlerKnows, OwnEvolves
  <2> QED
    BY <1>3, <2>1, <2>2, OwnEvolves DEF StaleSound, Own
<1>9. ClearSound(t)'
  BY <1>3 DEF ClearSound
<1> QED
  BY <1>1, <1>2, <1>4, <1>5, <1>6, <1>7, <1>8, <1>9 DEF StepSound, TabSound

\* A response that sets a new cookie.
LEMMA SetCookieSound ==
  ASSUME IInv, Evolves, NEW t \in Tabs, now' = now,
         NEW token \in Token, NEW stage \in {"user", "reply"},
         SetCookie(t, token, stage),
         token.sid \in Sids, sessions'[token.sid].current # 0,
         token.jti \in 1..minted',
         token.exp <= sessions'[token.sid].expiresAt,
         ~tab[t].granted, ~tab[t].late, ~tab[t].stale,
         stage = "user" => /\ tab[t].op = "refresh" /\ tab[t].token # NoToken
                           /\ tab[t].at < Own(t).expiresAt
  PROVE  StepSound(t)
<1>0. tab[t] \in Tab /\ tab \in [Tabs -> Tab]
  BY HandlerKnows
<1>1. /\ tab'[t] = [tab[t] EXCEPT !.stage = stage, !.set = "token",
                                  !.sets = token]
      /\ \A u \in Tabs \ {t} : tab'[u] = tab[u]
  BY <1>0 DEF SetCookie
<1>2. tab'[t] \in Tab /\ tab' \in [Tabs -> Tab]
  <2>1. tab'[t] \in Tab
    BY <1>0, <1>1 DEF Tab
  <2> QED
    BY <1>0, <2>1 DEF SetCookie
<1>3. /\ tab'[t].stage = stage /\ tab'[t].op = tab[t].op
      /\ tab'[t].token = tab[t].token /\ tab'[t].at = tab[t].at
      /\ tab'[t].stale = tab[t].stale /\ tab'[t].late = tab[t].late
      /\ tab'[t].granted = tab[t].granted /\ tab'[t].set = "token"
      /\ tab'[t].sets = token
  BY <1>0, <1>1 DEF Tab
<1>4. TokenSound(tab[t].token)' /\ TokenSound(tab[t].sets)'
  <2>1. TokenSound(tab[t].token)'
    BY <1>3, TokenKept
  <2>2. TokenSound(tab[t].sets)'
    BY <1>3 DEF TokenSound, Known
  <2> QED
    BY <2>1, <2>2
<1>10. token # NoToken
  BY DEF NoToken, Sids
<1>5. StageSound(t)'
  BY <1>3, <1>10, HandlerKnows DEF StageSound
<1>6. GrantSound(t)'
  BY <1>3, OwnEvolves DEF GrantSound, Own
<1>7. LateSound(t)' /\ StaleSound(t)' /\ ClearSound(t)'
  BY <1>3 DEF LateSound, StaleSound, ClearSound
<1> QED
  BY <1>1, <1>2, <1>4, <1>5, <1>6, <1>7 DEF StepSound, TabSound

\* A tab whose request is over.
LEMMA IdleSound ==
  ASSUME IInv, NEW t \in Tabs, now' \in Nat, tab' = [tab EXCEPT ![t] = IdleTab]
  PROVE  StepSound(t)
<1>0. tab[t] \in Tab /\ tab \in [Tabs -> Tab]
  BY HandlerKnows
<1>1. tab'[t] = IdleTab /\ \A u \in Tabs \ {t} : tab'[u] = tab[u]
  BY <1>0
<1>2. tab' \in [Tabs -> Tab]
  BY <1>0, TokenTypes
<1>3. TokenSound(tab[t].token)' /\ TokenSound(tab[t].sets)'
  BY <1>1 DEF TokenSound, IdleTab
<1>4. TabSound(t)'
  BY <1>1 DEF TabSound, StageSound, GrantSound, LateSound, StaleSound,
              ClearSound, IdleTab
<1> QED
  BY <1>1, <1>2, <1>3, <1>4 DEF StepSound

\* The steps of a tab.
LEMMA SendSound ==
  ASSUME IInv, Evolves, NEW t \in Tabs,
         NEW op \in {"login", "refresh", "logout"}, Send(t, op)
  PROVE  StepSound(t)
<1>0. tab[t] \in Tab /\ tab \in [Tabs -> Tab] /\ now' = now /\ now \in Nat
  BY HandlerKnows DEF Send
<1>1. PICK token \in {cookie, NoToken} :
        tab' = [tab EXCEPT ![t] = [IdleTab EXCEPT
                 !.stage = "sent", !.op = op, !.token = token]]
  BY DEF Send
<1>2. token \in Token /\ TokenSound(token)
  BY TokenTypes DEF IInv, TypeOK, TokenInv, TokenSound
<1>3. /\ tab'[t] = [IdleTab EXCEPT !.stage = "sent", !.op = op,
                                   !.token = token]
      /\ \A u \in Tabs \ {t} : tab'[u] = tab[u]
  BY <1>0, <1>1
<1>4. tab'[t] \in Tab /\ tab' \in [Tabs -> Tab]
  <2>1. tab'[t] \in Tab
    BY <1>2, <1>3, TokenTypes DEF Tab, IdleTab
  <2> QED
    BY <1>0, <1>1, <1>3, <2>1
<1>5. TokenSound(tab[t].token)' /\ TokenSound(tab[t].sets)'
  BY <1>2, <1>3 DEF TokenSound, Evolves, Known, IdleTab
<1>6. TabSound(t)'
  BY <1>0, <1>3 DEF TabSound, StageSound, GrantSound, LateSound, StaleSound,
                    ClearSound, IdleTab
<1> QED
  BY <1>3, <1>4, <1>5, <1>6 DEF StepSound

LEMMA RefreshStartsSound ==
  ASSUME IInv, Evolves, NEW t \in Tabs, RefreshStarts(t)
  PROVE  StepSound(t)
<1>0. /\ tab[t] \in Tab /\ tab \in [Tabs -> Tab] /\ now' = now
      /\ now \in 0..MaxTime /\ sessions' = sessions
      /\ tab[t].stage = "sent" /\ tab[t].op = "refresh"
      /\ ~tab[t].granted /\ ~tab[t].late /\ ~tab[t].stale
      /\ tab[t].set = "keep"
  BY HandlerKnows DEF RefreshStarts, GrantSound, LateSound, StaleSound,
                      StageSound
<1>1. CASE ~(tab[t].token.exp > now)
  <2>1. tab[t].token.exp <= now /\ Clear(t)
    BY <1>0, <1>1, HandlerKnows DEF RefreshStarts
  <2> QED
    BY <1>0, <2>1, ClearedSound
<1>2. CASE tab[t].token.exp > now
  <2> DEFINE stale == tab[t].token.jti \notin {Own(t).current, Own(t).previous}
             late == ~Own(t).live
  <2>1. tab[t].token # NoToken
    BY <1>0, <1>2 DEF NoToken
  <2>2. /\ tab'[t] = [tab[t] EXCEPT !.stage = "rotate", !.at = now,
                                    !.stale = stale, !.late = late]
        /\ \A u \in Tabs \ {t} : tab'[u] = tab[u]
    BY <1>0, <1>2 DEF RefreshStarts
  <2>3. late \in BOOLEAN /\ stale \in BOOLEAN
    OBVIOUS
  <2>4. tab'[t] \in Tab /\ tab' \in [Tabs -> Tab]
    <3>1. tab'[t] \in Tab
      BY <1>0, <2>2, <2>3 DEF Tab
    <3> QED
      BY <1>0, <1>2, <2>2, <3>1 DEF RefreshStarts
  <2>5. /\ tab'[t].stage = "rotate" /\ tab'[t].op = "refresh"
        /\ tab'[t].token = tab[t].token /\ tab'[t].at = now
        /\ tab'[t].granted = FALSE /\ tab'[t].set = "keep"
        /\ tab'[t].sets = tab[t].sets
    BY <1>0, <2>2 DEF Tab
  <2>6. (tab'[t].stale => stale) /\ (tab'[t].late => late)
    BY <1>0, <2>2, <2>3 DEF Tab
  <2>7. TokenSound(tab[t].token)' /\ TokenSound(tab[t].sets)'
    BY <2>5, TokenKept, SetsKept
  <2>8. Own(t)' = Own(t)
    BY <1>0, <2>5 DEF Own
  <2>9. StageSound(t)' /\ GrantSound(t)' /\ ClearSound(t)'
    BY <1>0, <2>1, <2>5 DEF StageSound, GrantSound, ClearSound
  <2>10. LateSound(t)'
    BY <2>1, <2>5, <2>6, <2>8 DEF LateSound
  <2>11. StaleSound(t)'
    BY <2>1, <2>5, <2>6, <2>8 DEF StaleSound
  <2> QED
    BY <2>2, <2>4, <2>7, <2>9, <2>10, <2>11 DEF StepSound, TabSound
<1> QED
  BY <1>1, <1>2

\* What a stage of a refresh has established.
LEMMA RefreshStage ==
  ASSUME IInv, NEW t \in Tabs,
         tab[t].stage \in {"rotate", "lookup", "revoke", "user"}
  PROVE  /\ tab[t].op = "refresh" /\ tab[t].token # NoToken
         /\ ~tab[t].granted
         /\ tab[t].stage # "user" => tab[t].set = "keep"
BY HandlerKnows DEF StageSound, GrantSound

LEMMA RotateSound ==
  ASSUME IInv, Evolves, NEW t \in Tabs, RotateWins(t) \/ RotateMisses(t)
  PROVE  StepSound(t)
<1>1. CASE RotateMisses(t)
  <2>1. tab[t].stage = "rotate" /\ now' = now /\ Await(t, "lookup")
    BY <1>1 DEF RotateMisses
  <2> QED
    BY <2>1, RefreshStage, AwaitSound
<1>2. CASE RotateWins(t)
  <2> DEFINE sid == tab[t].token.sid
             token == NewToken(sid, minted + 1, Own(t).expiresAt)
  <2>1. /\ tab[t].stage = "rotate" /\ now' = now /\ minted' = minted + 1
        /\ SetCookie(t, token, "user") /\ MayRotate(t) /\ minted < MaxJti
    BY <1>2 DEF RotateWins, Rotated
  <2>2. tab[t].op = "refresh" /\ tab[t].token # NoToken /\ ~tab[t].granted
    BY <2>1, RefreshStage
  <2>3. /\ sid \in Sids /\ Own(t) \in Session
        /\ sessions'[sid].expiresAt = Own(t).expiresAt
        /\ sessions'[sid].current # 0
    BY <2>2, OwnEvolves DEF Evolves
  <2>4. minted \in Nat /\ minted + 1 \in Jti
    BY <2>1, HandlerKnows, TimesAssumption DEF Jti
  <2>5. token \in Token /\ token.sid = sid /\ token.jti = minted + 1
        /\ token.exp <= Own(t).expiresAt
    <3>1. TypeOK /\ Own(t).expiresAt \in 0..(MaxTime + Absolute)
      BY <2>3 DEF IInv, Session
    <3> QED
      BY <2>3, <2>4, <3>1, NewTokenType, NewTokenEnds
  <2>6. ~tab[t].late /\ ~tab[t].stale
    BY <2>1, HandlerKnows DEF LateSound, StaleSound, MayRotate
  <2>7. tab[t].at < Own(t).expiresAt
    BY <2>1, <2>3, HandlerKnows DEF MayRotate, Session
  <2> HIDE DEF token
  <2> QED
    BY <2>1, <2>2, <2>3, <2>4, <2>5, <2>6, <2>7, SetCookieSound
<1> QED
  BY <1>1, <1>2

LEMMA LookupSound ==
  ASSUME IInv, Evolves, NEW t \in Tabs, Lookup(t)
  PROVE  StepSound(t)
<1> DEFINE sid == tab[t].token.sid
           found == Own(t).live /\ Own(t).expiresAt > tab[t].at
           token == NewToken(sid, Own(t).current, Own(t).expiresAt)
<1>0. tab[t].stage = "lookup" /\ now' = now /\ sessions' = sessions
  BY DEF Lookup
<1>1. tab[t].op = "refresh" /\ tab[t].token # NoToken /\ ~tab[t].granted
      /\ tab[t].set = "keep"
  BY <1>0, RefreshStage
<1>2. sid \in Sids /\ Own(t) \in Session /\ Own(t) = sessions[sid]
      /\ Known(sid) /\ tab[t].at \in Nat
  BY <1>1, HandlerKnows, OwnEvolves
<1>3. CASE ~found
  <2>1. Clear(t)
    BY <1>3 DEF Lookup
  <2>2. tab'[t].token = tab[t].token /\ tab'[t].at = tab[t].at
    BY <2>1, HandlerKnows DEF Clear, Tab
  <2>3. Ended(t)'
    BY <1>0, <1>2, <1>3, <2>2 DEF Ended, Own, Session
  <2> QED
    BY <1>0, <1>1, <2>1, <2>3, ClearedSound
<1>4. CASE found /\ InsideGrace(t)
  <2>1. SetCookie(t, token, "user")
    BY <1>4 DEF Lookup
  <2>2. ~tab[t].late /\ ~tab[t].stale
    BY <1>4, HandlerKnows DEF LateSound, StaleSound, InsideGrace
  <2>3. TypeOK /\ JtiInv
    BY DEF IInv
  <2>4. Own(t).current \in Jti /\ Own(t).expiresAt \in 0..(MaxTime + Absolute)
    BY <1>2 DEF Session
  <2>5. token \in Token /\ token.sid = sid /\ token.jti = Own(t).current
        /\ token.exp <= Own(t).expiresAt
    BY <1>2, <2>3, <2>4, NewTokenType, NewTokenEnds
  <2>6. Own(t).current \in 1..minted'
    BY <1>2, <2>3, <2>4 DEF Lookup, JtiInv, Known, Jti, TypeOK
  <2>7. tab[t].at < Own(t).expiresAt /\ sessions'[sid].current # 0
    BY <1>0, <1>2, <1>4, <2>4 DEF Known
  <2> HIDE DEF token
  <2> QED
    BY <1>0, <1>1, <1>2, <2>1, <2>2, <2>5, <2>6, <2>7, SetCookieSound
<1>5. CASE found /\ ~InsideGrace(t)
  <2>1. Await(t, "revoke")
    BY <1>5 DEF Lookup
  <2>2. ~tab[t].late
    BY <1>5, HandlerKnows DEF LateSound
  <2> QED
    BY <1>0, <1>1, <2>1, <2>2, AwaitSound
<1> QED
  BY <1>3, <1>4, <1>5

\* A deletion of its session: a handler that answers with a cleared cookie.
LEMMA RevokingSound ==
  ASSUME IInv, Evolves, NEW t \in Tabs, Revoke(t) \/ Logout(t)
  PROVE  StepSound(t)
<1>1. /\ tab[t].stage \in {"revoke", "logout"} /\ now' = now
      /\ Revoked(tab[t].token.sid) /\ Clear(t)
  BY DEF Revoke, Logout
<1>2. tab[t].token # NoToken /\ ~tab[t].granted
  BY <1>1, HandlerKnows DEF StageSound, GrantSound
<1>3. tab'[t].token = tab[t].token /\ tab'[t].at = tab[t].at
  BY <1>1, HandlerKnows DEF Clear, Tab
<1>4. tab[t].token.sid \in Sids /\ Own(t) \in Session
      /\ sessions \in [Sids -> Session]
  BY <1>2, OwnEvolves DEF IInv, TypeOK
<1>5. ~sessions'[tab[t].token.sid].live
  BY <1>1, <1>4 DEF Revoked, Session
<1>6. Ended(t)'
  BY <1>3, <1>5 DEF Ended, Own
<1> QED
  BY <1>1, <1>2, <1>6, ClearedSound

LEMMA UserFoundSound ==
  ASSUME IInv, Evolves, NEW t \in Tabs, UserFound(t)
  PROVE  StepSound(t)
<1>0. /\ tab[t] \in Tab /\ tab \in [Tabs -> Tab] /\ now' = now
      /\ tab[t].stage = "user" /\ sessions' = sessions
      /\ ~tab[t].late /\ ~tab[t].stale
      /\ tab[t].token # NoToken /\ tab[t].at < Own(t).expiresAt
  BY HandlerKnows DEF UserFound, LateSound, StaleSound, GrantSound
<1>1. /\ tab'[t] = [tab[t] EXCEPT !.stage = "reply", !.granted = TRUE]
      /\ \A u \in Tabs \ {t} : tab'[u] = tab[u]
  BY <1>0 DEF UserFound
<1>2. tab'[t] \in Tab /\ tab' \in [Tabs -> Tab]
  <2>1. tab'[t] \in Tab
    BY <1>0, <1>1 DEF Tab
  <2> QED
    BY <1>0, <2>1 DEF UserFound
<1>3. /\ tab'[t].stage = "reply" /\ tab'[t].op = tab[t].op
      /\ tab'[t].token = tab[t].token /\ tab'[t].at = tab[t].at
      /\ tab'[t].stale = tab[t].stale /\ tab'[t].late = tab[t].late
      /\ tab'[t].set = tab[t].set /\ tab'[t].sets = tab[t].sets
  BY <1>0, <1>1 DEF Tab
<1>4. TokenSound(tab[t].token)' /\ TokenSound(tab[t].sets)'
  BY <1>3, TokenKept, SetsKept
<1>5. StageSound(t)'
  BY <1>0, <1>3, HandlerKnows DEF StageSound
<1>6. GrantSound(t)'
  BY <1>0, <1>3 DEF GrantSound, Own
<1>7. LateSound(t)' /\ StaleSound(t)'
  BY <1>0, <1>3 DEF LateSound, StaleSound
<1>8. ClearSound(t)'
  BY <1>0, <1>3, HandlerKnows DEF ClearSound, Ended, Own
<1> QED
  BY <1>1, <1>2, <1>4, <1>5, <1>6, <1>7, <1>8 DEF StepSound, TabSound

\* A request that has just arrived.
LEMMA SentStage ==
  ASSUME IInv, NEW t \in Tabs, tab[t].stage \in {"sent", "create"}
  PROVE  /\ ~tab[t].granted /\ ~tab[t].late /\ ~tab[t].stale
         /\ tab[t].set = "keep"
BY HandlerKnows DEF StageSound, GrantSound, LateSound, StaleSound

LEMMA LogoutStartsSound ==
  ASSUME IInv, Evolves, NEW t \in Tabs, LogoutStarts(t)
  PROVE  StepSound(t)
<1>1. tab[t].stage = "sent" /\ tab[t].op = "logout" /\ now' = now
  BY DEF LogoutStarts
<1>2. CASE tab[t].token = NoToken
  <2>1. Clear(t)
    BY <1>2 DEF LogoutStarts
  <2> QED
    BY <1>1, <2>1, SentStage, ClearedSound
<1>3. CASE tab[t].token # NoToken
  <2>1. Await(t, "logout")
    BY <1>3 DEF LogoutStarts
  <2> QED
    BY <1>1, <1>3, <2>1, SentStage, AwaitSound
<1> QED
  BY <1>2, <1>3

LEMMA LoginSound ==
  ASSUME IInv, Evolves, NEW t \in Tabs, LoginStarts(t) \/ LoginCreates(t)
  PROVE  StepSound(t)
<1>1. CASE LoginStarts(t)
  <2>1. tab[t].stage = "sent" /\ tab[t].op = "login" /\ now' = now
    BY <1>1 DEF LoginStarts
  <2>2. PICK stage \in {"reply", "create"} : Await(t, stage)
    BY <1>1 DEF LoginStarts
  <2> QED
    BY <2>1, <2>2, SentStage, AwaitSound
<1>2. CASE LoginCreates(t)
  <2> DEFINE token == NewToken(NextSid, minted + 1, now + Absolute)
  <2>1. /\ tab[t].stage = "create" /\ now' = now /\ Create
        /\ SetCookie(t, token, "reply")
    BY <1>2 DEF LoginCreates
  <2>2. NextSid \in Sids /\ minted' = minted + 1 /\ minted \in Nat
        /\ sessions' = [sessions EXCEPT ![NextSid] = Created(minted + 1)]
    BY <2>1, NextSidUnused, HandlerKnows DEF Create
  <2>3. TypeOK /\ now \in 0..MaxTime
    BY DEF IInv, TypeOK
  <2>4. minted + 1 \in Jti /\ now + Absolute \in 0..(MaxTime + Absolute)
    BY <2>1, <2>3, CreateTypes, TimesAssumption
  <2>5. token \in Token /\ token.sid = NextSid /\ token.jti = minted + 1
        /\ token.exp <= now + Absolute
    BY <2>2, <2>3, <2>4, NewTokenType, NewTokenEnds
  <2>6. sessions'[NextSid].current = minted + 1
        /\ sessions'[NextSid].expiresAt = now + Absolute
    BY <2>2, <2>3 DEF TypeOK, Created
  <2> HIDE DEF token
  <2> QED
    BY <2>1, <2>2, <2>5, <2>6, SentStage, SetCookieSound
<1> QED
  BY <1>1, <1>2

LEMMA DatabaseFailsSound ==
  ASSUME IInv, Evolves, NEW t \in Tabs, DatabaseFails(t)
  PROVE  StepSound(t)
<1>1. tab[t].stage \in DatabaseStages /\ now' = now
  BY DEF DatabaseFails
<1>2. ~tab[t].granted
  BY <1>1, HandlerKnows DEF GrantSound, DatabaseStages
<1>3. CASE tab[t].op = "logout"
  <2>1. Clear(t) /\ ~tab[t].stale
    BY <1>3, HandlerKnows DEF DatabaseFails, StaleSound
  <2> QED
    BY <1>1, <1>2, <1>3, <2>1, ClearedSound
<1>4. CASE tab[t].op # "logout"
  <2>1. Await(t, "reply")
    BY <1>4 DEF DatabaseFails
  <2> QED
    BY <1>1, <1>2, <2>1, AwaitSound
<1> QED
  BY <1>3, <1>4

LEMMA StepsSound ==
  ASSUME IInv, Evolves, NEW t \in Tabs, Step(t)
  PROVE  StepSound(t) /\ now' = now /\ cookie' = cookie
<1>1. StepSound(t)
  BY RefreshStartsSound, RotateSound, LookupSound, RevokingSound,
     UserFoundSound, LogoutStartsSound, LoginSound, DatabaseFailsSound DEF Step
<1>2. now' = now /\ cookie' = cookie
  <2>1. CASE RefreshStarts(t) \/ RotateWins(t) \/ RotateMisses(t) \/ Lookup(t)
    BY <2>1 DEF RefreshStarts, RotateWins, RotateMisses, Lookup
  <2>2. CASE Revoke(t) \/ UserFound(t) \/ LogoutStarts(t) \/ Logout(t)
    BY <2>2 DEF Revoke, UserFound, LogoutStarts, Logout
  <2>3. CASE LoginStarts(t) \/ LoginCreates(t) \/ DatabaseFails(t)
    BY <2>3 DEF LoginStarts, LoginCreates, DatabaseFails
  <2> QED
    BY <2>1, <2>2, <2>3 DEF Step
<1> QED
  BY <1>1, <1>2

\* The browser: cookie and requests are sound after every step.
BrowserSound ==
  /\ now' \in 0..MaxTime
  /\ cookie' \in Token
  /\ tab' \in [Tabs -> Tab]
  /\ TokenInv' /\ TabInv'

\* It is enough to look at the tab that steps.
LEMMA OneTabSteps ==
  ASSUME IInv, Evolves, NEW t \in Tabs, StepSound(t), now' = now,
         cookie' = cookie \/ (cookie' \in Token /\ TokenSound(cookie)')
  PROVE  BrowserSound
<1>1. /\ TypeOK /\ TokenSound(cookie) /\ now \in 0..MaxTime
  BY DEF IInv, TypeOK, TokenInv
<1>2. cookie' \in Token /\ TokenSound(cookie)'
  BY <1>1 DEF Evolves, TokenSound, Known, TypeOK
<1>3. ASSUME NEW u \in Tabs
      PROVE  /\ TokenSound(tab[u].token)' /\ TokenSound(tab[u].sets)'
             /\ TabSound(u)'
  <2>1. CASE u = t
    BY <2>1 DEF StepSound
  <2>2. CASE u # t
    <3>1. tab'[u] = tab[u]
      BY <2>2 DEF StepSound
    <3> QED
      BY <1>1, <3>1, TabStays
  <2> QED
    BY <2>1, <2>2
<1> QED
  BY <1>1, <1>2, <1>3 DEF BrowserSound, TokenInv, TabInv, StepSound

LEMMA NextBrowser == IInv /\ [Next]_vars => BrowserSound
<1> SUFFICES ASSUME IInv, [Next]_vars PROVE BrowserSound
  OBVIOUS
<1>0. Evolves /\ TypeOK /\ now \in 0..MaxTime
  BY SessionsEvolve DEF IInv, TypeOK
<1>1. ASSUME NEW t \in Tabs, NEW op \in {"login", "refresh", "logout"},
             Send(t, op)
      PROVE  BrowserSound
  <2>1. now' = now /\ cookie' = cookie
    BY <1>1 DEF Send
  <2> QED
    BY <1>0, <1>1, <2>1, SendSound, OneTabSteps
<1>2. ASSUME NEW t \in Tabs, Step(t) PROVE BrowserSound
  BY <1>0, <1>2, StepsSound, OneTabSteps
<1>3. ASSUME NEW t \in Tabs, Receive(t) \/ ResponseLost(t) PROVE BrowserSound
  <2>1. now' = now /\ now' \in Nat /\ tab' = [tab EXCEPT ![t] = IdleTab]
    BY <1>0, <1>3 DEF Receive, ResponseLost
  <2>2. StepSound(t)
    BY <2>1, IdleSound
  <2>3. cookie' = cookie \/ cookie' = NoToken \/ cookie' = tab[t].sets
    BY <1>0, <1>3 DEF Receive, ResponseLost, TypeOK, Tab
  <2>4. cookie' = cookie \/ (cookie' \in Token /\ TokenSound(cookie)')
    <3>1. tab[t].sets \in Token /\ TokenSound(tab[t].sets)
      BY <1>0, HandlerKnows DEF TypeOK, Tab
    <3> QED
      BY <1>0, <2>3, <3>1, TokenTypes DEF Evolves, TokenSound, Known
  <2> QED
    BY <1>0, <2>1, <2>2, <2>4, OneTabSteps
<1>4. ASSUME Tick \/ TtlDeletes \/ UNCHANGED vars PROVE BrowserSound
  <2>1. /\ tab' = tab /\ cookie' = cookie /\ now' \in 0..MaxTime
        /\ now <= now' /\ now \in Nat /\ now' \in Nat
    BY <1>0, <1>4, TimesAssumption DEF Tick, TtlDeletes, vars
  <2>2. cookie' \in Token /\ TokenSound(cookie)'
    <3>1. cookie \in Token /\ TokenSound(cookie)
      BY <1>0 DEF TypeOK, IInv, TokenInv
    <3> QED
      BY <1>0, <2>1, <3>1 DEF Evolves, TokenSound, Known
  <2>3. ASSUME NEW u \in Tabs
        PROVE  /\ TokenSound(tab[u].token)' /\ TokenSound(tab[u].sets)'
               /\ TabSound(u)'
    BY <1>0, <2>1, TabStays
  <2> QED
    BY <1>0, <2>1, <2>2, <2>3 DEF BrowserSound, TokenInv, TabInv, TypeOK
<1> QED
  BY <1>1, <1>2, <1>3, <1>4 DEF Next

----------------------------------------------------------------------------
(* The theorems. *)

LEMMA InitIInv == Init => IInv
<1> SUFFICES ASSUME Init PROVE IInv
  OBVIOUS
<1>1. TypeOK
  BY InitTypes
<1>2. 1 \in Sids /\ 1 \in Jti /\ minted = 1 /\ now = 0
      /\ sessions[1].current = 1 /\ sessions[1].expiresAt = Absolute
      /\ \A sid \in Sids : sid # 1 => sessions[sid] = NoSession
  BY TimesAssumption DEF Init, Sids, Jti, Created
<1>3. JtiInv
  <2>1. \A sid \in Sids \ {1} : /\ sessions[sid].current = 0
                               /\ ~sessions[sid].live
    BY <1>2 DEF NoSession
  <2>2. \A j \in Jti : wins[j] = 0
    BY DEF Init
  <2> QED
    BY <1>2, <2>1, <2>2 DEF JtiInv, Known, OneRotationWins
<1>4. cookie.sid = 1 /\ cookie.jti = 1 /\ cookie.exp <= Absolute
  BY <1>1, <1>2, TimesAssumption DEF Init, NewToken
<1>5. TokenInv
  BY <1>2, <1>4 DEF TokenInv, TokenSound, Known, Init, IdleTab
<1>6. TabInv
  <2> SUFFICES ASSUME NEW t \in Tabs PROVE TabSound(t)
    BY DEF TabInv
  <2>1. /\ tab[t].stage = "idle" /\ tab[t].at = 0 /\ tab[t].set = "keep"
        /\ ~tab[t].granted /\ ~tab[t].late /\ ~tab[t].stale
    BY DEF Init, IdleTab
  <2> QED
    BY <1>2, <2>1 DEF TabSound, StageSound, GrantSound, LateSound, StaleSound,
                      ClearSound
<1> QED
  BY <1>1, <1>3, <1>5, <1>6 DEF IInv

LEMMA NextIInv == IInv /\ [Next]_vars => IInv'
<1> SUFFICES ASSUME IInv, [Next]_vars PROVE IInv'
  OBVIOUS
<1>1. TypeOK'
  BY NextSessionTypes, NextBrowser DEF BrowserSound, TypeOK
<1> QED
  BY <1>1, NextJtiInv, NextBrowser DEF BrowserSound, IInv

LEMMA IInvAlways == Spec => []IInv
BY InitIInv, NextIInv, PTL DEF Spec

\* Documents, cookie and requests stay well-formed.
THEOREM TypeCorrect == Spec => []TypeOK
<1>1. IInv => TypeOK
  BY DEF IInv
<1> QED
  BY <1>1, IInvAlways, PTL

\* However many tabs refresh at once: a token has one successor
\* (rotateSession's compare-and-set on currentJti).
THEOREM RotationIsUnique == Spec => []OneRotationWins
<1>1. IInv => OneRotationWins
  BY DEF IInv, JtiInv
<1> QED
  BY <1>1, IInvAlways, PTL

\* A request that starts after its session is gone gets no access token.
THEOREM EndIsFinal == Spec => []NothingGrantedAfterEnd
<1>1. IInv => NothingGrantedAfterEnd
  BY DEF IInv, TabInv, TabSound, LateSound, NothingGrantedAfterEnd
<1> QED
  BY <1>1, IInvAlways, PTL

\* Reuse detection: a request with an old token ends the session, whatever
\* the other requests do meanwhile, unless one of its database calls fails.
THEOREM ReuseEndsSession == Spec => []OldTokenEndsSession
<1>1. IInv => OldTokenEndsSession
  BY DEF IInv, TabInv, TabSound, StaleSound, Ended, OldTokenEndsSession
<1> QED
  BY <1>1, IInvAlways, PTL

\* Neither rotation nor the grace window carries a session past its term.
THEOREM TermIsCapped == Spec => []AbsoluteCap
<1>1. ASSUME IInv PROVE AbsoluteCap
  <2>1. ASSUME NEW token, token = NoToken \/
                 (/\ token.sid \in Sids
                  /\ token.exp <= sessions[token.sid].expiresAt)
        PROVE  token.exp <= CapOf(token)
    BY <2>1 DEF CapOf, NoToken, Sids
  <2>2. cookie.exp <= CapOf(cookie)
    BY <1>1, <2>1 DEF IInv, TokenInv, TokenSound
  <2>3. ASSUME NEW t \in Tabs
        PROVE  /\ tab[t].sets.exp <= CapOf(tab[t].sets)
               /\ tab[t].granted => tab[t].at < Own(t).expiresAt
    BY <1>1, <2>1, HandlerKnows DEF TokenSound, GrantSound
  <2> QED
    BY <2>2, <2>3 DEF AbsoluteCap
<1> QED
  BY <1>1, IInvAlways, PTL

\* A valid cookie of a live session is dropped by a logout or by a late
\* answer to another token only.
THEOREM CookieIsKept == Spec => CookieKept
<1> DEFINE Drops == cookie' = NoToken /\ cookie.exp > now
           Why == \E t \in Tabs :
                    /\ tab[t].stage = "reply" /\ tab'[t].stage = "idle"
                    /\ \/ tab[t].op = "logout"
                       \/ ~sessions[cookie.sid].live
                       \/ tab[t].token # cookie
<1>1. ASSUME IInv, [Next]_vars, Drops PROVE Why
  <2>0. /\ TypeOK /\ now \in Nat /\ cookie # NoToken /\ cookie' # cookie
        /\ cookie.sid \in Sids
        /\ cookie.exp <= sessions[cookie.sid].expiresAt
    BY <1>1 DEF IInv, TypeOK, TokenInv, TokenSound, NoToken
  <2>1. PICK t \in Tabs : Receive(t)
    <3>1. ASSUME NEW t \in Tabs, Step(t) PROVE FALSE
      BY <1>1, <2>0, <3>1, SessionsEvolve, StepsSound
    <3>2. ASSUME NEW t \in Tabs, NEW op \in {"login", "refresh", "logout"},
                 Send(t, op)
          PROVE  FALSE
      BY <2>0, <3>2 DEF Send
    <3>3. ASSUME NEW t \in Tabs, ResponseLost(t) PROVE FALSE
      BY <2>0, <3>3 DEF ResponseLost
    <3>4. ~Tick /\ ~TtlDeletes /\ ~UNCHANGED vars
      BY <2>0 DEF Tick, TtlDeletes, vars
    <3> QED
      BY <1>1, <3>1, <3>2, <3>3, <3>4 DEF Next
  <2>2. /\ tab[t].stage = "reply" /\ tab'[t] = IdleTab
        /\ tab[t] \in Tab
    BY <1>1, <2>1, HandlerKnows DEF Receive
  <2>3. tab[t].set = "clear"
    <3>1. tab[t].set \in {"keep", "clear", "token"}
      BY <2>2 DEF Tab
    <3>2. tab[t].set # "keep"
      BY <2>0, <2>1 DEF Receive
    <3>3. tab[t].set # "token"
      BY <1>1, <2>1, HandlerKnows DEF Receive, StageSound
    <3> QED
      BY <3>1, <3>2, <3>3
  <2>4. CASE tab[t].token = cookie /\ tab[t].op # "logout"
    <3>1. Ended(t)
      BY <1>1, <2>0, <2>3, <2>4, HandlerKnows DEF ClearSound, TypeOK, Token
    <3>2. sessions[cookie.sid].expiresAt \in Nat /\ cookie.exp \in Nat
          /\ tab[t].at \in Nat /\ tab[t].at <= now
      BY <1>1, <2>0, <2>4, HandlerKnows, TimesAssumption
      DEF TypeOK, Session, StageSound
    <3>3. ~sessions[cookie.sid].live
      BY <1>1, <2>0, <2>4, <3>1, <3>2 DEF Ended, Own
    <3> QED
      BY <2>2, <3>3 DEF IdleTab
  <2> QED
    BY <2>2, <2>4 DEF IdleTab
<1>2. IInv /\ [Next]_vars => [Drops => Why]_vars
  BY <1>1
<1>3. [][Next]_vars /\ []IInv => [][Drops => Why]_vars
  BY <1>2, PTL
<1> QED
  BY <1>3, IInvAlways, PTL DEF Spec, CookieKept
=============================================================================
