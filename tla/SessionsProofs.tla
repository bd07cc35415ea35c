--------------------------- MODULE SessionsProofs ---------------------------
(***************************************************************************)
(* Theorems of Sessions, for any number of overlapping requests, any       *)
(* lifetimes of tokens and sessions, and any failures.                     *)
(***************************************************************************)
EXTENDS Sessions, FiniteSetTheorems, TLAPS

(***************************************************************************)
(* The lists a step leaves.                                                *)
(***************************************************************************)

(* Revoking keeps every session, marks those of the set and no other.      *)
LEMMA RevokeMarks ==
  ASSUME TypeOK, NEW S, Revoke(S)
  PROVE  /\ sessions' \in Seq(Session)
         /\ Len(sessions') = Len(sessions)
         /\ \A i \in DOMAIN sessions :
              /\ sessions'[i].revoked = (sessions[i].revoked \/ i \in S)
              /\ sessions'[i].from = sessions[i].from
              /\ sessions'[i].origin = sessions[i].origin
  <1> DEFINE marked(i) == IF i \in S THEN [sessions[i] EXCEPT !.revoked = TRUE]
                                     ELSE sessions[i]
  <1>1. /\ sessions \in Seq(Session) /\ Len(sessions) \in Nat
        /\ DOMAIN sessions = 1..Len(sessions)
    BY DEF TypeOK
  <1>2. \A i \in 1..Len(sessions) : sessions[i] \in Session
    BY <1>1
  <1>3. \A i \in 1..Len(sessions) :
          /\ marked(i) \in Session /\ marked(i).revoked = (sessions[i].revoked \/ i \in S)
          /\ marked(i).from = sessions[i].from /\ marked(i).origin = sessions[i].origin
    BY <1>2 DEF Session
  <1>4. sessions' = [i \in 1..Len(sessions) |-> marked(i)]
    BY <1>1 DEF Revoke
  <1> HIDE DEF marked
  <1>5. sessions' \in Seq(Session) /\ Len(sessions') = Len(sessions)
    BY <1>1, <1>3, <1>4
  <1>6. \A i \in DOMAIN sessions : sessions'[i] = marked(i)
    BY <1>1, <1>4
  <1> QED
    BY <1>1, <1>3, <1>5, <1>6

(* Opening a session adds one unrevoked row, behind the others.            *)
LEMMA OpenAdds ==
  ASSUME TypeOK, NEW r \in Requests, sessions' = Append(sessions, NewSession(r))
  PROVE  /\ sessions' \in Seq(Session)
         /\ Len(sessions') = Len(sessions) + 1
         /\ DOMAIN sessions' = DOMAIN sessions \cup {Len(sessions) + 1}
         /\ Len(sessions) + 1 \notin DOMAIN sessions
         /\ \A i \in DOMAIN sessions : sessions'[i] = sessions[i]
         /\ sessions'[Len(sessions) + 1] = NewSession(r)
  <1>1. requests[r].of \in Nat /\ origin[r] \in Origins /\ now \in Nat
    BY DEF TypeOK, Idle
  <1>2. sessions \in Seq(Session) /\ NewSession(r) \in Session
    BY <1>1 DEF TypeOK, NewSession, Session
  <1>3. /\ sessions' \in Seq(Session) /\ Len(sessions) \in Nat
        /\ Len(sessions') = Len(sessions) + 1
        /\ \A i \in DOMAIN sessions : sessions'[i] = sessions[i]
        /\ sessions'[Len(sessions) + 1] = NewSession(r)
    BY <1>2
  <1>4. /\ DOMAIN sessions = 1..Len(sessions)
        /\ DOMAIN sessions' = 1..(Len(sessions) + 1)
    BY <1>2, <1>3
  <1> QED
    BY <1>3, <1>4

(* Using up the reset tokens of a set keeps them all, and what they are.   *)
UseUp(S) == resets' = [t \in DOMAIN resets |->
                         IF t \in S THEN [resets[t] EXCEPT !.used = TRUE] ELSE resets[t]]

LEMMA MarkingKeepsTokens ==
  ASSUME TypeOK, NEW S, UseUp(S)
  PROVE  /\ resets' \in Seq(ResetToken)
         /\ Len(resets') = Len(resets)
         /\ \A t \in DOMAIN resets :
              /\ resets'[t].used = (resets[t].used \/ t \in S)
              /\ resets'[t].issued = resets[t].issued
              /\ resets'[t].supersedes = resets[t].supersedes
  <1> DEFINE marked(t) == IF t \in S THEN [resets[t] EXCEPT !.used = TRUE] ELSE resets[t]
  <1>1. /\ resets \in Seq(ResetToken) /\ Len(resets) \in Nat
        /\ DOMAIN resets = 1..Len(resets)
    BY DEF TypeOK
  <1>2. \A t \in 1..Len(resets) : resets[t] \in ResetToken
    BY <1>1
  <1>3. \A t \in 1..Len(resets) : marked(t) \in ResetToken
    BY <1>2 DEF ResetToken
  <1>4. \A t \in 1..Len(resets) :
          /\ marked(t).used = (resets[t].used \/ t \in S)
          /\ marked(t).issued = resets[t].issued
          /\ marked(t).supersedes = resets[t].supersedes
    BY <1>2 DEF ResetToken
  <1>5. resets' = [t \in 1..Len(resets) |-> marked(t)]
    BY <1>1 DEF UseUp
  <1> HIDE DEF marked
  <1>6. resets' \in Seq(ResetToken) /\ Len(resets') = Len(resets)
    BY <1>1, <1>3, <1>5
  <1>7. \A t \in 1..Len(resets) : resets'[t] = marked(t)
    BY <1>5
  <1>8. \A t \in 1..Len(resets) :
          /\ resets'[t].used = (resets[t].used \/ t \in S)
          /\ resets'[t].issued = resets[t].issued
          /\ resets'[t].supersedes = resets[t].supersedes
    BY <1>4, <1>7
  <1> QED
    BY <1>1, <1>6, <1>8

(***************************************************************************)
(* Types.                                                                  *)
(***************************************************************************)

(* What a request holds: where it is and of which row.                     *)
Busy == [stage : Stages, of : Nat]

(* A stage that is about a row holds one that is there.                    *)
Held(stage, of) ==
  /\ stage \in {"rotate", "reread", "reopen", "logout"} => of \in DOMAIN sessions
  /\ stage = "open" => of = 0
  /\ stage = "reset" => of \in DOMAIN resets

(* One request moves to a stage, holding a row that is there; the others   *)
(* stay where they are.                                                    *)
Moves(r, stage, of) ==
  /\ requests' \in [Requests -> {Idle} \cup Busy]
  /\ requests'[r].stage = stage /\ requests'[r].of = of
  /\ Held(stage, of)
  /\ \A x \in Requests \ {r} : requests'[x] = requests[x]

SomeMove ==
  \E r \in Requests, stage \in Stages \cup {"idle"}, of \in Nat : Moves(r, stage, of)

LEMMA GoMoves ==
  ASSUME TypeOK, NEW r \in Requests, NEW stage \in Stages, NEW of \in Nat,
         Go(r, stage, of), Held(stage, of)
  PROVE  Moves(r, stage, of)
  <1>1. [stage |-> stage, of |-> of] \in Busy
    BY DEF Busy
  <1>2. requests \in [Requests -> {Idle} \cup Busy]
    BY DEF TypeOK, Busy
  <1>3. /\ requests' \in [Requests -> {Idle} \cup Busy]
        /\ requests'[r] = [stage |-> stage, of |-> of]
        /\ \A x \in Requests \ {r} : requests'[x] = requests[x]
    BY <1>1, <1>2 DEF Go
  <1> QED
    BY <1>3 DEF Moves

LEMMA AnswerMoves ==
  ASSUME TypeOK, NEW r \in Requests, Answer(r)
  PROVE  Moves(r, "idle", 0)
  <1>1. requests \in [Requests -> {Idle} \cup Busy]
    BY DEF TypeOK, Busy
  <1> QED
    BY <1>1 DEF Answer, Idle, Moves, Held

(* With lists that only grow, and a request that moved rightly, the state  *)
(* is well typed again.                                                    *)
LEMMA TypedAgain ==
  ASSUME TypeOK,
         \/ UNCHANGED sessions
         \/ /\ sessions' \in Seq(Session) /\ Len(sessions') >= Len(sessions)
            /\ \A i \in DOMAIN sessions' : sessions'[i].from < i,
         resets' \in Seq(ResetToken), Len(resets') >= Len(resets),
         account' \in [active : BOOLEAN, deleted : BOOLEAN],
         origin' \in [Requests -> Origins],
         now' \in Nat, calls' \in Nat, failures' \in Nat,
         \/ UNCHANGED requests
         \/ SomeMove
  PROVE  TypeOK'
  <1>1. DOMAIN sessions \subseteq DOMAIN sessions' /\ DOMAIN resets \subseteq DOMAIN resets'
    <2>1. /\ Len(sessions) \in Nat /\ DOMAIN sessions = 1..Len(sessions)
          /\ Len(resets) \in Nat /\ DOMAIN resets = 1..Len(resets)
      <3>1. sessions \in Seq(Session) /\ resets \in Seq(ResetToken)
        BY DEF TypeOK
      <3> QED
        BY <3>1
    <2>2. /\ Len(sessions') \in Nat /\ DOMAIN sessions' = 1..Len(sessions')
          /\ Len(resets') \in Nat /\ DOMAIN resets' = 1..Len(resets')
          /\ Len(sessions') >= Len(sessions)
      BY <2>1
    <2>3. \A m, n \in Nat : m >= n => 1..n \subseteq 1..m
      OBVIOUS
    <2> QED
      BY <2>1, <2>2, <2>3, Zenon
  <1>2. /\ requests \in [Requests -> {Idle} \cup Busy]
        /\ \A x \in Requests : Held(requests[x].stage, requests[x].of)
    BY DEF TypeOK, Busy, Held
  <1>3. /\ requests' \in [Requests -> {Idle} \cup Busy]
        /\ \A x \in Requests : Held(requests'[x].stage, requests'[x].of)
    <2>1. CASE UNCHANGED requests
      BY <1>2, <2>1
    <2>2. CASE SomeMove
      BY <1>2, <2>2 DEF SomeMove, Moves
    <2> QED
      BY <2>1, <2>2
  <1>4. /\ sessions' \in Seq(Session)
        /\ \A i \in DOMAIN sessions' : sessions'[i].from < i
    BY DEF TypeOK
  <1> QED
    BY <1>1, <1>3, <1>4 DEF TypeOK, Busy, Held

(* The tables and the clock, which most calls leave alone.                 *)
kept == <<account, sessions, resets, now, failures>>

(* A call but logout everywhere only reads: it moves its request to where  *)
(* it will write, with a row it found. Only a refresh looks where what it  *)
(* will open comes from: from the session it found, which is not revoked.  *)
LEMMA CallOnlyReads ==
  ASSUME TypeOK, NEW r \in Requests, Call(r), ~LogoutEverywhere(r)
  PROVE  /\ UNCHANGED kept
         /\ requests[r].stage = "idle"
         /\ \E stage \in Stages \ {"issue", "reread", "reopen"}, of \in Nat :
              /\ Moves(r, stage, of)
              /\ \/ stage # "rotate" /\ UNCHANGED origin
                 \/ /\ stage = "rotate" /\ of \in Unrevoked
                    /\ origin' = [origin EXCEPT ![r] = sessions[of].origin]
  <1> DEFINE Read == \E stage \in Stages \ {"issue", "reread", "reopen"}, of \in Nat :
                       /\ Moves(r, stage, of)
                       /\ \/ stage # "rotate" /\ UNCHANGED origin
                          \/ /\ stage = "rotate" /\ of \in Unrevoked
                             /\ origin' = [origin EXCEPT ![r] = sessions[of].origin]
  <1>1. /\ Len(sessions) \in Nat /\ DOMAIN sessions = 1..Len(sessions)
        /\ Len(resets) \in Nat /\ DOMAIN resets = 1..Len(resets)
    BY DEF TypeOK
  <1>2. Live \subseteq Unrevoked /\ Unrevoked \subseteq DOMAIN sessions
    BY DEF Live, Unrevoked
  <1>3. ASSUME NEW stage \in {"open", "revoke all", "forgot", "activate", "deactivate", "delete"},
               Go(r, stage, 0), UNCHANGED origin
        PROVE  Read
    <2>1. stage \in Stages \ {"issue", "reread", "reopen"} /\ stage # "rotate"
      BY <1>3 DEF Stages
    <2>2. Held(stage, 0)
      BY <1>3 DEF Held
    <2>3. Moves(r, stage, 0)
      BY <1>3, <2>1, <2>2, GoMoves
    <2> QED
      BY <1>3, <2>1, <2>3
  <1>4. ASSUME NEW i \in Live, Go(r, "rotate", i),
               origin' = [origin EXCEPT ![r] = sessions[i].origin]
        PROVE  Read
    <2>1. "rotate" \in Stages \ {"issue", "reread", "reopen"} /\ i \in Nat /\ Held("rotate", i)
      BY <1>1, <1>2 DEF Stages, Held
    <2>2. Moves(r, "rotate", i)
      BY <1>4, <2>1, GoMoves
    <2> QED
      BY <1>2, <1>4, <2>1, <2>2
  <1>5. ASSUME NEW i \in Unrevoked, Go(r, "logout", i), UNCHANGED origin
        PROVE  Read
    <2>1. "logout" \in Stages \ {"issue", "reread", "reopen"} /\ i \in Nat /\ Held("logout", i)
      BY <1>1, <1>2 DEF Stages, Held
    <2>2. Moves(r, "logout", i)
      BY <1>5, <2>1, GoMoves
    <2> QED
      BY <1>5, <2>1, <2>2
  <1>6. ASSUME NEW t \in DOMAIN resets, Go(r, "reset", t), UNCHANGED origin
        PROVE  Read
    <2>1. "reset" \in Stages \ {"issue", "reread", "reopen"} /\ t \in Nat /\ Held("reset", t)
      BY <1>1 DEF Stages, Held
    <2>2. Moves(r, "reset", t)
      BY <1>6, <2>1, GoMoves
    <2> QED
      BY <1>6, <2>1, <2>2
  <1> HIDE DEF Read
  <1>7. CASE Login(r) \/ ForgotPassword(r) \/ Administer(r)
    BY <1>3, <1>7 DEF Login, ForgotPassword, Administer, At, kept, Read
  <1>8. ASSUME NEW token \in DOMAIN sessions, Refresh(r, token)
        PROVE  UNCHANGED kept /\ requests[r].stage = "idle" /\ Read
    <2>1. \/ \E i \in Live : Go(r, "rotate", i) /\ origin' = [origin EXCEPT ![r] = sessions[i].origin]
          \/ Go(r, "revoke all", 0) /\ UNCHANGED origin
      BY <1>8 DEF Refresh
    <2>2. Read
      BY <1>3, <1>4, <2>1
    <2> QED
      BY <1>8, <2>2 DEF Refresh, At, kept
  <1>9. ASSUME NEW token \in DOMAIN sessions, Logout(r, token)
        PROVE  UNCHANGED kept /\ requests[r].stage = "idle" /\ Read
    BY <1>5, <1>9 DEF Logout, At, kept
  <1>10. ASSUME NEW t \in DOMAIN resets, ResetPassword(r, t)
         PROVE  UNCHANGED kept /\ requests[r].stage = "idle" /\ Read
    BY <1>6, <1>10 DEF ResetPassword, At, kept
  <1> QED
    BY <1>7, <1>8, <1>9, <1>10 DEF Call, Read

(* Ending all sessions leaves none unrevoked; what is opened yet is late.  *)
LEMMA EndAllEnds ==
  ASSUME TypeOK, EndAll
  PROVE  /\ sessions' \in Seq(Session) /\ Len(sessions') = Len(sessions)
         /\ DOMAIN sessions' = DOMAIN sessions
         /\ \A i \in DOMAIN sessions :
              sessions'[i].revoked /\ sessions'[i].from = sessions[i].from
         /\ \A i \in DOMAIN sessions' : sessions'[i].from < i
         /\ origin' \in [Requests -> Origins]
         /\ \A r \in Requests : Opening(r) => origin'[r] = "late"
  <1> DEFINE over(i) == [sessions[i] EXCEPT !.revoked = TRUE, !.origin = "ended"]
  <1>1. /\ sessions \in Seq(Session) /\ Len(sessions) \in Nat
        /\ DOMAIN sessions = 1..Len(sessions)
    BY DEF TypeOK
  <1>2. \A i \in 1..Len(sessions) :
          over(i) \in Session /\ over(i).revoked /\ over(i).from = sessions[i].from
    <2> SUFFICES ASSUME NEW i \in 1..Len(sessions)
                 PROVE  over(i) \in Session /\ over(i).revoked /\ over(i).from = sessions[i].from
      OBVIOUS
    <2>1. sessions[i] \in Session /\ "ended" \in Origins
      BY <1>1 DEF Origins
    <2> QED
      BY <2>1 DEF Session
  <1>3. sessions' = [i \in 1..Len(sessions) |-> over(i)]
    BY <1>1 DEF EndAll
  <1> HIDE DEF over
  <1>4. /\ sessions' \in Seq(Session) /\ Len(sessions') = Len(sessions)
        /\ \A i \in 1..Len(sessions) : sessions'[i] = over(i)
    BY <1>1, <1>2, <1>3
  <1>5. /\ origin' \in [Requests -> Origins]
        /\ \A r \in Requests : Opening(r) => origin'[r] = "late"
    BY DEF EndAll, TypeOK, Origins
  <1>6. \A i \in DOMAIN sessions : sessions[i].from < i
    BY DEF TypeOK
  <1> QED
    BY <1>1, <1>2, <1>4, <1>5, <1>6

(* An account starts well typed.                                           *)
LEMMA InitTypeOK == Init => TypeOK
  <1> SUFFICES ASSUME Init PROVE TypeOK
    OBVIOUS
  <1>1. DOMAIN sessions = {}
    BY DEF Init
  <1> QED
    BY <1>1 DEF Init, TypeOK, Idle, Origins

(* Every statement keeps the types.                                        *)
LEMMA NextTypeOK == TypeOK /\ [Next]_vars => TypeOK'
  <1> SUFFICES ASSUME TypeOK, [Next]_vars PROVE TypeOK'
    OBVIOUS
  <1>1. /\ sessions \in Seq(Session) /\ Len(sessions) \in Nat
        /\ DOMAIN sessions = 1..Len(sessions)
        /\ resets \in Seq(ResetToken) /\ Len(resets) \in Nat
        /\ DOMAIN resets = 1..Len(resets)
        /\ account \in [active : BOOLEAN, deleted : BOOLEAN]
        /\ origin \in [Requests -> Origins]
        /\ now \in Nat /\ calls \in Nat /\ failures \in Nat
        /\ \A i \in DOMAIN sessions : sessions[i].from < i
    BY DEF TypeOK
  <1>2. ASSUME NEW r \in Requests, Answer(r)
        PROVE  SomeMove
    BY <1>2, AnswerMoves DEF SomeMove
  <1>0. ASSUME NEW r \in Requests, NEW o \in Origins, origin' = [origin EXCEPT ![r] = o]
        PROVE  origin' \in [Requests -> Origins]
    BY <1>0, <1>1
  <1>3. ASSUME NEW r \in Requests, Call(r)
        PROVE  TypeOK'
    <2>1. calls' \in Nat
      BY <1>1, <1>3 DEF Call
    <2>2. CASE LogoutEverywhere(r)
      <3>1. EndAll /\ UNCHANGED <<account, resets, requests, now, failures>>
        BY <2>2 DEF LogoutEverywhere
      <3> QED
        BY <1>1, <2>1, <3>1, EndAllEnds, TypedAgain
    <2>3. CASE ~LogoutEverywhere(r)
      <3>1. UNCHANGED kept
        BY <1>3, <2>3, CallOnlyReads
      <3>2. PICK stage \in Stages \ {"issue", "reread", "reopen"}, of \in Nat :
              /\ Moves(r, stage, of)
              /\ \/ stage # "rotate" /\ UNCHANGED origin
                 \/ /\ stage = "rotate" /\ of \in Unrevoked
                    /\ origin' = [origin EXCEPT ![r] = sessions[of].origin]
        BY <1>3, <2>3, CallOnlyReads
      <3>3. origin' \in [Requests -> Origins]
        <4>1. ASSUME of \in Unrevoked PROVE sessions[of].origin \in Origins
          <5>1. sessions[of] \in Session
            BY <1>1, <4>1 DEF Unrevoked
          <5> QED
            BY <5>1 DEF Session
        <4> QED
          BY <1>0, <1>1, <3>2, <4>1
      <3> QED
        BY <1>1, <2>1, <3>1, <3>2, <3>3, TypedAgain DEF kept, SomeMove
    <2> QED
      BY <2>2, <2>3
  <1>4. ASSUME NEW r \in Requests, OpenSession(r)
        PROVE  TypeOK'
    <2>1. /\ sessions' = Append(sessions, NewSession(r)) /\ Answer(r)
          /\ origin' = [origin EXCEPT ![r] = "fresh"]
          /\ UNCHANGED <<account, resets, now, failures, calls>>
      BY <1>4 DEF OpenSession, Forget
    <2>2. /\ sessions' \in Seq(Session) /\ Len(sessions') = Len(sessions) + 1
          /\ DOMAIN sessions' = DOMAIN sessions \cup {Len(sessions) + 1}
          /\ \A i \in DOMAIN sessions : sessions'[i] = sessions[i]
          /\ sessions'[Len(sessions) + 1] = NewSession(r)
      BY <2>1, OpenAdds
    <2>3. origin' \in [Requests -> Origins]
      BY <1>0, <2>1 DEF Origins
    <2>4. NewSession(r).from < Len(sessions) + 1
      <3>1. NewSession(r).from = requests[r].of
        BY DEF NewSession
      <3>2. requests[r].of = 0 \/ requests[r].of \in DOMAIN sessions
        BY <1>4 DEF OpenSession, At, TypeOK
      <3> QED
        BY <1>1, <3>1, <3>2
    <2>5. \A i \in DOMAIN sessions' : sessions'[i].from < i
      BY <1>1, <2>2, <2>4
    <2>6. SomeMove
      BY <1>2, <2>1
    <2>7. /\ UNCHANGED <<account, resets, now, failures, calls>>
          /\ Len(resets) >= Len(resets) /\ Len(sessions') >= Len(sessions)
      BY <1>1, <2>1, <2>2
    <2> QED
      BY <1>1, <2>2, <2>3, <2>5, <2>6, <2>7, TypedAgain
  <1>5. ASSUME NEW r \in Requests, RotateSession(r)
        PROVE  TypeOK'
    <2>1. PICK i \in DOMAIN sessions :
            /\ Revoke({i}) /\ Go(r, "reread", i)
            /\ UNCHANGED <<account, resets, now, origin, failures, calls>>
      BY <1>5 DEF TypeOK, RotateSession, At
    <2>2. "reread" \in Stages /\ i \in Nat /\ Held("reread", i)
      BY <1>1, <2>1 DEF Stages, Held
    <2>3. Moves(r, "reread", i)
      BY <2>1, <2>2, GoMoves
    <2>4. /\ sessions' \in Seq(Session) /\ Len(sessions') = Len(sessions)
          /\ \A j \in DOMAIN sessions : sessions'[j].from = sessions[j].from
      BY <1>1, <2>1, RevokeMarks
    <2>5. \A j \in DOMAIN sessions' : sessions'[j].from < j
      BY <1>1, <2>4
    <2> QED
      BY <1>1, <2>1, <2>2, <2>3, <2>4, <2>5, TypedAgain DEF SomeMove
  <1>6. ASSUME NEW r \in Requests, RereadAccount(r)
        PROVE  TypeOK'
    <2>1. /\ UNCHANGED <<account, sessions, resets, now, failures, calls>>
          /\ requests[r].of \in DOMAIN sessions /\ requests[r].of \in Nat
          /\ \/ Go(r, "reopen", requests[r].of) /\ UNCHANGED origin
             \/ Answer(r) /\ origin' = [origin EXCEPT ![r] = "fresh"]
      BY <1>1, <1>6 DEF RereadAccount, TypeOK, At, Forget
    <2>2. origin' \in [Requests -> Origins]
      BY <1>0, <1>1, <2>1 DEF Origins
    <2>3. SomeMove
      <3>1. "reopen" \in Stages /\ Held("reopen", requests[r].of)
        BY <2>1 DEF Stages, Held
      <3>2. ASSUME Go(r, "reopen", requests[r].of) PROVE Moves(r, "reopen", requests[r].of)
        BY <2>1, <3>1, <3>2, GoMoves
      <3> QED
        BY <1>2, <2>1, <3>1, <3>2 DEF SomeMove
    <2> QED
      BY <1>1, <2>1, <2>2, <2>3, TypedAgain
  <1>7. ASSUME NEW r \in Requests, RevokeAll(r)
        PROVE  TypeOK'
    <2>1. EndAll /\ Answer(r) /\ UNCHANGED <<account, resets, now, failures, calls>>
      BY <1>7 DEF RevokeAll
    <2>2. SomeMove
      BY <1>2, <2>1
    <2> QED
      BY <1>1, <2>1, <2>2, EndAllEnds, TypedAgain
  <1>8. ASSUME NEW r \in Requests, EndSession(r)
        PROVE  TypeOK'
    <2>1. /\ Revoke({requests[r].of}) /\ Answer(r)
          /\ UNCHANGED <<account, resets, now, origin, failures, calls>>
      BY <1>8 DEF EndSession
    <2>2. SomeMove
      BY <1>2, <2>1
    <2>3. /\ sessions' \in Seq(Session) /\ Len(sessions') = Len(sessions)
          /\ \A i \in DOMAIN sessions : sessions'[i].from = sessions[i].from
      BY <1>1, <2>1, RevokeMarks
    <2>4. \A i \in DOMAIN sessions' : sessions'[i].from < i
      BY <1>1, <2>3
    <2> QED
      BY <1>1, <2>1, <2>2, <2>3, <2>4, TypedAgain
  <1>9. ASSUME NEW r \in Requests, InvalidateTokens(r)
        PROVE  TypeOK'
    <2>1. /\ UseUp({t \in DOMAIN resets : ResetUsable(t)})
          /\ Go(r, "issue", Len(resets))
          /\ UNCHANGED <<account, sessions, now, origin, failures, calls>>
      BY <1>9 DEF InvalidateTokens, UseUp
    <2>2. "issue" \in Stages /\ Moves(r, "issue", Len(resets))
      BY <1>1, <2>1, GoMoves DEF Stages, Held
    <2> QED
      BY <1>1, <2>1, <2>2, MarkingKeepsTokens, TypedAgain DEF SomeMove
  <1>10. ASSUME NEW r \in Requests, IssueToken(r)
         PROVE  TypeOK'
    <2> DEFINE token == [issued |-> now, used |-> FALSE, supersedes |-> requests[r].of]
    <2>1. /\ resets' = Append(resets, token) /\ Answer(r)
          /\ UNCHANGED <<account, sessions, now, origin, failures, calls>>
      BY <1>10 DEF IssueToken
    <2>2. requests[r].of \in Nat
      BY <1>10 DEF TypeOK, IssueToken, At, Idle
    <2>3. token \in ResetToken
      BY <1>1, <2>2 DEF ResetToken
    <2> HIDE DEF token
    <2>4. resets' \in Seq(ResetToken) /\ Len(resets') = Len(resets) + 1
      BY <1>1, <2>1, <2>3
    <2>5. SomeMove
      BY <1>2, <2>1
    <2> QED
      BY <1>1, <2>1, <2>4, <2>5, TypedAgain
  <1>11. ASSUME NEW r \in Requests, UseToken(r)
         PROVE  TypeOK'
    <2>1. /\ EndAll /\ Answer(r) /\ UNCHANGED <<account, now, failures, calls>>
          /\ UseUp({requests[r].of})
      BY <1>11 DEF UseToken, UseUp
    <2>2. SomeMove
      BY <1>2, <2>1
    <2>3. resets' \in Seq(ResetToken) /\ Len(resets') = Len(resets)
      BY <2>1, MarkingKeepsTokens
    <2> QED
      BY <1>1, <2>1, <2>2, <2>3, EndAllEnds, TypedAgain
  <1>12. ASSUME NEW r \in Requests, UpdateAccount(r)
         PROVE  TypeOK'
    <2>1. Answer(r) /\ UNCHANGED <<sessions, resets, now, origin, failures, calls>>
      BY <1>12 DEF UpdateAccount
    <2>2. \/ account' = [account EXCEPT !.active = TRUE]
          \/ account' = [account EXCEPT !.active = FALSE]
          \/ account' = [active |-> FALSE, deleted |-> TRUE]
      BY <1>12 DEF UpdateAccount
    <2>3. account' \in [active : BOOLEAN, deleted : BOOLEAN]
      <3>1. account \in [active : BOOLEAN, deleted : BOOLEAN]
        BY <1>1
      <3>2. CASE account' = [account EXCEPT !.active = TRUE]
        BY <3>1, <3>2, Zenon
      <3>3. CASE account' = [account EXCEPT !.active = FALSE]
        BY <3>1, <3>3, Zenon
      <3>4. CASE account' = [active |-> FALSE, deleted |-> TRUE]
        BY <3>4
      <3> QED
        BY <2>2, <3>2, <3>3, <3>4
    <2>4. SomeMove
      BY <1>2, <2>1
    <2> QED
      BY <1>1, <2>1, <2>3, <2>4, TypedAgain
  <1>13. ASSUME NEW r \in Requests, Fail(r)
         PROVE  TypeOK'
    <2>1. /\ Answer(r) /\ origin' = [origin EXCEPT ![r] = "fresh"]
          /\ UNCHANGED <<account, sessions, resets, now, calls>>
      BY <1>13 DEF Fail, Forget
    <2>2. failures' \in Nat
      BY <1>1, <1>13 DEF Fail
    <2>3. origin' \in [Requests -> Origins]
      BY <1>0, <2>1 DEF Origins
    <2>4. SomeMove
      BY <1>2, <2>1
    <2> QED
      BY <1>1, <2>1, <2>2, <2>3, <2>4, TypedAgain
  <1>14. CASE Tick
    <2>1. now' \in Nat
      BY <1>1, <1>14 DEF Tick
    <2>2. UNCHANGED <<account, sessions, resets, requests, origin, calls, failures>>
      BY <1>14 DEF Tick
    <2> QED
      BY <1>1, <2>1, <2>2, TypedAgain
  <1>15. CASE UNCHANGED vars
    BY <1>1, <1>15, TypedAgain DEF vars
  <1> QED
    BY <1>3, <1>4, <1>5, <1>6, <1>7, <1>8, <1>9, <1>10, <1>11, <1>12, <1>13, <1>14, <1>15
       DEF Next, Step

(* Types hold for any number of requests and any lifetimes.                *)
THEOREM SessionsTypeCorrect == Spec => []TypeOK
  BY InitTypeOK, NextTypeOK, PTL DEF Spec

(***************************************************************************)
(* Superseded reset links stay useless.                                    *)
(***************************************************************************)

(* The tokens that a token supersedes, or that one being issued will, are  *)
(* there and useless.                                                      *)
SupersededAreUseless ==
  /\ \A t \in DOMAIN resets :
       resets[t].supersedes <= Len(resets)
         /\ \A s \in 1..resets[t].supersedes : ~ResetUsable(s)
  /\ \A r \in Requests : At(r, "issue") =>
       requests[r].of <= Len(resets) /\ \A s \in 1..requests[r].of : ~ResetUsable(s)

(* What any step does to the reset tokens and to the requests that issue   *)
(* them.                                                                   *)
LEMMA TokensStep ==
  ASSUME TypeOK, [Next]_vars
  PROVE  \/ /\ UNCHANGED resets
            /\ \A x \in Requests : At(x, "issue")' => requests'[x] = requests[x]
         \/ \E r \in Requests :
              /\ At(r, "issue")
              /\ resets' = Append(resets, [issued |-> now, used |-> FALSE,
                                           supersedes |-> requests[r].of])
              /\ \A x \in Requests : At(x, "issue")' => requests'[x] = requests[x]
         \/ /\ \E t : UseUp({t})
            /\ \A x \in Requests : At(x, "issue")' => requests'[x] = requests[x]
         \/ \E r \in Requests :
              /\ UseUp({t \in DOMAIN resets : ResetUsable(t)})
              /\ requests'[r].of = Len(resets) /\ UNCHANGED now
              /\ \A x \in Requests \ {r} : requests'[x] = requests[x]
  <1>1. ASSUME NEW r \in Requests, Answer(r)
        PROVE  \A x \in Requests : At(x, "issue")' => requests'[x] = requests[x]
    BY <1>1, AnswerMoves DEF Moves, At
  <1>2. ASSUME NEW r \in Requests, Call(r)
        PROVE  /\ UNCHANGED resets
               /\ \A x \in Requests : At(x, "issue")' => requests'[x] = requests[x]
    <2>1. CASE LogoutEverywhere(r)
      BY <2>1 DEF LogoutEverywhere, At
    <2>2. CASE ~LogoutEverywhere(r)
      <3>1. PICK stage \in Stages \ {"issue", "reread", "reopen"}, of \in Nat : Moves(r, stage, of)
        BY <1>2, <2>2, CallOnlyReads
      <3> QED
        BY <1>2, <2>2, <3>1, CallOnlyReads DEF Moves, At, kept
    <2> QED
      BY <2>1, <2>2
  <1>3. ASSUME NEW r \in Requests,
               \/ OpenSession(r) \/ RevokeAll(r) \/ EndSession(r)
               \/ UpdateAccount(r) \/ Fail(r)
        PROVE  UNCHANGED resets /\ Answer(r)
    BY <1>3 DEF OpenSession, RevokeAll, EndSession, UpdateAccount, Fail
  <1>4. ASSUME NEW r \in Requests, RotateSession(r) \/ RereadAccount(r)
        PROVE  /\ UNCHANGED resets
               /\ \A x \in Requests : At(x, "issue")' => requests'[x] = requests[x]
    <2>1. \/ Answer(r)
          \/ \E of : requests' = [requests EXCEPT ![r] = [stage |-> "reread", of |-> of]]
          \/ \E of : requests' = [requests EXCEPT ![r] = [stage |-> "reopen", of |-> of]]
      BY <1>4 DEF RotateSession, RereadAccount, Go
    <2>2. requests \in [Requests -> {Idle} \cup Busy]
      BY DEF TypeOK, Busy
    <2>3. \A x \in Requests : At(x, "issue")' => requests'[x] = requests[x]
      BY <1>1, <2>1, <2>2 DEF At
    <2> QED
      BY <1>4, <2>3 DEF RotateSession, RereadAccount
  <1>5. ASSUME NEW r \in Requests, InvalidateTokens(r)
        PROVE  /\ UseUp({t \in DOMAIN resets : ResetUsable(t)})
               /\ requests'[r].of = Len(resets) /\ UNCHANGED now
               /\ \A x \in Requests \ {r} : requests'[x] = requests[x]
    <2>1. UseUp({t \in DOMAIN resets : ResetUsable(t)})
      BY <1>5 DEF InvalidateTokens, UseUp
    <2>2. requests \in [Requests -> {Idle} \cup Busy]
      BY DEF TypeOK, Busy
    <2> QED
      BY <1>5, <2>1, <2>2 DEF InvalidateTokens, Go
  <1>6. ASSUME NEW r \in Requests, UseToken(r)
        PROVE  UseUp({requests[r].of}) /\ Answer(r)
    BY <1>6 DEF UseToken, UseUp
  <1>7. ASSUME NEW r \in Requests, IssueToken(r)
        PROVE  /\ At(r, "issue") /\ Answer(r)
               /\ resets' = Append(resets, [issued |-> now, used |-> FALSE,
                                            supersedes |-> requests[r].of])
    BY <1>7 DEF IssueToken
  <1>8. CASE Tick \/ UNCHANGED vars
    BY <1>8 DEF Tick, vars, At
  <1> QED
    BY <1>1, <1>2, <1>3, <1>4, <1>5, <1>6, <1>7, <1>8 DEF Next, Step
(* The clock never goes back.                                              *)
LEMMA ClockAdvances ==
  ASSUME TypeOK, [Next]_vars
  PROVE  now \in Nat /\ now' \in Nat /\ now' >= now
  <1>1. now \in Nat
    BY DEF TypeOK
  <1>2. ASSUME NEW r \in Requests, Call(r)
        PROVE  UNCHANGED now
    BY <1>2, CallOnlyReads DEF kept, LogoutEverywhere
  <1>3. ASSUME NEW r \in Requests, Step(r) \/ Fail(r)
        PROVE  UNCHANGED now
    BY <1>3 DEF Step, Fail, OpenSession, RotateSession, RereadAccount, RevokeAll,
                EndSession, InvalidateTokens, IssueToken, UseToken, UpdateAccount
  <1> QED
    BY <1>1, <1>2, <1>3 DEF Next, Tick, vars

(* The tokens there are after a step, and that a useless one stays so.     *)
LEMMA UselessStays ==
  ASSUME TypeOK, [Next]_vars
  PROVE  /\ Len(resets) \in Nat /\ DOMAIN resets = 1..Len(resets)
         /\ Len(resets') \in Nat /\ Len(resets') >= Len(resets)
         /\ \A s \in DOMAIN resets :
              /\ resets'[s].supersedes = resets[s].supersedes
              /\ ~ResetUsable(s) => ~ResetUsable(s)'
  <1>1. /\ resets \in Seq(ResetToken) /\ Len(resets) \in Nat
        /\ DOMAIN resets = 1..Len(resets)
        /\ \A s \in DOMAIN resets : resets[s] \in ResetToken
    BY DEF TypeOK
  <1>2. now \in Nat /\ now' \in Nat /\ now' >= now /\ ResetLife \in Nat
    BY ClockAdvances, SessionsAssumption
  <1>3. ASSUME NEW s \in DOMAIN resets,
               resets'[s].issued = resets[s].issued, resets[s].used => resets'[s].used,
               ~ResetUsable(s)
        PROVE  ~ResetUsable(s)'
    BY <1>1, <1>2, <1>3 DEF ResetUsable, ResetToken
  <1>4. CASE UNCHANGED resets
    BY <1>1, <1>3, <1>4
  <1>5. ASSUME NEW S, UseUp(S)
        PROVE  /\ Len(resets') = Len(resets)
               /\ \A s \in DOMAIN resets :
                    /\ resets'[s].issued = resets[s].issued
                    /\ resets[s].used => resets'[s].used
                    /\ resets'[s].supersedes = resets[s].supersedes
    BY <1>5, MarkingKeepsTokens
  <1>6. ASSUME NEW token, resets' = Append(resets, token)
        PROVE  /\ Len(resets') = Len(resets) + 1
               /\ \A s \in DOMAIN resets : resets'[s] = resets[s]
    BY <1>1, <1>6
  <1>7. /\ Len(resets') = Len(resets) \/ Len(resets') = Len(resets) + 1
        /\ \A s \in DOMAIN resets :
             /\ resets'[s].issued = resets[s].issued
             /\ resets[s].used => resets'[s].used
             /\ resets'[s].supersedes = resets[s].supersedes
    BY <1>4, <1>5, <1>6, TokensStep
  <1>8. Len(resets') \in Nat /\ Len(resets') >= Len(resets)
    BY <1>1, <1>7
  <1> QED
    BY <1>1, <1>3, <1>7, <1>8

(* One step, from wherever requests for new links have got to.             *)
LEMMA SupersededStep ==
  TypeOK /\ SupersededAreUseless /\ [Next]_vars => SupersededAreUseless'
  <1> SUFFICES ASSUME TypeOK, SupersededAreUseless, [Next]_vars
               PROVE  SupersededAreUseless'
    OBVIOUS
  <1>1. /\ Len(resets) \in Nat /\ DOMAIN resets = 1..Len(resets)
        /\ Len(resets') \in Nat /\ Len(resets') >= Len(resets)
        /\ \A s \in DOMAIN resets :
             /\ resets'[s].supersedes = resets[s].supersedes
             /\ ~ResetUsable(s) => ~ResetUsable(s)'
    BY UselessStays
  <1>2. /\ \A t \in DOMAIN resets : resets[t] \in ResetToken
        /\ \A r \in Requests : At(r, "issue") => requests[r].of \in Nat
    BY DEF TypeOK, At, Idle
  <1>3. ASSUME NEW n \in Nat, n <= Len(resets), \A s \in 1..n : ~ResetUsable(s)
        PROVE  n <= Len(resets') /\ \A s \in 1..n : ~ResetUsable(s)'
    BY <1>1, <1>3
  <1>4. ASSUME NEW t \in DOMAIN resets
        PROVE  /\ resets'[t].supersedes <= Len(resets')
               /\ \A s \in 1..resets'[t].supersedes : ~ResetUsable(s)'
    <2>1. /\ resets[t].supersedes \in Nat /\ resets[t].supersedes <= Len(resets)
          /\ \A s \in 1..resets[t].supersedes : ~ResetUsable(s)
      BY <1>2 DEF SupersededAreUseless, ResetToken
    <2> QED
      BY <1>1, <1>3, <2>1
  <1>5. ASSUME NEW x \in Requests, At(x, "issue")', requests'[x] = requests[x]
        PROVE  /\ requests'[x].of <= Len(resets')
               /\ \A s \in 1..requests'[x].of : ~ResetUsable(s)'
    <2>1. /\ requests[x].of \in Nat /\ requests[x].of <= Len(resets)
          /\ \A s \in 1..requests[x].of : ~ResetUsable(s)
      BY <1>2, <1>5 DEF SupersededAreUseless, At
    <2> QED
      BY <1>3, <1>5, <2>1
  <1>6. CASE /\ DOMAIN resets' = DOMAIN resets
             /\ \A x \in Requests : At(x, "issue")' => requests'[x] = requests[x]
    BY <1>4, <1>5, <1>6 DEF SupersededAreUseless
  <1>7. ASSUME NEW r \in Requests, At(r, "issue"),
               resets' = Append(resets, [issued |-> now, used |-> FALSE,
                                         supersedes |-> requests[r].of]),
               \A x \in Requests : At(x, "issue")' => requests'[x] = requests[x]
        PROVE  SupersededAreUseless'
    <2> DEFINE n == requests[r].of
    <2>1. n \in Nat /\ n <= Len(resets) /\ \A s \in 1..n : ~ResetUsable(s)
      BY <1>2, <1>7 DEF SupersededAreUseless
    <2>2. resets'[Len(resets) + 1].supersedes = n /\ DOMAIN resets' = 1..(Len(resets) + 1)
      BY <1>7 DEF TypeOK
    <2>3. n <= Len(resets') /\ \A s \in 1..n : ~ResetUsable(s)'
      BY <1>3, <2>1
    <2>4. ASSUME NEW t \in DOMAIN resets'
          PROVE  /\ resets'[t].supersedes <= Len(resets')
                 /\ \A s \in 1..resets'[t].supersedes : ~ResetUsable(s)'
      <3>1. CASE t \in DOMAIN resets
        BY <1>4, <3>1
      <3>2. CASE t = Len(resets) + 1
        BY <2>2, <2>3, <3>2
      <3> QED
        BY <1>1, <2>2, <3>1, <3>2
    <2> QED
      BY <1>5, <1>7, <2>4 DEF SupersededAreUseless
  <1>8. ASSUME NEW S, UseUp(S)
        PROVE  DOMAIN resets' = DOMAIN resets
    BY <1>8 DEF UseUp
  <1>9. ASSUME NEW r \in Requests,
               UseUp({t \in DOMAIN resets : ResetUsable(t)}),
               requests'[r].of = Len(resets), UNCHANGED now,
               \A x \in Requests \ {r} : requests'[x] = requests[x]
        PROVE  SupersededAreUseless'
    <2>1. \A s \in 1..Len(resets) : ~ResetUsable(s)'
      <3> DEFINE S == {t \in DOMAIN resets : ResetUsable(t)}
      <3>1. UseUp(S)
        BY <1>9
      <3>2. \A t \in DOMAIN resets : ResetUsable(t) => t \in S
        OBVIOUS
      <3> HIDE DEF S
      <3>3. \A t \in DOMAIN resets : t \in S => resets'[t].used
        BY <3>1, MarkingKeepsTokens
      <3> QED
        BY <1>1, <3>2, <3>3 DEF ResetUsable
    <2>2. \A x \in Requests : At(x, "issue")' =>
            requests'[x].of <= Len(resets') /\ \A s \in 1..requests'[x].of : ~ResetUsable(s)'
      BY <1>1, <1>5, <1>9, <2>1
    <2> QED
      BY <1>4, <1>8, <1>9, <2>2 DEF SupersededAreUseless
  <1> QED
    BY <1>6, <1>7, <1>8, <1>9, TokensStep

(* No link was issued yet.                                                 *)
LEMMA InitSuperseded == Init => SupersededAreUseless
  BY DEF Init, SupersededAreUseless, At, Idle

(* A reset link makes the links useless that were there when its request   *)
(* invalidated them, however requests for links and resets overlap.        *)
THEOREM NewLinksSupersede == Spec => []NewLinkSupersedes
  <1>1. SupersededAreUseless => NewLinkSupersedes
    BY DEF SupersededAreUseless, NewLinkSupersedes
  <1> QED
    BY <1>1, InitSuperseded, SupersededStep, SessionsTypeCorrect, PTL DEF Spec

(***************************************************************************)
(* What was ended stays ended, and nothing comes of it.                    *)
(***************************************************************************)

(* No request that may open a session has found one that was ended.        *)
Provenance == EndedForGood /\ \A r \in Requests : origin[r] # "ended"

(* Where the sessions stay, and a request forgets where its own would come *)
(* from at most.                                                           *)
LEMMA ProvenanceKept ==
  ASSUME TypeOK, Provenance, NEW r \in Requests, UNCHANGED sessions,
         UNCHANGED origin \/ Forget(r)
  PROVE  Provenance'
  BY DEF TypeOK, Provenance, EndedForGood, Forget

(* Ending all sessions leaves none of them unrevoked.                      *)
LEMMA EndAllProvenance ==
  ASSUME TypeOK, Provenance, EndAll
  PROVE  Provenance'
  <1>1. /\ DOMAIN sessions' = DOMAIN sessions
        /\ \A i \in DOMAIN sessions : sessions'[i].revoked
    BY EndAllEnds
  <1>2. \A r \in Requests : origin'[r] # "ended"
    BY DEF EndAll, Provenance
  <1> QED
    BY <1>1, <1>2 DEF Provenance, EndedForGood

(* Every statement keeps the provenance of sessions.                       *)
LEMMA NextProvenance == TypeOK /\ Provenance /\ [Next]_vars => Provenance'
  <1> SUFFICES ASSUME TypeOK, Provenance, [Next]_vars PROVE Provenance'
    OBVIOUS
  <1>1. ASSUME NEW r \in Requests, Call(r)
        PROVE  Provenance'
    <2>1. CASE LogoutEverywhere(r)
      BY <2>1, EndAllProvenance DEF LogoutEverywhere
    <2>2. CASE ~LogoutEverywhere(r)
      <3>1. UNCHANGED sessions
        BY <1>1, <2>2, CallOnlyReads DEF kept
      <3>2. \/ UNCHANGED origin
            \/ \E i \in Unrevoked : origin' = [origin EXCEPT ![r] = sessions[i].origin]
        BY <1>1, <2>2, CallOnlyReads
      <3>3. ASSUME NEW i \in Unrevoked PROVE sessions[i].origin # "ended"
        BY <3>3 DEF Provenance, EndedForGood, Unrevoked
      <3>4. \A x \in Requests : origin'[x] # "ended"
        BY <3>2, <3>3 DEF Provenance, TypeOK
      <3> QED
        BY <3>1, <3>4 DEF Provenance, EndedForGood
    <2> QED
      BY <2>1, <2>2
  <1>2. ASSUME NEW r \in Requests, OpenSession(r)
        PROVE  Provenance'
    <2>1. sessions' = Append(sessions, NewSession(r)) /\ Forget(r)
      BY <1>2 DEF OpenSession
    <2>2. /\ DOMAIN sessions' = DOMAIN sessions \cup {Len(sessions) + 1}
          /\ \A i \in DOMAIN sessions : sessions'[i] = sessions[i]
          /\ sessions'[Len(sessions) + 1] = NewSession(r)
      BY <2>1, OpenAdds
    <2>3. NewSession(r).origin # "ended"
      BY DEF NewSession, Provenance
    <2>4. EndedForGood'
      BY <2>2, <2>3 DEF Provenance, EndedForGood
    <2>5. \A x \in Requests : origin'[x] # "ended"
      BY <2>1 DEF Forget, Provenance, TypeOK
    <2> QED
      BY <2>4, <2>5 DEF Provenance
  <1>3. ASSUME NEW r \in Requests, RotateSession(r) \/ EndSession(r)
        PROVE  Provenance'
    <2>1. Revoke({requests[r].of}) /\ UNCHANGED origin
      BY <1>3 DEF RotateSession, EndSession
    <2>2. \A i \in DOMAIN sessions : /\ sessions[i].revoked => sessions'[i].revoked
                                     /\ sessions'[i].origin = sessions[i].origin
      BY <2>1, RevokeMarks
    <2>3. DOMAIN sessions' = DOMAIN sessions
      BY <2>1 DEF Revoke
    <2> QED
      BY <2>1, <2>2, <2>3 DEF Provenance, EndedForGood
  <1>4. ASSUME NEW r \in Requests, RevokeAll(r) \/ UseToken(r)
        PROVE  Provenance'
    BY <1>4, EndAllProvenance DEF RevokeAll, UseToken
  <1>5. ASSUME NEW r \in Requests,
               \/ RereadAccount(r) \/ InvalidateTokens(r) \/ IssueToken(r)
               \/ UpdateAccount(r) \/ Fail(r)
        PROVE  Provenance'
    <2>1. UNCHANGED sessions /\ (UNCHANGED origin \/ Forget(r))
      BY <1>5 DEF RereadAccount, InvalidateTokens, IssueToken, UpdateAccount, Fail
    <2> QED
      BY <2>1, ProvenanceKept
  <1>6. CASE Tick \/ UNCHANGED vars
    BY <1>6 DEF Tick, vars, Provenance, EndedForGood
  <1> QED
    BY <1>1, <1>2, <1>3, <1>4, <1>5, <1>6 DEF Next, Step

(* At the start no session was ended.                                      *)
LEMMA InitProvenance == Init => Provenance
  BY DEF Init, Provenance, EndedForGood

(* When a password is reset, a user logs out everywhere or a token fits no *)
(* session, the sessions there are end for good, and no refresh begun      *)
(* later makes a new one of them, for any number of requests: what is      *)
(* unrevoked then comes from a later login, or from a login or refresh     *)
(* that was under way in that very moment.                                 *)
THEOREM EndedSessionsStayEnded == Spec => []EndedForGood
  <1>1. Provenance => EndedForGood
    BY DEF Provenance
  <1> QED
    BY <1>1, InitProvenance, NextProvenance, SessionsTypeCorrect, PTL DEF Spec

(***************************************************************************)
(* Rotation.                                                               *)
(***************************************************************************)

(* What the rotation of one session promises.                              *)
Fits(i) ==
  /\ ~sessions[i].revoked => Replacements(i) = {} /\ \A r \in Replacing(i) : At(r, "rotate")
  /\ Cardinality(Replacements(i)) + Cardinality(Replacing(i)) <= Cardinality(Requests)

(* Both can be counted.                                                    *)
LEMMA FiniteReplacing ==
  ASSUME TypeOK, IsFiniteSet(Requests), NEW i
  PROVE  /\ IsFiniteSet(Replacements(i)) /\ Cardinality(Replacements(i)) \in Nat
         /\ IsFiniteSet(Replacing(i)) /\ Cardinality(Replacing(i)) \in Nat
         /\ Cardinality(Replacing(i)) <= Cardinality(Requests)
         /\ Cardinality(Requests) \in Nat
  <1>1. Len(sessions) \in Nat /\ DOMAIN sessions = 1..Len(sessions)
    BY DEF TypeOK
  <1>2. IsFiniteSet(1..Len(sessions))
    BY <1>1, FS_Interval
  <1>3. Replacements(i) \subseteq 1..Len(sessions) /\ Replacing(i) \subseteq Requests
    BY <1>1 DEF Replacements, Replacing
  <1>4. IsFiniteSet(Replacements(i)) /\ IsFiniteSet(Replacing(i))
    BY <1>2, <1>3, FS_Subset
  <1>5. Cardinality(Replacing(i)) <= Cardinality(Requests)
    BY <1>3, FS_Subset
  <1> QED
    BY <1>4, <1>5, FS_CardinalityType

(* The requests that replace session i, after one of all has moved.        *)
LEMMA ReplacingMoves ==
  ASSUME NEW i, NEW r \in Requests, NEW stage, NEW of, Moves(r, stage, of)
  PROVE  /\ \A x \in Replacing(i)' \ {r} : x \in Replacing(i) /\ requests'[x] = requests[x]
         /\ \A x \in Replacing(i) \ {r} : x \in Replacing(i)'
         /\ r \in Replacing(i)' <=> stage \in {"rotate", "reread", "reopen"} /\ of = i
         /\ Replacing(i)' \subseteq Requests
  BY DEF Moves, Replacing

(* A request that has answered replaces nothing any more.                  *)
LEMMA ReplacingAnswers ==
  ASSUME TypeOK, NEW i, NEW r \in Requests, Answer(r)
  PROVE  /\ Replacing(i)' = Replacing(i) \ {r}
         /\ \A x \in Replacing(i)' : requests'[x] = requests[x]
  <1>1. Moves(r, "idle", 0)
    BY AnswerMoves
  <1>2. r \notin Replacing(i)'
    BY <1>1, ReplacingMoves
  <1>3. /\ \A x \in Replacing(i)' \ {r} : x \in Replacing(i) /\ requests'[x] = requests[x]
        /\ \A x \in Replacing(i) \ {r} : x \in Replacing(i)'
    BY <1>1, ReplacingMoves
  <1> QED
    BY <1>2, <1>3

(* Where a session has no new replacement and no new request replacing it, *)
(* and is revoked if one of these has moved, the promise is kept.          *)
LEMMA FitsStill ==
  ASSUME TypeOK, IsFiniteSet(Requests), NEW i, Fits(i),
         Replacements(i)' = Replacements(i), Replacing(i)' \subseteq Replacing(i),
         sessions[i].revoked => sessions'[i].revoked,
         sessions'[i].revoked \/ \A x \in Replacing(i)' : requests'[x] = requests[x]
  PROVE  Fits(i)'
  <1>1. /\ IsFiniteSet(Replacing(i)) /\ Cardinality(Replacing(i)) \in Nat
        /\ Cardinality(Replacements(i)) \in Nat /\ Cardinality(Requests) \in Nat
    BY FiniteReplacing
  <1>2. Cardinality(Replacing(i)') \in Nat /\ Cardinality(Replacing(i)') <= Cardinality(Replacing(i))
    BY <1>1, FS_Subset, FS_CardinalityType
  <1>3. Cardinality(Replacements(i)') + Cardinality(Replacing(i)') <= Cardinality(Requests)
    BY <1>1, <1>2 DEF Fits
  <1>4. ASSUME ~sessions'[i].revoked
        PROVE  Replacements(i)' = {} /\ \A x \in Replacing(i)' : At(x, "rotate")'
    BY <1>4 DEF Fits, At
  <1> QED
    BY <1>3, <1>4 DEF Fits

(* A step that leaves the sessions alone, and moves a request that holds   *)
(* none, or one that is revoked, to where it holds none but that.          *)
LEMMA FitsMoved ==
  ASSUME TypeOK, IsFiniteSet(Requests), NEW i, Fits(i), UNCHANGED sessions,
         NEW r \in Requests, NEW stage, NEW of, Moves(r, stage, of),
         stage \in {"rotate", "reread", "reopen"} /\ of = i => r \in Replacing(i) /\ sessions[i].revoked
  PROVE  Fits(i)'
  <1>1. Replacements(i)' = Replacements(i)
    BY DEF Replacements
  <1>2. Replacing(i)' \subseteq Replacing(i)
    BY ReplacingMoves
  <1>3. sessions'[i].revoked \/ \A x \in Replacing(i)' : requests'[x] = requests[x]
    BY ReplacingMoves
  <1> QED
    BY <1>1, <1>2, <1>3, FitsStill

(* A revoked session stays so, whichever is revoked next.                  *)
LEMMA RevokeKeepsReplacements ==
  ASSUME TypeOK, NEW S, NEW i \in DOMAIN sessions, Revoke(S)
  PROVE  /\ DOMAIN sessions' = DOMAIN sessions
         /\ Replacements(i)' = Replacements(i)
         /\ sessions[i].revoked => sessions'[i].revoked
         /\ i \in S => sessions'[i].revoked
  <1>1. DOMAIN sessions' = DOMAIN sessions
    BY DEF Revoke
  <1>2. \A j \in DOMAIN sessions :
          /\ sessions'[j].revoked = (sessions[j].revoked \/ j \in S)
          /\ sessions'[j].from = sessions[j].from
    BY RevokeMarks
  <1>3. Replacements(i)' = Replacements(i)
    BY <1>1, <1>2 DEF Replacements
  <1>4. sessions[i].revoked \/ i \in S => sessions'[i].revoked
    BY <1>2
  <1> QED
    BY <1>1, <1>3, <1>4

(* Where all sessions end, each is revoked, and nothing replaces it newly. *)
LEMMA FitsAfterEndAll ==
  ASSUME TypeOK, IsFiniteSet(Requests), NEW i \in DOMAIN sessions, Fits(i), EndAll,
         UNCHANGED requests \/ \E r \in Requests : Answer(r)
  PROVE  Fits(i)'
  <1>1. /\ DOMAIN sessions' = DOMAIN sessions /\ sessions'[i].revoked
        /\ \A j \in DOMAIN sessions : sessions'[j].from = sessions[j].from
    BY EndAllEnds
  <1>2. Replacements(i)' = Replacements(i)
    BY <1>1 DEF Replacements
  <1>3. Replacing(i)' \subseteq Replacing(i)
    <2>1. CASE UNCHANGED requests
      BY <2>1 DEF Replacing
    <2>2. ASSUME NEW r \in Requests, Answer(r)
          PROVE  Replacing(i)' \subseteq Replacing(i)
      BY <2>2, ReplacingAnswers
    <2> QED
      BY <2>1, <2>2
  <1> QED
    BY <1>1, <1>2, <1>3, FitsStill

(* A session opened: a replacement of its own, for the request that opened *)
(* it, and nothing for any other session. Nobody replaces it yet.          *)
LEMMA FitsOpened ==
  ASSUME TypeOK, TypeOK', IsFiniteSet(Requests), RotationReplaces,
         NEW r \in Requests, OpenSession(r), NEW i \in DOMAIN sessions'
  PROVE  Fits(i)'
  <1> DEFINE n == Len(sessions) + 1
  <1>1. /\ DOMAIN sessions' = DOMAIN sessions \cup {n} /\ n \notin DOMAIN sessions
        /\ \A j \in DOMAIN sessions : sessions'[j] = sessions[j]
        /\ sessions'[n] = NewSession(r)
    BY OpenAdds DEF OpenSession
  <1>2. Answer(r) /\ Moves(r, "idle", 0) /\ NewSession(r).from = requests[r].of
    BY AnswerMoves DEF OpenSession, NewSession
  <1>3. Len(sessions) \in Nat /\ DOMAIN sessions = 1..Len(sessions)
    BY DEF TypeOK
  <1> HIDE DEF n
  <1>4. CASE i \in DOMAIN sessions
    <2>1. Fits(i)
      BY <1>4 DEF RotationReplaces, Fits
    <2>2. Replacing(i)' = Replacing(i) \ {r}
      BY <1>2, ReplacingAnswers
    <2>3. sessions'[i] = sessions[i]
      BY <1>1, <1>4
    <2>4. CASE requests[r].of # i
      <3>1. Replacements(i)' = Replacements(i)
        BY <1>1, <1>2, <2>4 DEF Replacements
      <3>2. \A x \in Replacing(i)' : requests'[x] = requests[x]
        BY <1>2, ReplacingAnswers
      <3> QED
        BY <2>1, <2>2, <2>3, <3>1, <3>2, FitsStill
    <2>5. CASE requests[r].of = i
      <3>1. i # 0
        BY <1>3, <1>4
      <3>2. At(r, "reopen") /\ r \in Replacing(i)
        BY <2>5, <3>1 DEF OpenSession, TypeOK, At, Replacing
      <3>3. sessions[i].revoked
        BY <2>1, <3>2 DEF Fits, At
      <3>4. Replacements(i)' = Replacements(i) \cup {n} /\ n \notin Replacements(i)
        BY <1>1, <1>2, <2>5 DEF Replacements
      <3>5. /\ IsFiniteSet(Replacements(i)) /\ Cardinality(Replacements(i)) \in Nat
            /\ IsFiniteSet(Replacing(i)) /\ Cardinality(Replacing(i)) \in Nat
            /\ Cardinality(Requests) \in Nat
        BY FiniteReplacing
      <3>6. Cardinality(Replacements(i)') = Cardinality(Replacements(i)) + 1
        BY <3>4, <3>5, FS_AddElement
      <3>7. Cardinality(Replacing(i)') = Cardinality(Replacing(i)) - 1
        BY <2>2, <3>2, <3>5, FS_RemoveElement
      <3>8. Cardinality(Replacements(i)) + Cardinality(Replacing(i)) <= Cardinality(Requests)
        BY <2>1 DEF Fits
      <3>9. Cardinality(Replacements(i)') + Cardinality(Replacing(i)') <= Cardinality(Requests)
        BY <3>5, <3>6, <3>7, <3>8
      <3> QED
        BY <2>3, <3>3, <3>9 DEF Fits
    <2> QED
      BY <2>4, <2>5
  <1>5. CASE i = n
    <2>1. Replacements(i)' = {}
      <3>1. ASSUME NEW j \in DOMAIN sessions', sessions'[j].from = i
            PROVE  FALSE
        <4>1. sessions'[j].from < j /\ sessions'[j].from \in Nat
          <5>1. sessions' \in Seq(Session) /\ sessions'[j].from < j
            BY <3>1 DEF TypeOK
          <5>2. sessions'[j] \in Session
            BY <3>1, <5>1
          <5> QED
            BY <5>1, <5>2 DEF Session
        <4>2. j \in Nat /\ j <= Len(sessions) + 1
          BY <1>1, <1>3, <3>1 DEF n
        <4> QED
          BY <1>3, <1>5, <3>1, <4>1, <4>2 DEF n
      <3> QED
        BY <3>1 DEF Replacements
    <2>2. Replacing(i)' = {}
      <3>1. i \notin DOMAIN sessions
        BY <1>1, <1>5
      <3>2. \A x \in Replacing(i) : requests[x].of \in DOMAIN sessions
        BY DEF Replacing, TypeOK
      <3>3. Replacing(i) = {}
        BY <3>1, <3>2 DEF Replacing
      <3> QED
        BY <1>2, <3>3, ReplacingAnswers
    <2>3. Cardinality(Replacements(i)') = 0 /\ Cardinality(Replacing(i)') = 0
      BY <2>1, <2>2, FS_EmptySet
    <2>4. Cardinality(Requests) \in Nat
      BY FS_CardinalityType
    <2> QED
      BY <2>1, <2>2, <2>3, <2>4 DEF Fits
  <1> QED
    BY <1>1, <1>4, <1>5

(* Every statement keeps what rotation promises of each session.           *)
LEMMA NextRotation ==
  ASSUME IsFiniteSet(Requests)
  PROVE  TypeOK /\ TypeOK' /\ RotationReplaces /\ [Next]_vars => RotationReplaces'
  <1> SUFFICES ASSUME TypeOK, TypeOK', RotationReplaces, [Next]_vars, NEW i \in DOMAIN sessions'
               PROVE  Fits(i)'
    BY DEF RotationReplaces, Fits
  <1>1. ASSUME i \in DOMAIN sessions PROVE Fits(i)
    BY <1>1 DEF RotationReplaces, Fits
  <1>2. ASSUME NEW r \in Requests, Call(r)
        PROVE  Fits(i)'
    <2>1. CASE LogoutEverywhere(r)
      <3>1. EndAll /\ UNCHANGED requests
        BY <2>1 DEF LogoutEverywhere
      <3>2. i \in DOMAIN sessions
        BY <3>1, EndAllEnds
      <3> QED
        BY <1>1, <3>1, <3>2, FitsAfterEndAll
    <2>2. CASE ~LogoutEverywhere(r)
      <3>1. UNCHANGED sessions /\ requests[r].stage = "idle"
        BY <1>2, <2>2, CallOnlyReads DEF kept
      <3>2. PICK stage \in Stages \ {"issue", "reread", "reopen"}, of \in Nat :
              /\ Moves(r, stage, of)
              /\ stage = "rotate" => of \in Unrevoked
        BY <1>2, <2>2, CallOnlyReads
      <3>3. Fits(i)
        BY <1>1, <3>1
      <3>4. CASE ~(stage = "rotate" /\ of = i)
        <4>1. ~(stage \in {"rotate", "reread", "reopen"} /\ of = i)
          BY <3>2, <3>4
        <4> QED
          BY <3>1, <3>2, <3>3, <4>1, FitsMoved
      <3>5. CASE stage = "rotate" /\ of = i
        <4>1. ~sessions[i].revoked
          BY <3>2, <3>5 DEF Unrevoked
        <4>2. Replacements(i) = {} /\ \A x \in Replacing(i) : At(x, "rotate")
          BY <3>3, <4>1 DEF Fits
        <4>3. Replacements(i)' = {}
          BY <3>1, <4>2 DEF Replacements
        <4>4. Cardinality(Replacements(i)') = 0
          BY <4>3, FS_EmptySet
        <4>5. \A x \in Replacing(i)' : At(x, "rotate")'
          <5>1. requests'[r].stage = "rotate"
            BY <3>2, <3>5 DEF Moves
          <5>2. ASSUME NEW x \in Replacing(i)' \ {r} PROVE At(x, "rotate")'
            <6>1. x \in Replacing(i) /\ requests'[x] = requests[x]
              BY <3>2, <5>2, ReplacingMoves
            <6> QED
              BY <4>2, <6>1 DEF At
          <5> QED
            BY <5>1, <5>2 DEF At
        <4>6. /\ Cardinality(Replacing(i)') \in Nat
              /\ Cardinality(Replacing(i)') <= Cardinality(Requests)
          <5>1. Replacing(i)' \subseteq Requests
            BY <3>2, ReplacingMoves
          <5> QED
            BY <5>1, FS_Subset, FS_CardinalityType
        <4> QED
          BY <4>3, <4>4, <4>5, <4>6 DEF Fits
      <3> QED
        BY <3>4, <3>5
    <2> QED
      BY <2>1, <2>2
  <1>3. ASSUME NEW r \in Requests, OpenSession(r)
        PROVE  Fits(i)'
    BY <1>3, FitsOpened
  <1>4. ASSUME NEW r \in Requests, RotateSession(r)
        PROVE  Fits(i)'
    <2>1. PICK j \in DOMAIN sessions : requests[r].of = j /\ Revoke({j}) /\ Go(r, "reread", j)
      BY <1>4 DEF TypeOK, RotateSession, At
    <2>2. Moves(r, "reread", j)
      <3>1. "reread" \in Stages /\ j \in Nat /\ Held("reread", j)
        <4>1. Len(sessions) \in Nat /\ DOMAIN sessions = 1..Len(sessions)
          BY DEF TypeOK
        <4> QED
          BY <2>1, <4>1 DEF Stages, Held
      <3> QED
        BY <2>1, <3>1, GoMoves
    <2>3. i \in DOMAIN sessions
      BY <2>1 DEF Revoke
    <2>4. /\ Replacements(i)' = Replacements(i)
          /\ sessions[i].revoked => sessions'[i].revoked
          /\ i = j => sessions'[i].revoked
      BY <2>1, <2>3, RevokeKeepsReplacements
    <2>5. Replacing(i)' \subseteq Replacing(i)
      <3>1. i = j => r \in Replacing(i)
        BY <1>4, <2>1 DEF RotateSession, At, Replacing
      <3> QED
        BY <2>2, <3>1, ReplacingMoves
    <2>6. i # j => \A x \in Replacing(i)' : requests'[x] = requests[x]
      <3>1. i # j => r \notin Replacing(i)'
        BY <2>2, ReplacingMoves
      <3>2. \A x \in Replacing(i)' \ {r} : requests'[x] = requests[x]
        BY <2>2, ReplacingMoves
      <3> QED
        BY <3>1, <3>2
    <2> QED
      BY <1>1, <2>3, <2>4, <2>5, <2>6, FitsStill
  <1>5. ASSUME NEW r \in Requests, EndSession(r)
        PROVE  Fits(i)'
    <2>1. Revoke({requests[r].of}) /\ Answer(r)
      BY <1>5 DEF EndSession
    <2>2. i \in DOMAIN sessions
      BY <2>1 DEF Revoke
    <2>3. Replacements(i)' = Replacements(i) /\ (sessions[i].revoked => sessions'[i].revoked)
      BY <2>1, <2>2, RevokeKeepsReplacements
    <2>4. /\ Replacing(i)' \subseteq Replacing(i)
          /\ \A x \in Replacing(i)' : requests'[x] = requests[x]
      BY <2>1, ReplacingAnswers
    <2> QED
      BY <1>1, <2>2, <2>3, <2>4, FitsStill
  <1>6. ASSUME NEW r \in Requests, RevokeAll(r) \/ UseToken(r)
        PROVE  Fits(i)'
    <2>1. EndAll /\ Answer(r)
      BY <1>6 DEF RevokeAll, UseToken
    <2>2. i \in DOMAIN sessions
      BY <2>1, EndAllEnds
    <2> QED
      BY <1>1, <2>1, <2>2, FitsAfterEndAll
  <1>7. ASSUME NEW r \in Requests, RereadAccount(r)
        PROVE  Fits(i)'
    <2>1. /\ UNCHANGED sessions /\ At(r, "reread") /\ requests[r].of \in DOMAIN sessions
          /\ Go(r, "reopen", requests[r].of) \/ Answer(r)
      BY <1>7 DEF RereadAccount, TypeOK, At
    <2>2. Fits(i)
      BY <1>1, <2>1
    <2>3. CASE Answer(r)
      BY <2>1, <2>2, <2>3, AnswerMoves, FitsMoved
    <2>4. CASE Go(r, "reopen", requests[r].of)
      <3>1. PICK j \in Nat : j = requests[r].of
        BY <2>1 DEF TypeOK
      <3>2. "reopen" \in Stages /\ Held("reopen", j)
        BY <2>1, <3>1 DEF Stages, Held
      <3>3. Moves(r, "reopen", j)
        BY <2>4, <3>1, <3>2, GoMoves
      <3>4. j = i => r \in Replacing(i) /\ sessions[i].revoked
        BY <2>1, <2>2, <3>1 DEF Replacing, At, Fits
      <3> QED
        BY <2>1, <2>2, <3>3, <3>4, FitsMoved
    <2> QED
      BY <2>1, <2>3, <2>4
  <1>8. ASSUME NEW r \in Requests, InvalidateTokens(r)
        PROVE  Fits(i)'
    <2>1. /\ UNCHANGED sessions /\ Go(r, "issue", Len(resets)) /\ Len(resets) \in Nat
      BY <1>8 DEF InvalidateTokens, TypeOK
    <2>2. PICK n \in Nat : n = Len(resets)
      BY <2>1
    <2>3. "issue" \in Stages /\ Held("issue", n)
      BY DEF Stages, Held
    <2>4. Moves(r, "issue", n)
      BY <2>1, <2>2, <2>3, GoMoves
    <2> QED
      BY <1>1, <2>1, <2>4, FitsMoved
  <1>9. ASSUME NEW r \in Requests, IssueToken(r) \/ UpdateAccount(r) \/ Fail(r)
        PROVE  Fits(i)'
    <2>1. UNCHANGED sessions /\ Answer(r)
      BY <1>9 DEF IssueToken, UpdateAccount, Fail
    <2> QED
      BY <1>1, <2>1, AnswerMoves, FitsMoved
  <1>10. CASE Tick \/ UNCHANGED vars
    <2>1. UNCHANGED <<sessions, requests>>
      BY <1>10 DEF Tick, vars
    <2> QED
      BY <1>1, <2>1 DEF Fits, Replacements, Replacing, At
  <1> QED
    BY <1>2, <1>3, <1>4, <1>5, <1>6, <1>7, <1>8, <1>9, <1>10 DEF Next, Step

(* There is no session to begin with.                                      *)
LEMMA InitRotation == Init => RotationReplaces
  BY DEF Init, RotationReplaces

(* For any number of requests, repeated, overlapping and dying where they  *)
(* like: a session is over before it is replaced, is not found again once  *)
(* it is, and has at most as many replacements as requests were at it.     *)
THEOREM SessionsAreReplaced ==
  ASSUME IsFiniteSet(Requests)
  PROVE  Spec => []RotationReplaces
  BY InitRotation, NextRotation, SessionsTypeCorrect, PTL DEF Spec
=============================================================================
