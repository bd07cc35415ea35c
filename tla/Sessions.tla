------------------------------- MODULE Sessions -----------------------------
(***************************************************************************)
(* The sessions of an account (auth.service.ts): login opens one, refresh  *)
(* rotates one, logout and a password reset end them, an administrator may *)
(* deactivate or delete the account (users.service.ts). A session row      *)
(* keeps a bcrypt hash of its refresh token; the token itself is a signed  *)
(* JWT that carries the account's id and its own expiry.                   *)
(*                                                                         *)
(* One account is modelled: every query is by the id of the account. The   *)
(* n-th session of the account has the n-th refresh token. Checking the    *)
(* password and writing lastLoginAt and the authentication log are left    *)
(* out: a refused login changes nothing else.                              *)
(***************************************************************************)
EXTENDS Integers, Sequences, FiniteSets

CONSTANTS
  Requests,     (* requests that may be handled at once                     *)
  TokenLife,    (* how long a refresh token is valid (24 hours)             *)
  SessionLife,  (* how long its session row is valid (30 days)              *)
  ResetLife,    (* how long a password reset token is valid (1 hour)        *)
  MaxTime,      (* bound: the clock                                         *)
  MaxSessions,  (* bound: sessions opened                                   *)
  MaxResets,    (* bound: reset tokens issued                               *)
  MaxCalls,     (* bound: requests made                                     *)
  MaxFailures   (* bound: requests that die                                 *)

ASSUME SessionsAssumption ==
  {TokenLife, SessionLife, ResetLife, MaxTime, MaxSessions, MaxResets, MaxCalls, MaxFailures} \subseteq Nat

VARIABLES
  account,   (* is it active, is it deleted                                 *)
  sessions,  (* in order of creation: when opened, revoked, which session   *)
             (*   it replaced (0: a login opened it), where it comes from   *)
  resets,    (* reset tokens in order of creation: when issued, used, and   *)
             (*   how many there were when its request made them invalid    *)
  requests,  (* per request: where its handler is                           *)
  now,       (* the clock                                                   *)
  origin,    (* per request: where the session it may open comes from       *)
  calls,     (* requests made                                               *)
  failures   (* requests that died                                          *)

vars == <<account, sessions, resets, requests, now, origin, calls, failures>>

(* Where a session comes from, last all of them were ended: from a login   *)
(* begun since; from a login or refresh that was under way just then; or   *)
(* it was there itself, or goes back to one that was.                      *)
Origins == {"fresh", "late", "ended"}

Session    == [opened : Nat, revoked : BOOLEAN, from : Nat, origin : Origins]
ResetToken == [issued : Nat, used : BOOLEAN, supersedes : Nat]

Idle   == [stage |-> "idle", of |-> 0]
Stages == {"open", "reread", "rotate", "reopen", "revoke all", "logout",
           "forgot", "issue", "reset", "activate", "deactivate", "delete"}

TypeOK ==
  /\ account \in [active : BOOLEAN, deleted : BOOLEAN]
  /\ sessions \in Seq(Session)
  /\ resets \in Seq(ResetToken)
  /\ requests \in [Requests -> {Idle} \cup [stage : Stages, of : Nat]]
  /\ now \in Nat
  /\ origin \in [Requests -> Origins]
  /\ calls \in Nat /\ failures \in Nat
  /\ \A r \in Requests :
       /\ requests[r].stage \in {"rotate", "reread", "reopen", "logout"}
            => requests[r].of \in DOMAIN sessions
       /\ requests[r].stage = "open" => requests[r].of = 0
       /\ requests[r].stage = "reset" => requests[r].of \in DOMAIN resets
  /\ \A i \in DOMAIN sessions : sessions[i].from < i

Init ==
  /\ account = [active |-> TRUE, deleted |-> FALSE]
  /\ sessions = <<>> /\ resets = <<>>
  /\ requests = [r \in Requests |-> Idle]
  /\ now = 0
  /\ origin = [r \in Requests |-> "fresh"]
  /\ calls = 0 /\ failures = 0

(* A definition named <Name>_<Change> is <Name> with a plausible mistake   *)
(* in it, to be put in its place to see that the properties notice.        *)

At(r, stage) == requests[r].stage = stage
Go(r, stage, of) == requests' = [requests EXCEPT ![r] = [stage |-> stage, of |-> of]]
Answer(r) == requests' = [requests EXCEPT ![r] = Idle]

(* Loading the account finds it fit for a session.                         *)
Usable == account.active /\ ~account.deleted

(* A refresh token is accepted by jwtService.verify.                       *)
TokenValid(i) == sessions[i].opened + TokenLife > now

(* bcrypt reads 72 bytes. The first 72 of a refresh token are the header   *)
(* of every JWT and half of the account's id, whatever session it is of.   *)
Head72(i) == "header and account"
Matches(token, i) == Head72(token) = Head72(i)

Unrevoked == {i \in DOMAIN sessions : ~sessions[i].revoked}

Live_Revoked == {i \in DOMAIN sessions : sessions[i].opened + SessionLife > now}

Live == {i \in Unrevoked : sessions[i].opened + SessionLife > now}

Revoke(S) == sessions' = [i \in DOMAIN sessions |->
                            IF i \in S THEN [sessions[i] EXCEPT !.revoked = TRUE] ELSE sessions[i]]

(* The request will open no session, or has opened it.                     *)
Forget(r) == origin' = [origin EXCEPT ![r] = "fresh"]

(* A request that may open a session yet.                                  *)
Opening(r) == requests[r].stage \in {"open", "rotate", "reread", "reopen"}

(* Ending all sessions at once.                                            *)
EndAll ==
  /\ sessions' = [i \in DOMAIN sessions |->
                    [sessions[i] EXCEPT !.revoked = TRUE, !.origin = "ended"]]
  /\ origin' = [r \in Requests |-> IF Opening(r) THEN "late" ELSE origin[r]]

(***************************************************************************)
(* login: the account is read, the password checked, a session created.    *)
(***************************************************************************)
Login(r) ==
  /\ At(r, "idle") /\ Usable
  /\ Len(sessions) < MaxSessions
  /\ Go(r, "open", 0)
  /\ UNCHANGED <<account, sessions, resets, now, origin, failures>>

NewSession(r) ==
  [opened |-> now, revoked |-> FALSE, from |-> requests[r].of, origin |-> origin[r]]

(* session.create, of a login ("open") or of a refresh ("reopen").         *)
OpenSession(r) ==
  /\ At(r, "open") \/ At(r, "reopen")
  /\ sessions' = Append(sessions, NewSession(r))
  /\ Answer(r) /\ Forget(r)
  /\ UNCHANGED <<account, resets, now, failures, calls>>

(***************************************************************************)
(* refresh: find the session, revoke it, read the account again, open a    *)
(* new session: a statement each. The token may be any the account was     *)
(* ever given: a client repeats a request whose answer it did not get.     *)
(***************************************************************************)
Refresh(r, token) ==
  LET matching == {i \in Live : Matches(token, i)} IN
  /\ At(r, "idle") /\ TokenValid(token)
  /\ \/ \E i \in matching :
          /\ Go(r, "rotate", i)
          /\ origin' = [origin EXCEPT ![r] = sessions[i].origin]
     \/ matching = {} /\ Go(r, "revoke all", 0) /\ UNCHANGED origin
  /\ UNCHANGED <<account, sessions, resets, now, failures>>

RotateSession_Kept(r) ==
  /\ At(r, "rotate")
  /\ Go(r, "reread", requests[r].of)
  /\ UNCHANGED <<account, sessions, resets, now, origin, failures, calls>>

RotateSession(r) ==
  LET i == requests[r].of IN
  /\ At(r, "rotate")
  /\ Revoke({i})
  /\ Go(r, "reread", i)
  /\ UNCHANGED <<account, resets, now, origin, failures, calls>>

(* The account must still be usable, or the session is gone.               *)
RereadAccount(r) ==
  /\ At(r, "reread")
  /\ IF Usable
       THEN Go(r, "reopen", requests[r].of) /\ UNCHANGED origin
       ELSE Answer(r) /\ Forget(r)
  /\ UNCHANGED <<account, sessions, resets, now, failures, calls>>

(* No session fits the token: it is taken for a stolen one.                *)
RevokeAll(r) ==
  /\ At(r, "revoke all")
  /\ EndAll
  /\ Answer(r)
  /\ UNCHANGED <<account, resets, now, failures, calls>>

(***************************************************************************)
(* logout, with a refresh token or of all sessions.                        *)
(***************************************************************************)
Logout(r, token) ==
  /\ At(r, "idle") /\ Usable
  /\ \E i \in Unrevoked : Matches(token, i) /\ Go(r, "logout", i)
  /\ UNCHANGED <<account, sessions, resets, now, origin, failures>>

EndSession(r) ==
  /\ At(r, "logout")
  /\ Revoke({requests[r].of})
  /\ Answer(r)
  /\ UNCHANGED <<account, resets, now, origin, failures, calls>>

LogoutEverywhere(r) ==
  /\ At(r, "idle") /\ Usable /\ Unrevoked # {}
  /\ EndAll
  /\ UNCHANGED <<account, resets, requests, now, failures>>

(***************************************************************************)
(* forgotPassword: earlier reset tokens are used up, then one is issued.   *)
(* resetPassword: find the token, then use it, in one transaction with the *)
(* password and the end of all sessions.                                   *)
(***************************************************************************)
ResetUsable(t) == ~resets[t].used /\ resets[t].issued + ResetLife > now

ForgotPassword(r) ==
  /\ At(r, "idle") /\ account.active
  /\ Len(resets) < MaxResets
  /\ Go(r, "forgot", 0)
  /\ UNCHANGED <<account, sessions, resets, now, origin, failures>>

InvalidateTokens_OldestKept(r) ==
  /\ At(r, "forgot")
  /\ resets' = [t \in DOMAIN resets |->
                  IF ResetUsable(t) /\ t # 1 THEN [resets[t] EXCEPT !.used = TRUE] ELSE resets[t]]
  /\ Go(r, "issue", Len(resets))
  /\ UNCHANGED <<account, sessions, now, origin, failures, calls>>

InvalidateTokens(r) ==
  /\ At(r, "forgot")
  /\ resets' = [t \in DOMAIN resets |->
                  IF ResetUsable(t) THEN [resets[t] EXCEPT !.used = TRUE] ELSE resets[t]]
  /\ Go(r, "issue", Len(resets))
  /\ UNCHANGED <<account, sessions, now, origin, failures, calls>>

IssueToken(r) ==
  /\ At(r, "issue")
  /\ resets' = Append(resets, [issued |-> now, used |-> FALSE, supersedes |-> requests[r].of])
  /\ Answer(r)
  /\ UNCHANGED <<account, sessions, now, origin, failures, calls>>

ResetPassword(r, t) ==
  /\ At(r, "idle") /\ account.active /\ ResetUsable(t)
  /\ Go(r, "reset", t)
  /\ UNCHANGED <<account, sessions, resets, now, origin, failures>>

UseToken(r) ==
  /\ At(r, "reset")
  /\ resets' = [resets EXCEPT ![requests[r].of].used = TRUE]
  /\ EndAll
  /\ Answer(r)
  /\ UNCHANGED <<account, now, failures, calls>>

(***************************************************************************)
(* Administrators: toggleStatus and softDelete look whether the account is *)
(* there (ensureUserExists), then update it.                               *)
(***************************************************************************)
Administer(r) ==
  /\ At(r, "idle") /\ ~account.deleted
  /\ \E change \in {"activate", "deactivate", "delete"} : Go(r, change, 0)
  /\ UNCHANGED <<account, sessions, resets, now, origin, failures>>

UpdateAccount(r) ==
  /\ \/ At(r, "activate")   /\ account' = [account EXCEPT !.active = TRUE]
     \/ At(r, "deactivate") /\ account' = [account EXCEPT !.active = FALSE]
     \/ At(r, "delete")     /\ account' = [active |-> FALSE, deleted |-> TRUE]
  /\ Answer(r)
  /\ UNCHANGED <<sessions, resets, now, origin, failures, calls>>

(***************************************************************************)
(* A request dies between two statements.                                  *)
(***************************************************************************)
Fail(r) ==
  /\ ~At(r, "idle")
  /\ failures < MaxFailures /\ failures' = failures + 1
  /\ Answer(r) /\ Forget(r)
  /\ UNCHANGED <<account, sessions, resets, now, calls>>

Tick ==
  /\ now < MaxTime /\ now' = now + 1
  /\ UNCHANGED <<account, sessions, resets, requests, origin, calls, failures>>

Step(r) ==
  \/ OpenSession(r) \/ RotateSession(r) \/ RereadAccount(r) \/ RevokeAll(r)
  \/ EndSession(r) \/ InvalidateTokens(r) \/ IssueToken(r) \/ UseToken(r) \/ UpdateAccount(r)

Call(r) ==
  /\ calls < MaxCalls /\ calls' = calls + 1
  /\ \/ Login(r) \/ LogoutEverywhere(r) \/ ForgotPassword(r) \/ Administer(r)
     \/ \E i \in DOMAIN sessions : Refresh(r, i) \/ Logout(r, i)
     \/ \E t \in DOMAIN resets : ResetPassword(r, t)

Next == Tick \/ \E r \in Requests : Call(r) \/ Step(r) \/ Fail(r)

Spec == Init /\ [][Next]_vars

(***************************************************************************)
(* Properties.                                                             *)
(***************************************************************************)

(* What was there when the password was reset, when the user logged out    *)
(* everywhere, or when a token fitted no session, is over, and nothing     *)
(* comes of it any more: no refresh begun afterwards replaces it. The      *)
(* sessions that a login or refresh opens which was under way just then,   *)
(* and what replaces those, are "late": they alone outlive the end of all. *)
EndedForGood == \A i \in DOMAIN sessions : sessions[i].origin = "ended" => sessions[i].revoked

(* "Revoke all existing sessions (force re-login)" (resetPassword): who is *)
(* still logged in has logged in since. It fails, for the late ones.       *)
LoginIsForced == \A i \in Unrevoked : sessions[i].origin = "fresh"

Replacements(i) == {j \in DOMAIN sessions : sessions[j].from = i}
Replacing(i) ==
  {r \in Requests : requests[r].stage \in {"rotate", "reread", "reopen"} /\ requests[r].of = i}

(* A refresh replaces a session: the old one is over before there is a new *)
(* one, though the request is repeated, overlaps with another of the same  *)
(* session or dies half-way; and what has been replaced is not found       *)
(* again, so that a session has at most as many replacements as there were *)
(* refreshes of it at once.                                                *)
RotationReplaces ==
  \A i \in DOMAIN sessions :
    /\ ~sessions[i].revoked => Replacements(i) = {} /\ \A r \in Replacing(i) : At(r, "rotate")
    /\ Cardinality(Replacements(i)) + Cardinality(Replacing(i)) <= Cardinality(Requests)

(* Asking for a new reset link makes every earlier one useless, except one *)
(* that was being issued at the same time.                                 *)
NewLinkSupersedes ==
  \A t \in DOMAIN resets : \A s \in 1..resets[t].supersedes : ~ResetUsable(s)

(* "Revoke only the session matching this specific refresh token"          *)
(* (logout): a logout with a token that is not of session i leaves session *)
(* i alone. It fails, for the comparison cannot tell them apart.           *)
LogoutEndsItsSession ==
  [][\A r \in Requests : \A token, i \in DOMAIN sessions :
       Logout(r, token) /\ requests'[r].of = i => i = token]_vars
=============================================================================
