----------------------------- MODULE Credentials -----------------------------
(***************************************************************************)
(* Passwords and one-time tokens of one user (system/service/auth.go, with *)
(* the password setter and the marks of user.go): requests log in, change  *)
(* and reset the password, use tokens and edit the user, all at once.      *)
(*                                                                         *)
(* None of them opens a transaction: every statement is a step.  Two       *)
(* statements write a whole row as it was read earlier (REPLACE): the      *)
(* credentials of a login, for their last use, and the user.               *)
(*                                                                         *)
(* A password is named by the number of its row.  A token has no kind: the *)
(* code finds it by its number.  Logins through a provider use rows of     *)
(* their own and are left out; so are the settings that switch the         *)
(* operations off, and scripts, which may make any request fail.           *)
(***************************************************************************)
EXTENDS Naturals, FiniteSets

CONSTANTS
  Requests,       \* concurrent requests, one at a time each
  Tokens,
  MaxPasswords,   \* bound on the password rows ever created
  None

ASSUME CredentialsAssumption ==
  /\ MaxPasswords \in Nat \ {0}
  /\ None \notin Tokens \cup (1..MaxPasswords)

Passwords == 1..MaxPasswords
RowState  == {"absent", "live", "deleted"}
User      == [confirmed : BOOLEAN, suspended : BOOLEAN, deleted : BOOLEAN]
Valid(u)  == ~u.suspended /\ ~u.deleted

VARIABLES
  password,  \* sys_credentials of kind password, by row
  token,     \* and of the token kinds
  expired,   \* tokens past their expiry
  user,      \* the row of sys_user
  step,      \* of each request, how far it has come
  use,       \* what it uses its token for, or who changes the password
  row,       \* the password or the token it has found
  seen,      \* the user it has read
  revived,   \* history: passwords brought back by a login
  crossed,   \* history: passwords created while another change was half done
  halved,    \* history: a change has deleted, and failed to create
  used,      \* history: tokens that have been accepted
  barred     \* history: requests in all whose time the user was not valid

rowVars == <<password, token, expired, user>>
reqVars == <<step, use, row, seen>>
history == <<revived, crossed, halved, used, barred>>
vars    == <<rowVars, reqVars, history>>

Steps == {"idle", "found", "matched", "updated", "issuing", "checked", "deleted",
          "tokenFound", "spent", "accepted", "editing"}
Uses  == {"none", "change", "admin", "auth", "exchange", "confirm", "reset"}

TypeOK ==
  /\ password \in [Passwords -> RowState] /\ token \in [Tokens -> RowState]
  /\ expired \subseteq Tokens
  /\ user \in User
  /\ step \in [Requests -> Steps] /\ use \in [Requests -> Uses]
  /\ row \in [Requests -> Passwords \cup Tokens \cup {None}]
  /\ \A q \in Requests : /\ step[q] \in {"matched", "updated"} => row[q] \in Passwords
                         /\ step[q] \in {"tokenFound", "spent"} => row[q] \in Tokens
  /\ seen \in [Requests -> User]
  /\ revived \cup crossed \subseteq {p \in Passwords : password[p] = "live"}
  /\ used \subseteq Tokens
  /\ halved \in BOOLEAN
  /\ barred \subseteq {q \in Requests : step[q] # "idle"}
  /\ Valid(user) => barred = {}

NewUser == [confirmed |-> FALSE, suspended |-> FALSE, deleted |-> FALSE]

Init ==
  /\ password = [p \in Passwords |-> IF p = 1 THEN "live" ELSE "absent"]
  /\ token = [t \in Tokens |-> "absent"] /\ expired = {}
  /\ user \in {NewUser, [NewUser EXCEPT !.confirmed = TRUE]}
  /\ step = [q \in Requests |-> "idle"] /\ use = [q \in Requests |-> "none"]
  /\ row = [q \in Requests |-> None] /\ seen = [q \in Requests |-> NewUser]
  /\ revived = {} /\ crossed = {} /\ halved = FALSE
  /\ used = {}
  /\ barred = {}

-----------------------------------------------------------------------------
(* Steps of a request *)

To(q, s) == step' = [step EXCEPT ![q] = s]

\* q returns.
Ends(q) ==
  /\ To(q, "idle")
  /\ use' = [use EXCEPT ![q] = "none"]
  /\ row' = [row EXCEPT ![q] = None]
  /\ seen' = [seen EXCEPT ![q] = NewUser]

Returns(q) == Ends(q) /\ barred' = barred \ {q}

\* With its last statement it has written the user.
ReturnsWritten(q) ==
  /\ Ends(q)
  /\ barred' = IF Valid(user') THEN {} ELSE barred \ {q}

\* q starts, and has come to step s with use n and row r, having read the user.
Starts(q, s, n, r) ==
  /\ step[q] = "idle"
  /\ To(q, s)
  /\ use' = [use EXCEPT ![q] = n]
  /\ row' = [row EXCEPT ![q] = r]
  /\ seen' = [seen EXCEPT ![q] = user]
  /\ barred' = IF Valid(user) THEN {} ELSE barred \cup {q}

(* Logging in *)

\* FindByEmail finds valid users only.
FindUser(q) ==
  /\ Valid(user)
  /\ Starts(q, "found", "none", None)
  /\ UNCHANGED <<rowVars, revived, crossed, halved, used>>

\* FindByKind, and the comparison with each valid row
MatchPassword(q, p) ==
  /\ step[q] = "found" /\ password[p] = "live"
  /\ To(q, "matched")
  /\ row' = [row EXCEPT ![q] = p]
  /\ UNCHANGED <<rowVars, use, seen, history>>

\* credentials.Update writes the row as it was found: not deleted.
UpdateLastUse(q) ==
  LET p == row[q]
  IN  /\ step[q] = "matched"
      /\ password' = [password EXCEPT ![p] = "live"]
      /\ revived' = IF password[p] = "deleted" THEN revived \cup {p} ELSE revived
      /\ halved' = FALSE
      /\ To(q, "updated")
      /\ UNCHANGED <<token, expired, user, use, row, seen, crossed, used,
                     barred>>

\* A confirmed user is in.  (What was read of it is valid.)
LoggedIn(q) ==
  /\ step[q] = "updated" /\ Valid(seen[q]) /\ seen[q].confirmed
  /\ Returns(q)
  /\ UNCHANGED <<rowVars, revived, crossed, halved, used>>

\* To others a token to confirm the address is sent.  (A sign-up with the email
\* and password of an existing user lets them in all the same.)
NotConfirmed(q) ==
  /\ step[q] = "updated" /\ ~seen[q].confirmed
  /\ To(q, "issuing")
  /\ UNCHANGED <<rowVars, use, row, seen, history>>

\* createUserToken, at the end of a request for one, of a login without a
\* confirmed address, or of an exchange
IssueToken(q, t) ==
  /\ step[q] \in {"found", "issuing"} \/ (step[q] = "accepted" /\ use[q] = "exchange")
  /\ token[t] = "absent"
  /\ token' = [token EXCEPT ![t] = "live"]
  /\ Returns(q)
  /\ UNCHANGED <<password, expired, user, revived, crossed, halved, used>>

-----------------------------------------------------------------------------
(* Changing the password *)

\* A fault: the old password is checked after it is deleted.
CheckAfterDelete(q, p) ==
  /\ password[p] = "live"
  /\ Starts(q, "checked", "change", None)
  /\ password' = [r \in Passwords |-> IF password[r] = "live" THEN "deleted"
                                      ELSE password[r]]
  /\ revived' = {} /\ crossed' = {}
  /\ UNCHANGED <<token, expired, user, halved, used>>

\* ChangePassword compares the old one with each valid row ...
CheckOldPassword(q, p) ==
  /\ password[p] = "live"
  /\ Starts(q, "checked", "change", None)
  /\ UNCHANGED <<rowVars, revived, crossed, halved, used>>

\* ... the service of users, who may update the user, does not.
SetByAdmin(q) ==
  /\ Starts(q, "checked", "admin", None)
  /\ UNCHANGED <<rowVars, revived, crossed, halved, used>>

\* A fault: only the row that was found first is deleted.
DeleteFirst(q) ==
  /\ step[q] = "checked"
  /\ LET live == {p \in Passwords : password[p] = "live"}
         first == {p \in live : \A r \in live : p <= r}
     IN  /\ password' = [p \in Passwords |-> IF p \in first THEN "deleted" ELSE password[p]]
         /\ revived' = revived \ first /\ crossed' = crossed \ first
  /\ To(q, "deleted")
  /\ UNCHANGED <<token, expired, user, use, row, seen, halved, used, barred>>

\* changePassword deletes every password of the user, in one statement ...
DeleteOld(q) ==
  /\ step[q] = "checked"
  /\ password' = [p \in Passwords |-> IF password[p] = "live" THEN "deleted"
                                      ELSE password[p]]
  /\ revived' = {} /\ crossed' = {}
  /\ To(q, "deleted")
  /\ UNCHANGED <<token, expired, user, use, row, seen, halved, used, barred>>

HalfDone == {q \in Requests : step[q] = "deleted"}
Newest == CHOOSE p \in Passwords : /\ password[p] # "absent"
                                   /\ \A r \in Passwords : r > p => password[r] = "absent"

\* ... and creates the new one in another.
CreateNew(q) ==
  LET new == Newest + 1
  IN  /\ step[q] = "deleted" /\ new \in Passwords
      /\ password' = [password EXCEPT ![new] = "live"]
      /\ crossed' = IF HalfDone = {q} THEN crossed ELSE crossed \cup {new}
      /\ halved' = FALSE
      /\ Returns(q)
      /\ UNCHANGED <<token, expired, user, revived, used>>

\* Hashing, the delete or the insert fails.  The service of users returns the
\* error; SetPassword and ChangePassword compare it with their own, which is nil,
\* and return the latter.
ChangeFails(q) ==
  /\ step[q] \in {"checked", "deleted"}
  /\ halved' = (halved \/ step[q] = "deleted")
  /\ Returns(q)
  /\ UNCHANGED <<rowVars, revived, crossed, used>>

-----------------------------------------------------------------------------
(* Tokens *)

\* loadUserFromToken finds a token that is not deleted ...
FindToken(q, t, n) ==
  /\ token[t] = "live"
  /\ Starts(q, "tokenFound", n, t)
  /\ UNCHANGED <<rowVars, revived, crossed, halved, used>>

\* A fault: a token is deleted once it has expired.
SpendExpired(q) ==
  /\ step[q] = "tokenFound"
  /\ token' = IF row[q] \in expired THEN [token EXCEPT ![row[q]] = "deleted"] ELSE token
  /\ IF row[q] \in expired THEN Returns(q)
     ELSE To(q, "spent") /\ UNCHANGED <<use, row, seen, barred>>
  /\ UNCHANGED <<password, expired, user, revived, crossed, halved, used>>

\* ... deletes it, whether or not it still is there, then looks at its expiry ...
SpendToken(q) ==
  /\ step[q] = "tokenFound"
  /\ token' = [token EXCEPT ![row[q]] = "deleted"]
  /\ IF row[q] \in expired THEN Returns(q)
     ELSE To(q, "spent") /\ UNCHANGED <<use, row, seen, barred>>
  /\ UNCHANGED <<password, expired, user, revived, crossed, halved, used>>

\* A fault: any user that exists is accepted.
AcceptAnyUser(q) ==
  /\ step[q] = "spent"
  /\ ~user.deleted
  /\ To(q, "accepted")
  /\ seen' = [seen EXCEPT ![q] = user]
  /\ used' = used \cup {row[q]}
  /\ UNCHANGED <<rowVars, use, row, revived, crossed, halved, barred>>

\* ... and at the user, who must be valid.
AcceptUser(q) ==
  /\ step[q] = "spent"
  /\ Valid(user)
  /\ To(q, "accepted")
  /\ seen' = [seen EXCEPT ![q] = user]
  /\ used' = used \cup {row[q]}
  /\ UNCHANGED <<rowVars, use, row, revived, crossed, halved, barred>>

\* ValidateAuthRequestToken: the user is in.
TokenLogsIn(q) ==
  /\ step[q] = "accepted" /\ use[q] = "auth"
  /\ Returns(q)
  /\ UNCHANGED <<rowVars, revived, crossed, halved, used>>

\* loadFromTokenAndConfirmEmail: the user is written as read, but confirmed.
\* ConfirmEmail ends here; ResetPassword goes on with SetPassword.
ConfirmEmail(q) ==
  /\ step[q] = "accepted" /\ use[q] \in {"confirm", "reset"}
  /\ user' = IF seen[q].confirmed THEN user ELSE [seen[q] EXCEPT !.confirmed = TRUE]
  /\ IF use[q] = "confirm" THEN ReturnsWritten(q)
     ELSE /\ To(q, "checked")
          /\ barred' = IF Valid(user') THEN {} ELSE barred
          /\ UNCHANGED <<use, row, seen>>
  /\ UNCHANGED <<password, token, expired, revived, crossed, halved, used>>

-----------------------------------------------------------------------------
(* The user *)

\* Update in the service of users: found, changed by the client and scripts in
\* other fields, written.
ReadForEdit(q) ==
  /\ Starts(q, "editing", "none", None)
  /\ UNCHANGED <<rowVars, revived, crossed, halved, used>>

WriteEdit(q) ==
  /\ step[q] = "editing"
  /\ user' = seen[q]
  /\ ReturnsWritten(q)
  /\ UNCHANGED <<password, token, expired, revived, crossed, halved, used>>

\* Suspend, Delete; Unsuspend, Undelete: each writes one column.
Mark(m) ==
  /\ user' = [user EXCEPT ![m] = TRUE]
  /\ UNCHANGED <<password, token, expired, reqVars, history>>

Unmark(m) ==
  /\ user' = [user EXCEPT ![m] = FALSE]
  /\ barred' = IF Valid(user') THEN {} ELSE barred
  /\ UNCHANGED <<password, token, expired, reqVars, revived, crossed, halved, used>>

-----------------------------------------------------------------------------
\* Time passes.
Expire(t) ==
  /\ token[t] # "absent" /\ t \notin expired
  /\ expired' = expired \cup {t}
  /\ UNCHANGED <<password, token, user, reqVars, history>>

\* A statement fails, a script aborts, a check refuses, or the server ends.
Fails(q) ==
  /\ step[q] \notin {"idle", "checked", "deleted"}
  /\ Returns(q)
  /\ UNCHANGED <<rowVars, revived, crossed, halved, used>>

Login(q) ==
  \/ FindUser(q)
  \/ \E p \in Passwords : MatchPassword(q, p)
  \/ UpdateLastUse(q)
  \/ LoggedIn(q)
  \/ NotConfirmed(q)
  \/ \E t \in Tokens : IssueToken(q, t)

Change(q) ==
  \/ \E p \in Passwords : CheckOldPassword(q, p)
  \/ SetByAdmin(q)
  \/ DeleteOld(q)
  \/ CreateNew(q)
  \/ ChangeFails(q)

UseToken(q) ==
  \/ \E t \in Tokens, n \in {"auth", "exchange", "confirm", "reset"} : FindToken(q, t, n)
  \/ SpendToken(q)
  \/ AcceptUser(q)
  \/ TokenLogsIn(q)
  \/ ConfirmEmail(q)

Next ==
  \/ \E q \in Requests : Login(q) \/ Change(q) \/ UseToken(q)
  \/ \E q \in Requests : ReadForEdit(q) \/ WriteEdit(q) \/ Fails(q)
  \/ \E m \in {"suspended", "deleted"} : Mark(m) \/ Unmark(m)
  \/ \E t \in Tokens : Expire(t)

Spec == Init /\ [][Next]_vars

-----------------------------------------------------------------------------
Live == {p \in Passwords : password[p] = "live"}

\* After a change of password only the newest one lets anybody in.  An older one
\* does as well in two cases, each until the next change: a login that had
\* matched it before it was deleted has written its row back, or it was created
\* while another change stood between its delete and its insert.
OldPasswordsAreGone == Live \subseteq {Newest} \cup revived \cup crossed

\* A user who had a password has one, but while a change stands between its two
\* statements and after one has failed there: no order of changes, resets and
\* logins loses it otherwise.
KeepsAPassword == Live = {} => HalfDone # {} \/ halved

\* A token that was accepted once is never found again: those who can use it
\* twice have all found it before the first of them deleted it.
UsedTokensAreGone ==
  [][\A q \in Requests : step[q] = "idle" /\ step'[q] = "tokenFound"
       => row'[q] \notin used]_vars

\* The user is let in: by password, or by a token, also to set a new password.
GetsIn(q) ==
  \/ step[q] = "updated" /\ step'[q] = "idle" /\ seen[q].confirmed
  \/ step[q] = "spent" /\ step'[q] = "accepted"

\* Somebody who was suspended or deleted before the request and all the time
\* since does not get in, by any of the ways.
BarredStayOut == [][\A q \in Requests : GetsIn(q) => q \notin barred]_vars

=============================================================================
