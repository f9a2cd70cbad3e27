-------------------------- MODULE CredentialsProofs --------------------------
(***************************************************************************)
(* The properties of Credentials for any requests, tokens and bound on the *)
(* passwords.                                                              *)
(***************************************************************************)
EXTENDS Credentials, TLAPS

\* Rows are created one after the other.
RowsInOrder == \E n \in Passwords : \A p \in Passwords : password[p] # "absent" <=> p <= n

\* A login brings back no row that was never there.
MatchedExist ==
  \A q \in Requests : step[q] \in {"matched", "updated"} => password[row[q]] # "absent"

\* While a change is half done there are no passwords but the excused ones.
HalfDoneHasNone == HalfDone # {} => Live \subseteq revived \cup crossed

PasswordPart ==
  RowsInOrder /\ MatchedExist /\ HalfDoneHasNone /\ OldPasswordsAreGone /\ KeepsAPassword

\* What has been accepted, or is about to be, is deleted.
TokenPart ==
  /\ \A t \in used : token[t] = "deleted"
  /\ \A q \in Requests : step[q] = "spent" => token[row[q]] = "deleted"

\* Who logs in with a password was valid when the request began.
LoginSteps == {"found", "matched", "updated", "issuing"}
EntryPart  == \A q \in Requests : step[q] \in LoginSteps => q \notin barred

IInv == TypeOK /\ PasswordPart /\ TokenPart /\ EntryPart

-----------------------------------------------------------------------------
\* Newest is the last row.
LEMMA NewestIsLast ==
  ASSUME RowsInOrder
  PROVE  /\ Newest \in Passwords
         /\ \A p \in Passwords : password[p] # "absent" <=> p <= Newest
<1>1. PICK n \in Passwords : \A p \in Passwords : password[p] # "absent" <=> p <= n
  BY DEF RowsInOrder
<1>2. n \in Nat /\ Passwords \subseteq Nat
  BY DEF Passwords
<1>3. password[n] # "absent" /\ \A r \in Passwords : r > n => password[r] = "absent"
  BY <1>1, <1>2
<1>4. /\ Newest \in Passwords /\ password[Newest] # "absent"
      /\ \A r \in Passwords : r > Newest => password[r] = "absent"
  BY <1>3 DEF Newest
<1>5. Newest = n
  BY <1>1, <1>2, <1>4
<1> QED
  BY <1>1, <1>5

\* A step of a request that neither ends nor begins between the two statements of
\* a change, and touches no password.
LEMMA PasswordsUntouched ==
  ASSUME TypeOK, PasswordPart, NEW q \in Requests, NEW s \in Steps \ {"deleted"},
         UNCHANGED <<password, revived, crossed, halved>>,
         To(q, s), step[q] # "deleted",
         s \in {"matched", "updated"} => password[row'[q]] # "absent",
         \A r \in Requests \ {q} : row'[r] = row[r]
  PROVE  PasswordPart'
<1>1. Live' = Live /\ Newest' = Newest /\ RowsInOrder'
  BY DEF PasswordPart, Live, Newest, RowsInOrder
<1>2. \A r \in Requests : step'[r] = IF r = q THEN s ELSE step[r]
  BY DEF TypeOK, To
<1>3. HalfDone' = HalfDone
  BY <1>2 DEF HalfDone
<1>4. MatchedExist'
  BY <1>2 DEF PasswordPart, MatchedExist
<1> QED
  BY <1>1, <1>3, <1>4 DEF PasswordPart, HalfDoneHasNone, OldPasswordsAreGone, KeepsAPassword

\* A step of a request that does not go on to use a token.
LEMMA TokensUntouched ==
  ASSUME TypeOK, TokenPart, NEW q \in Requests, NEW s \in Steps \ {"spent"},
         UNCHANGED <<token, used>>, To(q, s), \A r \in Requests \ {q} : row'[r] = row[r]
  PROVE  TokenPart'
<1>1. \A r \in Requests : step'[r] = IF r = q THEN s ELSE step[r]
  BY DEF TypeOK, To
<1> QED
  BY <1>1 DEF TokenPart

\* A step of a request that bars nobody else.
LEMMA NobodyElseIsBarred ==
  ASSUME TypeOK, EntryPart, NEW q \in Requests, NEW s \in Steps, To(q, s),
         barred' \subseteq barred \cup {q}, s \in LoginSteps => q \notin barred'
  PROVE  EntryPart'
<1>1. \A r \in Requests : step'[r] = IF r = q THEN s ELSE step[r]
  BY DEF TypeOK, To
<1> QED
  BY <1>1 DEF EntryPart

LEMMA InitHolds == Init => IInv
<1> SUFFICES ASSUME Init PROVE IInv
  OBVIOUS
<1>1. 1 \in Passwords /\ Passwords \subseteq Nat
  BY CredentialsAssumption DEF Passwords
<1>2. TypeOK
  <2>1. NewUser \in User /\ [NewUser EXCEPT !.confirmed = TRUE] \in User
    BY DEF User, NewUser
  <2>2. seen \in [Requests -> User]
    BY <2>1 DEF Init
  <2> QED
    BY <1>1, <2>1, <2>2 DEF Init, TypeOK, RowState, Steps, Uses, Valid
<1>3. RowsInOrder
  <2>1. \A p \in Passwords : password[p] # "absent" <=> p <= 1
    BY <1>1 DEF Init, Passwords
  <2> QED
    BY <1>1, <2>1 DEF RowsInOrder
<1>4. Live = {1} /\ Newest = 1
  <2>1. Newest \in Passwords /\ \A p \in Passwords : password[p] # "absent" <=> p <= Newest
    BY <1>3, NewestIsLast
  <2> QED
    BY <1>1, <2>1 DEF Init, Live
<1>5. PasswordPart
  BY <1>3, <1>4 DEF Init, PasswordPart, MatchedExist, HalfDoneHasNone, HalfDone,
                    OldPasswordsAreGone, KeepsAPassword
<1> QED
  BY <1>2, <1>5 DEF Init, IInv, TokenPart, EntryPart, LoginSteps

\* A request that ends, or starts: types, and all that does not depend on which.
LEMMA EndsTyped ==
  ASSUME TypeOK, NEW q \in Requests, Ends(q)
  PROVE  /\ step' \in [Requests -> Steps] /\ use' \in [Requests -> Uses]
         /\ row' \in [Requests -> Passwords \cup Tokens \cup {None}]
         /\ seen' \in [Requests -> User]
         /\ \A r \in Requests : step'[r] = IF r = q THEN "idle" ELSE step[r]
         /\ \A r \in Requests \ {q} : row'[r] = row[r]
         /\ To(q, "idle")
<1>1. NewUser \in User
  BY DEF NewUser, User
<1> QED
  BY <1>1 DEF TypeOK, Ends, To, Steps, Uses

LEMMA StartsTyped ==
  ASSUME TypeOK, NEW q \in Requests, NEW s \in Steps, NEW n \in Uses,
         NEW x \in Passwords \cup Tokens \cup {None}, Starts(q, s, n, x)
  PROVE  /\ step' \in [Requests -> Steps] /\ use' \in [Requests -> Uses]
         /\ row' \in [Requests -> Passwords \cup Tokens \cup {None}]
         /\ seen' \in [Requests -> User]
         /\ \A r \in Requests : step'[r] = IF r = q THEN s ELSE step[r]
         /\ \A r \in Requests : row'[r] = IF r = q THEN x ELSE row[r]
         /\ To(q, s) /\ step[q] = "idle"
  BY DEF TypeOK, Starts, To

-----------------------------------------------------------------------------
(* Logging in *)

LEMMA FindUserHolds ==
  ASSUME IInv, NEW q \in Requests, FindUser(q)
  PROVE  IInv'
<1>1. /\ TypeOK /\ PasswordPart /\ TokenPart /\ EntryPart
      /\ Starts(q, "found", "none", None) /\ Valid(user) /\ user' = user
      /\ UNCHANGED <<rowVars, revived, crossed, halved, used>>
  BY DEF IInv, FindUser, rowVars
<1>2. "found" \in Steps \ {"deleted", "spent"} /\ "none" \in Uses
  BY DEF Steps, Uses
<1>3. /\ step' \in [Requests -> Steps] /\ use' \in [Requests -> Uses]
      /\ row' \in [Requests -> Passwords \cup Tokens \cup {None}]
      /\ seen' \in [Requests -> User]
      /\ \A r \in Requests : step'[r] = IF r = q THEN "found" ELSE step[r]
      /\ \A r \in Requests : row'[r] = IF r = q THEN None ELSE row[r]
      /\ To(q, "found") /\ step[q] = "idle"
  BY <1>1, <1>2, StartsTyped
<1>4. barred' = {}
  BY <1>1 DEF Starts
<1>5. TypeOK'
  BY <1>1, <1>3, <1>4 DEF TypeOK, rowVars
<1>6. PasswordPart'
  BY <1>1, <1>2, <1>3, PasswordsUntouched DEF rowVars
<1>7. TokenPart'
  BY <1>1, <1>2, <1>3, TokensUntouched DEF rowVars
<1>8. EntryPart'
  BY <1>4 DEF EntryPart
<1> QED
  BY <1>5, <1>6, <1>7, <1>8 DEF IInv

LEMMA MatchPasswordHolds ==
  ASSUME IInv, NEW q \in Requests, NEW p \in Passwords, MatchPassword(q, p)
  PROVE  IInv'
<1>1. /\ TypeOK /\ PasswordPart /\ TokenPart /\ EntryPart
      /\ To(q, "matched") /\ step[q] = "found" /\ row' = [row EXCEPT ![q] = p]
      /\ password[p] = "live"
      /\ UNCHANGED <<password, token, expired, user, use, seen, revived, crossed, halved,
                     used, barred>>
  BY DEF IInv, MatchPassword, rowVars, history
<1>2. "matched" \in Steps \ {"deleted", "spent"}
  BY DEF Steps
<1>3. \A r \in Requests : row'[r] = IF r = q THEN p ELSE row[r]
  BY <1>1 DEF TypeOK
<1>5. TypeOK'
  BY <1>1, <1>2, <1>3 DEF TypeOK, To
<1>6. PasswordPart'
  BY <1>1, <1>2, <1>3, PasswordsUntouched
<1>7. TokenPart'
  BY <1>1, <1>2, <1>3, TokensUntouched
<1>8. EntryPart'
  BY <1>1, <1>2, NobodyElseIsBarred DEF EntryPart, LoginSteps
<1> QED
  BY <1>5, <1>6, <1>7, <1>8 DEF IInv

LEMMA UpdateLastUseHolds ==
  ASSUME IInv, NEW q \in Requests, UpdateLastUse(q)
  PROVE  IInv'
<1> DEFINE p == row[q]
<1>1. /\ TypeOK /\ PasswordPart /\ TokenPart /\ EntryPart
      /\ To(q, "updated") /\ step[q] = "matched"
      /\ password' = [password EXCEPT ![p] = "live"]
      /\ revived' = IF password[p] = "deleted" THEN revived \cup {p} ELSE revived
      /\ halved' = FALSE
      /\ UNCHANGED <<token, expired, user, use, row, seen, crossed, used, barred>>
  BY DEF IInv, UpdateLastUse
<1>2. "updated" \in Steps \ {"deleted", "spent"}
  BY DEF Steps
<1>3. /\ p \in Passwords /\ password[p] \in {"live", "deleted"}
      /\ \A r \in Requests : step'[r] = IF r = q THEN "updated" ELSE step[r]
      /\ \A r \in Passwords : password'[r] = IF r = p THEN "live" ELSE password[r]
  BY <1>1 DEF TypeOK, To, PasswordPart, MatchedExist, RowState
<1>5. TypeOK'
  <2>1. password' \in [Passwords -> RowState] /\ step' \in [Requests -> Steps]
    BY <1>1, <1>2 DEF TypeOK, To, RowState
  <2>2. \A x \in revived' \cup crossed' : x \in Passwords /\ password'[x] = "live"
    BY <1>1, <1>3 DEF TypeOK
  <2>3. \A r \in Requests : /\ step'[r] \in {"matched", "updated"} => row'[r] \in Passwords
                            /\ step'[r] \in {"tokenFound", "spent"} => row'[r] \in Tokens
    BY <1>1, <1>3 DEF TypeOK
  <2>4. barred' \subseteq {r \in Requests : step'[r] # "idle"} /\ halved' \in BOOLEAN
    BY <1>1, <1>3 DEF TypeOK
  <2> QED
    BY <1>1, <2>1, <2>2, <2>3, <2>4 DEF TypeOK
<1>6. PasswordPart'
  <2>1. Live' = Live \cup {p} /\ (p \in Live \/ p \in revived')
    BY <1>1, <1>3 DEF Live
  <2>2. \A r \in Passwords : password'[r] = "absent" <=> password[r] = "absent"
    BY <1>3
  <2>3. Newest' = Newest /\ RowsInOrder'
    BY <1>1, <2>2 DEF Newest, RowsInOrder, PasswordPart
  <2>4. MatchedExist'
    BY <1>1, <1>3, <2>2 DEF PasswordPart, MatchedExist, TypeOK
  <2>5. HalfDone' = HalfDone /\ revived \subseteq revived'
    BY <1>1, <1>3 DEF HalfDone
  <2> QED
    BY <1>1, <2>1, <2>3, <2>4, <2>5 DEF PasswordPart, HalfDoneHasNone, OldPasswordsAreGone,
                                     KeepsAPassword
<1>7. TokenPart'
  BY <1>1, <1>2, TokensUntouched
<1>8. EntryPart'
  BY <1>1, <1>2, NobodyElseIsBarred DEF EntryPart, LoginSteps
<1> QED
  BY <1>5, <1>6, <1>7, <1>8 DEF IInv

LEMMA NotConfirmedHolds ==
  ASSUME IInv, NEW q \in Requests, NotConfirmed(q)
  PROVE  IInv'
<1>1. /\ TypeOK /\ PasswordPart /\ TokenPart /\ EntryPart
      /\ To(q, "issuing") /\ step[q] = "updated"
      /\ UNCHANGED <<password, token, expired, user, use, row, seen, revived, crossed,
                     halved, used, barred>>
  BY DEF IInv, NotConfirmed, rowVars, history
<1>2. "issuing" \in Steps \ {"deleted", "spent"}
  BY DEF Steps
<1>3. TypeOK'
  BY <1>1, <1>2 DEF TypeOK, To
<1>4. PasswordPart'
  BY <1>1, <1>2, PasswordsUntouched
<1>5. TokenPart'
  BY <1>1, <1>2, TokensUntouched
<1>6. EntryPart'
  BY <1>1, <1>2, NobodyElseIsBarred DEF EntryPart, LoginSteps
<1> QED
  BY <1>3, <1>4, <1>5, <1>6 DEF IInv

-----------------------------------------------------------------------------
(* What many steps have in common *)

\* A request ends, having written a token or the user at most.
LEMMA EndHolds ==
  ASSUME IInv, NEW q \in Requests, Ends(q), step[q] # "deleted",
         UNCHANGED <<password, expired, revived, crossed, halved, used>>,
         token' \in [Tokens -> RowState],
         \A t \in Tokens : token[t] = "deleted" => token'[t] = "deleted",
         user' \in User, barred' \subseteq barred \ {q}, Valid(user') => barred' = {}
  PROVE  IInv'
<1>1. TypeOK /\ PasswordPart /\ TokenPart /\ EntryPart
  BY DEF IInv
<1>2. /\ step' \in [Requests -> Steps] /\ use' \in [Requests -> Uses]
      /\ row' \in [Requests -> Passwords \cup Tokens \cup {None}]
      /\ seen' \in [Requests -> User]
      /\ \A r \in Requests : step'[r] = IF r = q THEN "idle" ELSE step[r]
      /\ \A r \in Requests \ {q} : row'[r] = row[r]
      /\ To(q, "idle")
  BY <1>1, EndsTyped
<1>3. "idle" \in Steps \ {"deleted"}
  BY DEF Steps
<1>4. TypeOK'
  <2>1. \A r \in Requests : /\ step'[r] \in {"matched", "updated"} => row'[r] \in Passwords
                            /\ step'[r] \in {"tokenFound", "spent"} => row'[r] \in Tokens
    BY <1>1, <1>2 DEF TypeOK
  <2>2. barred' \subseteq {r \in Requests : step'[r] # "idle"}
    BY <1>1, <1>2 DEF TypeOK
  <2> QED
    BY <1>1, <1>2, <2>1, <2>2 DEF TypeOK
<1>5. PasswordPart'
  BY <1>1, <1>2, <1>3, PasswordsUntouched
<1>6. TokenPart'
  BY <1>1, <1>2 DEF TokenPart, TypeOK
<1>7. EntryPart'
  BY <1>1, <1>2 DEF EntryPart, LoginSteps
<1> QED
  BY <1>4, <1>5, <1>6, <1>7 DEF IInv

\* A request other than a login starts, and has written nothing.
LEMMA StartHolds ==
  ASSUME IInv, NEW q \in Requests, NEW s \in {"checked", "tokenFound", "editing"},
         NEW n \in Uses, NEW x \in Tokens \cup {None}, s = "tokenFound" => x \in Tokens,
         Starts(q, s, n, x), UNCHANGED <<rowVars, revived, crossed, halved, used>>
  PROVE  IInv'
<1>1. /\ TypeOK /\ PasswordPart /\ TokenPart /\ EntryPart
      /\ UNCHANGED <<password, token, expired, user, revived, crossed, halved, used>>
      /\ barred' \subseteq barred \cup {q} /\ (Valid(user) => barred' = {})
  BY DEF IInv, Starts, rowVars
<1>2. s \in Steps \ {"deleted", "spent"} /\ s \notin {"idle", "matched", "updated"} \cup LoginSteps
  BY DEF Steps, LoginSteps
<1>3. /\ step' \in [Requests -> Steps] /\ use' \in [Requests -> Uses]
      /\ row' \in [Requests -> Passwords \cup Tokens \cup {None}]
      /\ seen' \in [Requests -> User]
      /\ \A r \in Requests : step'[r] = IF r = q THEN s ELSE step[r]
      /\ \A r \in Requests : row'[r] = IF r = q THEN x ELSE row[r]
      /\ To(q, s) /\ step[q] = "idle"
  BY <1>1, <1>2, StartsTyped
<1>4. TypeOK'
  <2>1. \A r \in Requests : /\ step'[r] \in {"matched", "updated"} => row'[r] \in Passwords
                            /\ step'[r] \in {"tokenFound", "spent"} => row'[r] \in Tokens
    BY <1>1, <1>2, <1>3 DEF TypeOK
  <2>2. barred' \subseteq {r \in Requests : step'[r] # "idle"}
    BY <1>1, <1>2, <1>3 DEF TypeOK
  <2> QED
    BY <1>1, <1>3, <2>1, <2>2 DEF TypeOK
<1>5. PasswordPart'
  BY <1>1, <1>2, <1>3, PasswordsUntouched
<1>6. TokenPart'
  BY <1>1, <1>2, <1>3, TokensUntouched
<1>7. EntryPart'
  BY <1>1, <1>2, <1>3, NobodyElseIsBarred
<1> QED
  BY <1>4, <1>5, <1>6, <1>7 DEF IInv

LEMMA LoginHolds ==
  ASSUME IInv, NEW q \in Requests, Login(q)
  PROVE  IInv'
<1>1. CASE LoggedIn(q)
  BY <1>1, EndHolds DEF LoggedIn, Returns, IInv, TypeOK, rowVars
<1>2. ASSUME NEW t \in Tokens, IssueToken(q, t)
      PROVE  IInv'
  <2>1. token' \in [Tokens -> RowState] /\ \A r \in Tokens : token[r] = "deleted" => token'[r] = "deleted"
    BY <1>2 DEF IssueToken, IInv, TypeOK, RowState
  <2>2. step[q] # "deleted" /\ Ends(q) /\ barred' = barred \ {q}
    BY <1>2 DEF IssueToken, Returns
  <2>3. user' = user /\ user \in User /\ (Valid(user) => barred = {})
    BY <1>2 DEF IssueToken, IInv, TypeOK
  <2> QED
    BY <1>2, <2>1, <2>2, <2>3, EndHolds DEF IssueToken
<1> QED
  BY <1>1, <1>2, FindUserHolds, MatchPasswordHolds, UpdateLastUseHolds, NotConfirmedHolds
  DEF Login

-----------------------------------------------------------------------------
(* Changing the password *)

LEMMA DeleteOldHolds ==
  ASSUME IInv, NEW q \in Requests, DeleteOld(q)
  PROVE  IInv'
<1>1. /\ TypeOK /\ PasswordPart /\ TokenPart /\ EntryPart
      /\ To(q, "deleted") /\ step[q] = "checked"
      /\ password' = [p \in Passwords |-> IF password[p] = "live" THEN "deleted"
                                           ELSE password[p]]
      /\ revived' = {} /\ crossed' = {}
      /\ UNCHANGED <<token, expired, user, use, row, seen, halved, used, barred>>
  BY DEF IInv, DeleteOld
<1>2. "deleted" \in Steps \ {"spent"}
  BY DEF Steps
<1>3. \A r \in Requests : step'[r] = IF r = q THEN "deleted" ELSE step[r]
  BY <1>1 DEF TypeOK, To
<1>4. TypeOK'
  <2>1. password' \in [Passwords -> RowState] /\ step' \in [Requests -> Steps]
    BY <1>1, <1>2 DEF TypeOK, To, RowState
  <2>2. \A r \in Requests : /\ step'[r] \in {"matched", "updated"} => row'[r] \in Passwords
                            /\ step'[r] \in {"tokenFound", "spent"} => row'[r] \in Tokens
    BY <1>1, <1>3 DEF TypeOK
  <2>3. barred' \subseteq {r \in Requests : step'[r] # "idle"}
    BY <1>1, <1>3 DEF TypeOK
  <2> QED
    BY <1>1, <2>1, <2>2, <2>3 DEF TypeOK
<1>5. PasswordPart'
  <2>1. Live' = {} /\ \A p \in Passwords : password'[p] = "absent" <=> password[p] = "absent"
    BY <1>1 DEF Live
  <2>2. RowsInOrder' /\ q \in HalfDone'
    BY <1>1, <1>3, <2>1 DEF RowsInOrder, PasswordPart, HalfDone
  <2>3. MatchedExist'
    BY <1>1, <1>3, <2>1 DEF PasswordPart, MatchedExist, TypeOK
  <2> QED
    BY <2>1, <2>2, <2>3 DEF PasswordPart, HalfDoneHasNone, OldPasswordsAreGone, KeepsAPassword
<1>6. TokenPart'
  BY <1>1, <1>2, TokensUntouched
<1>7. EntryPart'
  BY <1>1, <1>2, NobodyElseIsBarred DEF LoginSteps
<1> QED
  BY <1>4, <1>5, <1>6, <1>7 DEF IInv

LEMMA CreateNewHolds ==
  ASSUME IInv, NEW q \in Requests, CreateNew(q)
  PROVE  IInv'
<1> DEFINE n == Newest + 1
<1>1. /\ TypeOK /\ PasswordPart /\ TokenPart /\ EntryPart
      /\ Ends(q) /\ step[q] = "deleted" /\ n \in Passwords
      /\ password' = [password EXCEPT ![n] = "live"]
      /\ crossed' = IF HalfDone = {q} THEN crossed ELSE crossed \cup {n}
      /\ halved' = FALSE /\ barred' = barred \ {q}
      /\ UNCHANGED <<token, expired, user, revived, used>>
  BY DEF IInv, CreateNew, Returns
<1>2. "idle" \in Steps \ {"deleted", "spent"}
  BY DEF Steps
<1>3. /\ step' \in [Requests -> Steps] /\ use' \in [Requests -> Uses]
      /\ row' \in [Requests -> Passwords \cup Tokens \cup {None}]
      /\ seen' \in [Requests -> User]
      /\ \A r \in Requests : step'[r] = IF r = q THEN "idle" ELSE step[r]
      /\ \A r \in Requests \ {q} : row'[r] = row[r]
      /\ To(q, "idle")
  BY <1>1, EndsTyped
<1>4. \A p \in Passwords : password'[p] = IF p = n THEN "live" ELSE password[p]
  BY <1>1 DEF TypeOK
<1> HIDE DEF n
<1>5. TypeOK'
  <2>1. password' \in [Passwords -> RowState]
    BY <1>1 DEF TypeOK, RowState
  <2>2. \A p \in revived' \cup crossed' : p \in Passwords /\ password'[p] = "live"
    BY <1>1, <1>4 DEF TypeOK
  <2>3. \A r \in Requests : /\ step'[r] \in {"matched", "updated"} => row'[r] \in Passwords
                            /\ step'[r] \in {"tokenFound", "spent"} => row'[r] \in Tokens
    BY <1>1, <1>3 DEF TypeOK
  <2>4. barred' \subseteq {r \in Requests : step'[r] # "idle"} /\ (Valid(user) => barred' = {})
    BY <1>1, <1>3 DEF TypeOK
  <2> QED
    BY <1>1, <1>3, <2>1, <2>2, <2>3, <2>4 DEF TypeOK
<1>6. PasswordPart'
  <2>1. /\ Newest \in Passwords /\ Passwords \subseteq Nat
        /\ \A p \in Passwords : password[p] # "absent" <=> p <= Newest
    BY <1>1, NewestIsLast DEF PasswordPart, Passwords
  <2>2. \A p \in Passwords : password'[p] # "absent" <=> p <= n
    BY <1>1, <1>4, <2>1 DEF n
  <2>3. RowsInOrder'
    BY <1>1, <2>2 DEF RowsInOrder
  <2>4. Newest' = n
    <3>1. password'[n] # "absent" /\ \A r \in Passwords : r > n => password'[r] = "absent"
      BY <1>1, <2>1, <2>2
    <3>2. /\ Newest' \in Passwords /\ password'[Newest'] # "absent"
          /\ \A r \in Passwords : r > Newest' => password'[r] = "absent"
      BY <1>1, <3>1 DEF Newest
    <3> QED
      BY <1>1, <2>1, <2>2, <3>2
  <2>5. Live' = Live \cup {n}
    BY <1>1, <1>4 DEF Live
  <2>6. q \in HalfDone /\ HalfDone' = HalfDone \ {q}
    BY <1>1, <1>3 DEF HalfDone
  <2>7. Live \subseteq revived \cup crossed
    BY <1>1, <2>6 DEF PasswordPart, HalfDoneHasNone
  <2>8. MatchedExist'
    BY <1>1, <1>3, <1>4 DEF PasswordPart, MatchedExist, TypeOK
  <2>9. HalfDoneHasNone'
    BY <1>1, <2>5, <2>6, <2>7 DEF HalfDoneHasNone
  <2>10. OldPasswordsAreGone' /\ KeepsAPassword'
    BY <1>1, <2>4, <2>5, <2>7 DEF OldPasswordsAreGone, KeepsAPassword
  <2> QED
    BY <2>3, <2>8, <2>9, <2>10 DEF PasswordPart
<1>7. TokenPart'
  BY <1>1, <1>2, <1>3, TokensUntouched
<1>8. EntryPart'
  BY <1>1, <1>2, <1>3, NobodyElseIsBarred DEF LoginSteps
<1> QED
  BY <1>5, <1>6, <1>7, <1>8 DEF IInv

LEMMA ChangeFailsHolds ==
  ASSUME IInv, NEW q \in Requests, ChangeFails(q)
  PROVE  IInv'
<1>1. /\ TypeOK /\ PasswordPart /\ TokenPart /\ EntryPart
      /\ Ends(q) /\ barred' = barred \ {q}
      /\ halved' = (halved \/ step[q] = "deleted")
      /\ UNCHANGED <<password, token, expired, user, revived, crossed, used>>
  BY DEF IInv, ChangeFails, Returns, rowVars
<1>2. CASE step[q] # "deleted"
  <2>1. halved' = halved
    BY <1>1, <1>2 DEF TypeOK
  <2>2. /\ token' \in [Tokens -> RowState] /\ user' \in User
        /\ \A t \in Tokens : token[t] = "deleted" => token'[t] = "deleted"
        /\ barred' \subseteq barred \ {q} /\ (Valid(user') => barred' = {})
    BY <1>1 DEF TypeOK
  <2> QED
    BY <1>1, <1>2, <2>1, <2>2, EndHolds
<1>3. CASE step[q] = "deleted"
  <2>1. /\ step' \in [Requests -> Steps] /\ use' \in [Requests -> Uses]
        /\ row' \in [Requests -> Passwords \cup Tokens \cup {None}]
        /\ seen' \in [Requests -> User]
        /\ \A r \in Requests : step'[r] = IF r = q THEN "idle" ELSE step[r]
        /\ \A r \in Requests \ {q} : row'[r] = row[r]
        /\ To(q, "idle")
    BY <1>1, EndsTyped
  <2>2. "idle" \in Steps \ {"deleted", "spent"} /\ halved' = TRUE
    BY <1>1, <1>3 DEF Steps
  <2>3. TypeOK'
    <3>1. \A r \in Requests : /\ step'[r] \in {"matched", "updated"} => row'[r] \in Passwords
                              /\ step'[r] \in {"tokenFound", "spent"} => row'[r] \in Tokens
      BY <1>1, <2>1 DEF TypeOK
    <3>2. barred' \subseteq {r \in Requests : step'[r] # "idle"} /\ (Valid(user) => barred' = {})
      BY <1>1, <2>1 DEF TypeOK
    <3> QED
      BY <1>1, <2>1, <2>2, <3>1, <3>2 DEF TypeOK
  <2>4. PasswordPart'
    <3>1. Live' = Live /\ Newest' = Newest /\ RowsInOrder' /\ HalfDone' \subseteq HalfDone
      BY <1>1, <2>1 DEF Live, Newest, RowsInOrder, PasswordPart, HalfDone
    <3>2. MatchedExist'
      BY <1>1, <2>1 DEF PasswordPart, MatchedExist
    <3> QED
      BY <1>1, <2>2, <3>1, <3>2 DEF PasswordPart, HalfDoneHasNone, OldPasswordsAreGone,
                                    KeepsAPassword
  <2>5. TokenPart'
    BY <1>1, <2>1, <2>2, TokensUntouched
  <2>6. EntryPart'
    BY <1>1, <2>1, <2>2, NobodyElseIsBarred DEF LoginSteps
  <2> QED
    BY <2>3, <2>4, <2>5, <2>6 DEF IInv
<1> QED
  BY <1>2, <1>3

LEMMA ChangeHolds ==
  ASSUME IInv, NEW q \in Requests, Change(q)
  PROVE  IInv'
<1>1. "change" \in Uses /\ "admin" \in Uses
  BY DEF Uses
<1>2. ASSUME NEW p \in Passwords, CheckOldPassword(q, p)
      PROVE  IInv'
  BY <1>1, <1>2, StartHolds DEF CheckOldPassword
<1>3. CASE SetByAdmin(q)
  BY <1>1, <1>3, StartHolds DEF SetByAdmin
<1> QED
  BY <1>2, <1>3, DeleteOldHolds, CreateNewHolds, ChangeFailsHolds DEF Change

-----------------------------------------------------------------------------
(* Tokens *)

LEMMA SpendTokenHolds ==
  ASSUME IInv, NEW q \in Requests, SpendToken(q)
  PROVE  IInv'
<1>1. /\ TypeOK /\ PasswordPart /\ TokenPart /\ EntryPart
      /\ step[q] = "tokenFound" /\ token' = [token EXCEPT ![row[q]] = "deleted"]
      /\ UNCHANGED <<password, expired, user, revived, crossed, halved, used>>
  BY DEF IInv, SpendToken
<1>2. /\ row[q] \in Tokens /\ token' \in [Tokens -> RowState]
      /\ \A t \in Tokens : token'[t] = IF t = row[q] THEN "deleted" ELSE token[t]
  BY <1>1 DEF TypeOK, RowState
<1>3. CASE row[q] \in expired
  <2>1. Ends(q) /\ barred' = barred \ {q}
    BY <1>3 DEF SpendToken, Returns
  <2>2. user' \in User /\ barred' \subseteq barred \ {q} /\ (Valid(user') => barred' = {})
    BY <1>1, <2>1 DEF TypeOK
  <2> QED
    BY <1>1, <1>2, <2>1, <2>2, EndHolds
<1>4. CASE row[q] \notin expired
  <2>1. To(q, "spent") /\ UNCHANGED <<use, row, seen, barred>>
    BY <1>4 DEF SpendToken
  <2>2. "spent" \in Steps \ {"deleted"}
    BY DEF Steps
  <2>3. \A r \in Requests : step'[r] = IF r = q THEN "spent" ELSE step[r]
    BY <1>1, <2>1 DEF TypeOK, To
  <2>4. TypeOK'
    <3>1. step' \in [Requests -> Steps]
      BY <1>1, <2>1, <2>2 DEF TypeOK, To
    <3>2. \A r \in Requests : /\ step'[r] \in {"matched", "updated"} => row'[r] \in Passwords
                              /\ step'[r] \in {"tokenFound", "spent"} => row'[r] \in Tokens
      BY <1>1, <1>2, <2>1, <2>3 DEF TypeOK
    <3>3. barred' \subseteq {r \in Requests : step'[r] # "idle"}
      BY <1>1, <2>1, <2>3 DEF TypeOK
    <3> QED
      BY <1>1, <1>2, <2>1, <3>1, <3>2, <3>3 DEF TypeOK
  <2>5. PasswordPart'
    BY <1>1, <2>1, <2>2, PasswordsUntouched
  <2>6. TokenPart'
    <3>1. \A t \in used' : token'[t] = "deleted"
      BY <1>1, <1>2 DEF TokenPart, TypeOK
    <3>2. \A r \in Requests : step'[r] = "spent" => token'[row'[r]] = "deleted"
      BY <1>1, <1>2, <2>1, <2>3 DEF TokenPart, TypeOK
    <3> QED
      BY <3>1, <3>2 DEF TokenPart
  <2>7. EntryPart'
    BY <1>1, <2>1, <2>2, NobodyElseIsBarred DEF LoginSteps
  <2> QED
    BY <2>4, <2>5, <2>6, <2>7 DEF IInv
<1> QED
  BY <1>3, <1>4

LEMMA AcceptUserHolds ==
  ASSUME IInv, NEW q \in Requests, AcceptUser(q)
  PROVE  IInv'
<1>1. /\ TypeOK /\ PasswordPart /\ TokenPart /\ EntryPart
      /\ step[q] = "spent" /\ To(q, "accepted") /\ seen' = [seen EXCEPT ![q] = user]
      /\ used' = used \cup {row[q]}
      /\ UNCHANGED <<password, token, expired, user, use, row, revived, crossed, halved, barred>>
  BY DEF IInv, AcceptUser, rowVars
<1>2. "accepted" \in Steps \ {"deleted", "spent"}
  BY DEF Steps
<1>3. /\ row[q] \in Tokens /\ token[row[q]] = "deleted"
      /\ \A r \in Requests : step'[r] = IF r = q THEN "accepted" ELSE step[r]
  BY <1>1 DEF TypeOK, TokenPart, To
<1>4. TypeOK'
  <2>1. step' \in [Requests -> Steps] /\ seen' \in [Requests -> User]
    BY <1>1, <1>2 DEF TypeOK, To
  <2>2. \A r \in Requests : /\ step'[r] \in {"matched", "updated"} => row'[r] \in Passwords
                            /\ step'[r] \in {"tokenFound", "spent"} => row'[r] \in Tokens
    BY <1>1, <1>3 DEF TypeOK
  <2>3. barred' \subseteq {r \in Requests : step'[r] # "idle"} /\ used' \subseteq Tokens
    BY <1>1, <1>3 DEF TypeOK
  <2> QED
    BY <1>1, <2>1, <2>2, <2>3 DEF TypeOK
<1>5. PasswordPart'
  BY <1>1, <1>2, PasswordsUntouched
<1>6. TokenPart'
  BY <1>1, <1>3 DEF TokenPart
<1>7. EntryPart'
  BY <1>1, <1>2, NobodyElseIsBarred DEF LoginSteps
<1> QED
  BY <1>4, <1>5, <1>6, <1>7 DEF IInv

LEMMA ConfirmEmailHolds ==
  ASSUME IInv, NEW q \in Requests, ConfirmEmail(q)
  PROVE  IInv'
<1>1. /\ TypeOK /\ PasswordPart /\ TokenPart /\ EntryPart /\ step[q] = "accepted"
      /\ user' = IF seen[q].confirmed THEN user ELSE [seen[q] EXCEPT !.confirmed = TRUE]
      /\ UNCHANGED <<password, token, expired, revived, crossed, halved, used>>
  BY DEF IInv, ConfirmEmail
<1>2. user' \in User
  BY <1>1 DEF TypeOK, User
<1>3. CASE use[q] = "confirm"
  <2>1. Ends(q) /\ barred' = IF Valid(user') THEN {} ELSE barred \ {q}
    BY <1>3 DEF ConfirmEmail, ReturnsWritten
  <2>2. /\ token' \in [Tokens -> RowState]
        /\ \A t \in Tokens : token[t] = "deleted" => token'[t] = "deleted"
        /\ barred' \subseteq barred \ {q} /\ (Valid(user') => barred' = {})
    BY <1>1, <2>1 DEF TypeOK
  <2> QED
    BY <1>1, <1>2, <2>1, <2>2, EndHolds
<1>4. CASE use[q] # "confirm"
  <2>1. /\ To(q, "checked") /\ UNCHANGED <<use, row, seen>>
        /\ barred' \subseteq barred /\ (Valid(user') => barred' = {})
    BY <1>4 DEF ConfirmEmail
  <2>2. "checked" \in Steps \ {"deleted", "spent"}
    BY DEF Steps
  <2>3. TypeOK'
    <3>1. /\ step' \in [Requests -> Steps]
          /\ \A r \in Requests : step'[r] = IF r = q THEN "checked" ELSE step[r]
      BY <1>1, <2>1, <2>2 DEF TypeOK, To
    <3>2. \A r \in Requests : /\ step'[r] \in {"matched", "updated"} => row'[r] \in Passwords
                              /\ step'[r] \in {"tokenFound", "spent"} => row'[r] \in Tokens
      BY <1>1, <2>1, <3>1 DEF TypeOK
    <3>3. barred' \subseteq {r \in Requests : step'[r] # "idle"}
      BY <1>1, <2>1, <3>1 DEF TypeOK
    <3> QED
      BY <1>1, <1>2, <2>1, <3>1, <3>2, <3>3 DEF TypeOK
  <2>4. PasswordPart'
    BY <1>1, <2>1, <2>2, PasswordsUntouched
  <2>5. TokenPart'
    BY <1>1, <2>1, <2>2, TokensUntouched
  <2>6. EntryPart'
    BY <1>1, <2>1, <2>2, NobodyElseIsBarred DEF LoginSteps
  <2> QED
    BY <2>3, <2>4, <2>5, <2>6 DEF IInv
<1> QED
  BY <1>3, <1>4

LEMMA UseTokenHolds ==
  ASSUME IInv, NEW q \in Requests, UseToken(q)
  PROVE  IInv'
<1>1. ASSUME NEW t \in Tokens, NEW n \in {"auth", "exchange", "confirm", "reset"}, FindToken(q, t, n)
      PROVE  IInv'
  <2>1. n \in Uses
    BY DEF Uses
  <2> QED
    BY <1>1, <2>1, StartHolds DEF FindToken
<1>2. CASE TokenLogsIn(q)
  BY <1>2, EndHolds DEF TokenLogsIn, Returns, IInv, TypeOK, rowVars
<1> QED
  BY <1>1, <1>2, SpendTokenHolds, AcceptUserHolds, ConfirmEmailHolds DEF UseToken

-----------------------------------------------------------------------------
(* The user, and time *)

LEMMA EditHolds ==
  ASSUME IInv, NEW q \in Requests, ReadForEdit(q) \/ WriteEdit(q) \/ Fails(q)
  PROVE  IInv'
<1>1. CASE ReadForEdit(q)
  <2>1. "none" \in Uses
    BY DEF Uses
  <2> QED
    BY <1>1, <2>1, StartHolds DEF ReadForEdit
<1>2. CASE WriteEdit(q)
  <2>1. user' \in User /\ barred' \subseteq barred \ {q} /\ (Valid(user') => barred' = {})
    BY <1>2 DEF WriteEdit, ReturnsWritten, IInv, TypeOK
  <2> QED
    BY <1>2, <2>1, EndHolds DEF WriteEdit, ReturnsWritten, IInv, TypeOK
<1>3. CASE Fails(q)
  BY <1>3, EndHolds DEF Fails, Returns, IInv, TypeOK, rowVars
<1> QED
  BY <1>1, <1>2, <1>3

\* No request takes a step, and none becomes barred.
LEMMA OthersHold ==
  ASSUME IInv, UNCHANGED <<password, token, reqVars, revived, crossed, halved, used>>,
         expired' \subseteq Tokens, user' \in User,
         barred' \subseteq barred, Valid(user') => barred' = {}
  PROVE  IInv'
<1>1. TypeOK'
  BY DEF IInv, TypeOK, reqVars
<1>2. PasswordPart'
  BY DEF IInv, PasswordPart, RowsInOrder, MatchedExist, HalfDoneHasNone, OldPasswordsAreGone,
         KeepsAPassword, Live, Newest, HalfDone, reqVars
<1>3. TokenPart' /\ EntryPart'
  BY DEF IInv, TokenPart, EntryPart, reqVars
<1> QED
  BY <1>1, <1>2, <1>3 DEF IInv

LEMMA StepHolds ==
  ASSUME IInv, [Next]_vars
  PROVE  IInv'
<1>1. ASSUME NEW m \in {"suspended", "deleted"}, Mark(m) \/ Unmark(m)
      PROVE  IInv'
  <2>1. user' \in User /\ expired' \subseteq Tokens
    BY <1>1 DEF Mark, Unmark, IInv, TypeOK, User
  <2>2. barred' \subseteq barred /\ (Valid(user') => barred' = {})
    BY <1>1 DEF Mark, Unmark, IInv, TypeOK, User, Valid, history
  <2>3. UNCHANGED <<password, token, reqVars, revived, crossed, halved, used>>
    BY <1>1 DEF Mark, Unmark, history
  <2> QED
    BY <2>1, <2>2, <2>3, OthersHold
<1>2. ASSUME NEW t \in Tokens, Expire(t)
      PROVE  IInv'
  BY <1>2, OthersHold DEF Expire, IInv, TypeOK, history
<1>3. CASE UNCHANGED vars
  BY <1>3, OthersHold DEF vars, rowVars, history, IInv, TypeOK
<1> QED
  BY <1>1, <1>2, <1>3, LoginHolds, ChangeHolds, UseTokenHolds, EditHolds DEF Next

-----------------------------------------------------------------------------
(* The theorems *)

\* The inductive invariant: rows are numbered in order, only excused passwords are
\* live while a change is half done, what is accepted is deleted, and a login goes
\* on only for a user who was valid when it began.
THEOREM Inductive == Spec => []IInv
<1>1. Init => IInv
  BY InitHolds
<1>2. IInv /\ [Next]_vars => IInv'
  BY StepHolds
<1> QED
  BY <1>1, <1>2, PTL DEF Spec

\* After a change of password only the newest one lets anybody in, but for the
\* two kinds of row that auth.go's separate statements excuse.
THEOREM OnlyTheNewest == Spec => []OldPasswordsAreGone
<1>1. IInv => OldPasswordsAreGone
  BY DEF IInv, PasswordPart
<1> QED
  BY <1>1, Inductive, PTL

\* No order of changes, resets and logins leaves a user without a password, but a
\* change that is half done or has failed there.
THEOREM NoneIsLost == Spec => []KeepsAPassword
<1>1. IInv => KeepsAPassword
  BY DEF IInv, PasswordPart
<1> QED
  BY <1>1, Inductive, PTL

\* There is one way to find a token, and one to be accepted with it.
LEMMA OneWayIn ==
  ASSUME TypeOK, [Next]_vars, NEW q \in Requests, step'[q] # step[q],
         step'[q] \in {"tokenFound", "accepted"}
  PROVE  \/ step'[q] = "tokenFound" /\ \E t \in Tokens : Starts(q, "tokenFound", use'[q], t)
                                                         /\ token[t] = "live"
         \/ step'[q] = "accepted" /\ AcceptUser(q)
<1>1. ASSUME NEW r \in Requests, NEW s \in Steps, To(r, s)
      PROVE  r = q /\ s \in {"tokenFound", "accepted"} /\ step'[q] = s
  BY <1>1 DEF To, TypeOK
<1> DEFINE Elsewhere == Steps \ {"tokenFound", "accepted"}
<1>2. /\ Elsewhere \subseteq Steps /\ "tokenFound" \in Steps /\ "accepted" \in Steps
      /\ {"idle", "found", "matched", "updated", "issuing", "checked", "deleted", "spent",
          "editing"} \subseteq Elsewhere
  BY DEF Steps
<1>3. ASSUME NEW r \in Requests, NEW s \in Elsewhere, To(r, s)
      PROVE  FALSE
  BY <1>1, <1>2, <1>3
<1> HIDE DEF Elsewhere
<1>4. ASSUME NEW r \in Requests, Login(r)
      PROVE  FALSE
  BY <1>2, <1>3, <1>4 DEF Login, FindUser, MatchPassword, UpdateLastUse, LoggedIn, NotConfirmed,
                          IssueToken, Starts, Returns, Ends
<1>5. ASSUME NEW r \in Requests, Change(r)
      PROVE  FALSE
  BY <1>2, <1>3, <1>5 DEF Change, CheckOldPassword, SetByAdmin, DeleteOld, CreateNew, ChangeFails,
                          Starts, Returns, Ends
<1>6. ASSUME NEW r \in Requests, ReadForEdit(r) \/ WriteEdit(r) \/ Fails(r)
      PROVE  FALSE
  BY <1>2, <1>3, <1>6 DEF ReadForEdit, WriteEdit, Fails, Starts, Returns, ReturnsWritten, Ends
<1>7. ASSUME NEW r \in Requests, SpendToken(r) \/ TokenLogsIn(r) \/ ConfirmEmail(r)
      PROVE  FALSE
  BY <1>2, <1>3, <1>7 DEF SpendToken, TokenLogsIn, ConfirmEmail, Returns, ReturnsWritten, Ends
<1>8. ASSUME NEW r \in Requests, AcceptUser(r)
      PROVE  step'[q] = "accepted" /\ AcceptUser(q)
  BY <1>1, <1>2, <1>8 DEF AcceptUser
<1>9. ASSUME NEW r \in Requests, NEW t \in Tokens, NEW n \in Uses, FindToken(r, t, n)
      PROVE  /\ step'[q] = "tokenFound" /\ token[t] = "live"
             /\ Starts(q, "tokenFound", use'[q], t)
  <2>1. r = q /\ step'[q] = "tokenFound"
    BY <1>1, <1>2, <1>9 DEF FindToken, Starts
  <2>2. use'[q] = n
    BY <1>9, <2>1 DEF FindToken, Starts, TypeOK
  <2> QED
    BY <1>9, <2>1, <2>2 DEF FindToken
<1>10. ASSUME \/ \E m \in {"suspended", "deleted"} : Mark(m) \/ Unmark(m)
              \/ \E t \in Tokens : Expire(t)
              \/ UNCHANGED vars
       PROVE  FALSE
  BY <1>10 DEF Mark, Unmark, Expire, vars, reqVars
<1>11. {"auth", "exchange", "confirm", "reset"} \subseteq Uses
  BY DEF Uses
<1> QED
  BY <1>4, <1>5, <1>6, <1>7, <1>8, <1>9, <1>10, <1>11 DEF Next, UseToken

\* loadUserFromToken never finds a token that it has accepted.
THEOREM AcceptedOnce == Spec => UsedTokensAreGone
<1>1. ASSUME IInv, [Next]_vars, NEW q \in Requests, step[q] = "idle", step'[q] = "tokenFound"
      PROVE  row'[q] \notin used
  <2>1. PICK t \in Tokens : token[t] = "live" /\ Starts(q, "tokenFound", use'[q], t)
    BY <1>1, OneWayIn DEF IInv
  <2>2. row'[q] = t
    BY <1>1, <2>1 DEF Starts, IInv, TypeOK
  <2> QED
    BY <1>1, <2>1, <2>2 DEF IInv, TokenPart
<1>2. IInv /\ [Next]_vars =>
        [\A q \in Requests : step[q] = "idle" /\ step'[q] = "tokenFound" => row'[q] \notin used]_vars
  BY <1>1
<1> QED
  BY <1>2, Inductive, PTL DEF Spec, UsedTokensAreGone

\* Who was suspended or deleted during the whole of a request does not get in, by
\* password or by token.
THEOREM TheBarredStayOut == Spec => BarredStayOut
<1>1. ASSUME IInv, [Next]_vars, NEW q \in Requests, GetsIn(q)
      PROVE  q \notin barred
  <2>1. CASE step[q] = "updated"
    BY <1>1, <2>1 DEF IInv, EntryPart, LoginSteps
  <2>2. CASE step[q] = "spent" /\ step'[q] = "accepted"
    <3>1. AcceptUser(q)
      BY <1>1, <2>2, OneWayIn DEF IInv
    <3> QED
      BY <1>1, <3>1 DEF AcceptUser, IInv, TypeOK
  <2> QED
    BY <1>1, <2>1, <2>2 DEF GetsIn
<1>2. IInv /\ [Next]_vars => [\A q \in Requests : GetsIn(q) => q \notin barred]_vars
  BY <1>1
<1> QED
  BY <1>2, Inductive, PTL DEF Spec, BarredStayOut

-----------------------------------------------------------------------------
(* Requests that do not overlap *)

\* Whoever else may be served at other times, only one request is under way.
OneAtATime == \A p, q \in Requests : step[p] # "idle" /\ step[q] # "idle" => p = q

\* Then no row is written back or created out of turn, a password that was matched is
\* still there, and a token that was found has not been used.
SerialInv ==
  /\ revived = {} /\ crossed = {}
  /\ \A q \in Requests : step[q] = "matched" => password[row[q]] = "live"
  /\ \A q \in Requests : step[q] \in {"tokenFound", "spent"} => row[q] \notin used

LEMMA SerialUntouched ==
  ASSUME TypeOK, SerialInv, NEW q \in Requests,
         NEW s \in Steps \ {"matched", "tokenFound", "spent"}, To(q, s),
         UNCHANGED <<password, used, revived, crossed>>,
         \A r \in Requests \ {q} : row'[r] = row[r]
  PROVE  SerialInv'
<1>1. \A r \in Requests : step'[r] = IF r = q THEN s ELSE step[r]
  BY DEF TypeOK, To
<1> QED BY <1>1 DEF SerialInv

LEMMA LoginsAreSerial ==
  ASSUME IInv, SerialInv, OneAtATime, NEW q \in Requests, Login(q)
  PROVE  SerialInv'
<1> TypeOK
  BY DEF IInv
<1> DEFINE Other == Steps \ {"matched", "tokenFound", "spent"}
<1>1. {"idle", "found", "updated", "issuing"} \subseteq Other
  BY DEF Steps
<1>2. CASE FindUser(q)
  <2>1. Starts(q, "found", "none", None) /\ UNCHANGED <<password, used, revived, crossed>>
    BY <1>2 DEF FindUser, rowVars
  <2>2. To(q, "found") /\ \A r \in Requests \ {q} : row'[r] = row[r]
    BY <2>1 DEF Starts, TypeOK
  <2> QED BY <1>1, <2>1, <2>2, SerialUntouched
<1>3. ASSUME NEW p \in Passwords, MatchPassword(q, p)
      PROVE  SerialInv'
  <2>1. /\ \A r \in Requests : step'[r] = IF r = q THEN "matched" ELSE step[r]
        /\ \A r \in Requests : row'[r] = IF r = q THEN p ELSE row[r]
        /\ password[p] = "live" /\ UNCHANGED <<password, used, revived, crossed>>
    BY <1>3 DEF MatchPassword, To, TypeOK, rowVars, history
  <2> QED BY <2>1 DEF SerialInv
<1>4. CASE UpdateLastUse(q)
  <2>1. step[q] = "matched" /\ row[q] \in Passwords /\ password[row[q]] = "live"
    BY <1>4 DEF UpdateLastUse, SerialInv, TypeOK
  <2>2. password' = password /\ UNCHANGED <<row, used, revived, crossed>> /\ To(q, "updated")
    BY <1>4, <2>1 DEF UpdateLastUse, TypeOK
  <2> QED BY <1>1, <2>2, SerialUntouched
<1>5. CASE LoggedIn(q) \/ \E t \in Tokens : IssueToken(q, t)
  <2>1. Ends(q) /\ UNCHANGED <<password, used, revived, crossed>>
    BY <1>5 DEF LoggedIn, IssueToken, Returns, rowVars
  <2>2. To(q, "idle") /\ \A r \in Requests \ {q} : row'[r] = row[r]
    BY <2>1, EndsTyped
  <2> QED BY <1>1, <2>1, <2>2, SerialUntouched
<1>6. CASE NotConfirmed(q)
  <2>1. To(q, "issuing") /\ UNCHANGED <<password, row, used, revived, crossed>>
    BY <1>6 DEF NotConfirmed, rowVars, history
  <2> QED BY <1>1, <2>1, SerialUntouched
<1> QED BY <1>2, <1>3, <1>4, <1>5, <1>6 DEF Login

LEMMA ChangesAreSerial ==
  ASSUME IInv, SerialInv, OneAtATime, NEW q \in Requests, Change(q)
  PROVE  SerialInv'
<1> TypeOK
  BY DEF IInv
<1> DEFINE Other == Steps \ {"matched", "tokenFound", "spent"}
<1>1. {"idle", "checked", "deleted"} \subseteq Other
  BY DEF Steps
<1>2. CASE SetByAdmin(q) \/ \E p \in Passwords : CheckOldPassword(q, p)
  <2>1. PICK n \in {"change", "admin"} : /\ Starts(q, "checked", n, None)
                                         /\ UNCHANGED <<password, used, revived, crossed>>
    BY <1>2 DEF SetByAdmin, CheckOldPassword, rowVars
  <2>2. To(q, "checked") /\ \A r \in Requests \ {q} : row'[r] = row[r]
    BY <2>1 DEF Starts, TypeOK
  <2> QED BY <1>1, <2>1, <2>2, SerialUntouched
<1>3. CASE DeleteOld(q)
  <2>1. /\ \A r \in Requests : step'[r] = IF r = q THEN "deleted" ELSE "idle"
        /\ revived' = {} /\ crossed' = {}
    BY <1>3 DEF DeleteOld, To, TypeOK, OneAtATime
  <2> QED BY <2>1 DEF SerialInv
<1>4. CASE CreateNew(q)
  <2>1. HalfDone = {q}
    BY <1>4 DEF CreateNew, HalfDone, OneAtATime
  <2>2. step[q] = "deleted" /\ Ends(q) /\ UNCHANGED <<revived, crossed>>
    BY <1>4, <2>1 DEF CreateNew, Returns
  <2>3. \A r \in Requests : step'[r] = "idle"
    BY <2>2, EndsTyped DEF OneAtATime
  <2> QED BY <2>2, <2>3 DEF SerialInv
<1>5. CASE ChangeFails(q)
  <2>1. Ends(q) /\ UNCHANGED <<password, used, revived, crossed>>
    BY <1>5 DEF ChangeFails, Returns, rowVars
  <2>2. To(q, "idle") /\ \A r \in Requests \ {q} : row'[r] = row[r]
    BY <2>1, EndsTyped
  <2> QED BY <1>1, <2>1, <2>2, SerialUntouched
<1> QED BY <1>2, <1>3, <1>4, <1>5 DEF Change

LEMMA TokensAreSerial ==
  ASSUME IInv, SerialInv, OneAtATime, NEW q \in Requests, UseToken(q)
  PROVE  SerialInv'
<1> TypeOK
  BY DEF IInv
<1> DEFINE Other == Steps \ {"matched", "tokenFound", "spent"}
<1>1. {"idle", "checked", "accepted"} \subseteq Other
  BY DEF Steps
<1>2. ASSUME NEW t \in Tokens, NEW n \in {"auth", "exchange", "confirm", "reset"},
             FindToken(q, t, n)
      PROVE  SerialInv'
  <2>1. t \notin used /\ UNCHANGED <<password, used, revived, crossed>>
    BY <1>2 DEF FindToken, IInv, TokenPart, rowVars
  <2>2. /\ \A r \in Requests : step'[r] = IF r = q THEN "tokenFound" ELSE step[r]
        /\ \A r \in Requests : row'[r] = IF r = q THEN t ELSE row[r]
    BY <1>2 DEF FindToken, Starts, To, TypeOK
  <2> QED BY <2>1, <2>2 DEF SerialInv
<1>3. CASE SpendToken(q) /\ row[q] \notin expired
  <2>1. /\ \A r \in Requests : step'[r] = IF r = q THEN "spent" ELSE step[r]
        /\ step[q] = "tokenFound" /\ UNCHANGED <<password, row, used, revived, crossed>>
    BY <1>3 DEF SpendToken, To, TypeOK
  <2> QED BY <2>1 DEF SerialInv
<1>4. CASE AcceptUser(q)
  <2>1. /\ \A r \in Requests : step'[r] = IF r = q THEN "accepted" ELSE "idle"
        /\ UNCHANGED <<revived, crossed>>
    BY <1>4 DEF AcceptUser, To, TypeOK, OneAtATime
  <2> QED BY <2>1 DEF SerialInv
<1>5. CASE ConfirmEmail(q) /\ use[q] = "reset"
  <2>1. To(q, "checked") /\ UNCHANGED <<password, row, used, revived, crossed>>
    BY <1>5 DEF ConfirmEmail
  <2> QED BY <1>1, <2>1, SerialUntouched
<1>6. CASE \/ SpendToken(q) /\ row[q] \in expired
           \/ TokenLogsIn(q)
           \/ ConfirmEmail(q) /\ use[q] # "reset"
  <2>1. Ends(q) /\ UNCHANGED <<password, used, revived, crossed>>
    BY <1>6 DEF SpendToken, TokenLogsIn, ConfirmEmail, Returns, ReturnsWritten, rowVars
  <2>2. To(q, "idle") /\ \A r \in Requests \ {q} : row'[r] = row[r]
    BY <2>1, EndsTyped
  <2> QED BY <1>1, <2>1, <2>2, SerialUntouched
<1> QED BY <1>2, <1>3, <1>4, <1>5, <1>6 DEF UseToken

LEMMA StepsAreSerial ==
  ASSUME IInv, SerialInv, OneAtATime, [Next]_vars
  PROVE  SerialInv'
<1> TypeOK
  BY DEF IInv
<1>1. "idle" \in Steps \ {"matched", "tokenFound", "spent"}
      /\ "editing" \in Steps \ {"matched", "tokenFound", "spent"}
  BY DEF Steps
<1>2. ASSUME NEW q \in Requests, ReadForEdit(q)
      PROVE  SerialInv'
  <2>1. Starts(q, "editing", "none", None) /\ UNCHANGED <<password, used, revived, crossed>>
    BY <1>2 DEF ReadForEdit, rowVars
  <2>2. To(q, "editing") /\ \A r \in Requests \ {q} : row'[r] = row[r]
    BY <2>1 DEF Starts, TypeOK
  <2> QED BY <1>1, <2>1, <2>2, SerialUntouched
<1>3. ASSUME NEW q \in Requests, WriteEdit(q) \/ Fails(q)
      PROVE  SerialInv'
  <2>1. Ends(q) /\ UNCHANGED <<password, used, revived, crossed>>
    BY <1>3 DEF WriteEdit, Fails, Returns, ReturnsWritten, rowVars
  <2>2. To(q, "idle") /\ \A r \in Requests \ {q} : row'[r] = row[r]
    BY <2>1, EndsTyped
  <2> QED BY <1>1, <2>1, <2>2, SerialUntouched
<1>4. CASE \/ \E m \in {"suspended", "deleted"} : Mark(m) \/ Unmark(m)
           \/ \E t \in Tokens : Expire(t)
           \/ UNCHANGED vars
  <2>1. UNCHANGED <<password, step, row, used, revived, crossed>>
    BY <1>4 DEF Mark, Unmark, Expire, vars, rowVars, reqVars, history
  <2> QED BY <2>1 DEF SerialInv
<1> QED
  BY <1>2, <1>3, <1>4, LoginsAreSerial, ChangesAreSerial, TokensAreSerial DEF Next

\* As long as requests for one user do not overlap, no password but the newest lets
\* anybody in: every row that auth.go leaves beside it takes a race.
THEOREM SerialPasswords ==
  Spec /\ []OneAtATime => [](Live \subseteq {Newest})
<1>1. Init => SerialInv
  BY DEF Init, SerialInv
<1>2. IInv /\ SerialInv /\ OneAtATime /\ [Next]_vars => SerialInv'
  BY StepsAreSerial
<1>3. IInv /\ SerialInv => Live \subseteq {Newest}
  BY DEF IInv, PasswordPart, OldPasswordsAreGone, SerialInv
<1> QED BY <1>1, <1>2, <1>3, Inductive, PTL DEF Spec

\* As long as they do not, a token is accepted once (loadUserFromToken in auth.go
\* deletes it only after it has found it).
THEOREM SerialTokens ==
  Spec /\ []OneAtATime =>
    [][\A q \in Requests : step[q] = "spent" /\ step'[q] = "accepted"
         => row[q] \notin used]_vars
<1>1. Init => SerialInv
  BY DEF Init, SerialInv
<1>2. IInv /\ SerialInv /\ OneAtATime /\ [Next]_vars => SerialInv'
  BY StepsAreSerial
<1>3. SerialInv /\ [Next]_vars =>
        [\A q \in Requests : step[q] = "spent" /\ step'[q] = "accepted"
           => row[q] \notin used]_vars
  BY DEF SerialInv
<1> QED BY <1>1, <1>2, <1>3, Inductive, PTL DEF Spec

=============================================================================
