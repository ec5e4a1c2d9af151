------------------------- MODULE AuthSessionProofs -------------------------
(***************************************************************************)
(* The safety of AuthSession for every finite number of tabs and every     *)
(* bound on sign-ins, calls and losses.                                    *)
(***************************************************************************)
EXTENDS AuthSession, FiniteSetTheorems, TLAPS

(* The tabs whose request may still make the server issue a token.         *)
Asking == {"keying", "fetching", "bare", "unauthorized", "refreshing", "rotating"}
Pending == {c \in Tab : pc[c] \in Asking}

(* A token is issued for a sign-in or a call, once for each.               *)
Counted == issued + Cardinality(Pending) <= logins + calls

(* A family is named by a token that has been issued.                      *)
FamiliesIssued == \A t \in 1 .. issued : family[t] \in 1 .. issued

(* Whoever is about to write or to deliver a token holds one.              *)
HoldersHold ==
  \A c \in Tab : pc[c] \in {"granted", "rotating", "revoking", "rotated"} => held[c] \in 1 .. issued

(* Without an overlap there is one session request at a time, and the row  *)
(* that a rotation read as valid still is.                                 *)
OneAtATime ==
  ~overlap =>
    /\ \A c, d \in Tab : pc[c] \in SessionRequest /\ pc[d] \in SessionRequest => c = d
    /\ \A c \in Tab : pc[c] = "rotating" => held[c] \in valid

(* Nothing has happened yet that may end a session.                        *)
Calm == ~signedOut /\ failures = 0 /\ expired = {} /\ ~raced

Carrying == {"granted", "refreshing", "rotating", "rotated"}
Bringing == {"granted", "rotated"}

(* As long as that is so, there is one refresh at a time, tokens on the    *)
(* way are valid, and a token that an answer brings is nobody else's.      *)
CalmRequests ==
  Calm =>
    /\ \A c \in Tab : pc[c] \notin {"revoking", "refused", "leaving", "left"}
    /\ \A c, d \in Tab : pc[c] \in RefreshInFlight /\ pc[d] \in RefreshInFlight => c = d
    /\ \A c \in Tab : pc[c] \in Carrying => held[c] \in valid
    /\ \A c \in Tab : pc[c] \in Bringing =>
         /\ held[c] # jar
         /\ \A d \in Tab \ {c} : pc[d] \in Carrying => held[d] # held[c]

(* The token of the jar is valid, unless its successor is on the way, and  *)
(* whoever is signed in has one.                                           *)
CalmJar ==
  Calm =>
    /\ (\A c \in Tab : pc[c] # "rotated") => jar = NoToken \/ jar \in valid
    /\ status => jar # NoToken
    /\ \A c \in Tab : (at[c] = "dashboard" \/ pc[c] \in {"fetching", "bare", "unauthorized"})
                        => jar # NoToken

CalmSession == CalmRequests /\ CalmJar

TypeInv == TypeOK /\ Counted
SessionInv == TypeInv /\ FamiliesIssued /\ HoldersHold /\ OneAtATime /\ SingleLiveToken
IndInv == SessionInv /\ CalmSession /\ SessionLostForAReason

-----------------------------------------------------------------------------
(* Types and the number of tokens.                                         *)

(* How the number of asking tabs changes when one tab moves.               *)
LEMMA PendingMoves ==
  ASSUME TypeOK, NEW c \in Tab, NEW to, pc' = [pc EXCEPT ![c] = to]
  PROVE  /\ Cardinality(Pending) \in Nat
         /\ pc[c] \in Asking => Cardinality(Pending) > 0
         /\ Cardinality(Pending)' =
              IF pc[c] \in Asking /\ to \notin Asking THEN Cardinality(Pending) - 1
              ELSE IF pc[c] \notin Asking /\ to \in Asking THEN Cardinality(Pending) + 1
              ELSE Cardinality(Pending)
<1>1. IsFiniteSet(Pending) /\ Cardinality(Pending) \in Nat
  BY BoundsAssumption, FS_Subset, FS_CardinalityType, Zenon DEF Pending
<1>2. pc \in [Tab -> ProgramCounter]
  BY Zenon DEF TypeOK
<1>3. pc[c] \in Asking => Cardinality(Pending) > 0
  <2>1. pc[c] \in Asking => Pending # {}
    BY Zenon DEF Pending
  <2> QED
    BY <2>1, <1>1, FS_EmptySet
<1>4. CASE pc[c] \in Asking /\ to \notin Asking
  <2>1. Pending' = Pending \ {c} /\ c \in Pending
    BY <1>2, <1>4, Zenon DEF Pending
  <2> QED
    BY <1>1, <1>3, <1>4, <2>1, FS_RemoveElement, Zenon
<1>5. CASE pc[c] \notin Asking /\ to \in Asking
  <2>1. Pending' = Pending \cup {c} /\ c \notin Pending
    BY <1>2, <1>5, Zenon DEF Pending
  <2> QED
    BY <1>1, <1>3, <1>5, <2>1, FS_AddElement, Zenon
<1>6. CASE pc[c] \in Asking <=> to \in Asking
  <2>1. Pending' = Pending
    BY <1>2, <1>6, Zenon DEF Pending
  <2> QED
    BY <1>1, <1>3, <1>6, <2>1, Zenon
<1> QED
  BY <1>4, <1>5, <1>6, Zenon

(* A token that is to be issued is one of the Tokens.                      *)
LEMMA NextTokenIsToken ==
  ASSUME TypeInv, NEW c \in Tab, pc[c] \in Asking
  PROVE  issued + 1 \in Token
<1>1. Cardinality(Pending) \in Nat /\ Cardinality(Pending) > 0
  <2>1. IsFiniteSet(Pending) /\ Pending # {}
    BY BoundsAssumption, FS_Subset, Zenon DEF Pending
  <2> QED
    BY <2>1, FS_CardinalityType, FS_EmptySet
<1> QED
  BY <1>1, BoundsAssumption DEF TypeInv, TypeOK, Counted, Token

LEMMA InitInd == Init => IndInv
<1> SUFFICES ASSUME Init PROVE IndInv
  BY Zenon
<1>1. Pending = {} /\ Cardinality(Pending) = 0
  BY FS_EmptySet, Zenon DEF Init, Pending, Asking
<1>2. Counted
  BY <1>1 DEF Init, Counted
<1>3. TypeOK
  <2>1. family \in [Token -> Token \cup {NoToken}]
    BY Zenon DEF Init
  <2>2. at \in [Tab -> {"login", "dashboard"}] /\ pc \in [Tab -> ProgramCounter]
    BY Zenon DEF Init, ProgramCounter
  <2>3. held \in [Tab -> 0 .. issued]
    BY DEF Init, NoToken
  <2>4. issued = 0 /\ jar = 0 /\ logins = 0 /\ calls = 0 /\ failures = 0 /\ valid = {} /\ expired = {}
    BY Zenon DEF Init, NoToken
  <2>5. /\ access \in BOOLEAN /\ status \in BOOLEAN
        /\ overlap \in BOOLEAN /\ signedOut \in BOOLEAN /\ raced \in BOOLEAN /\ dropped \in BOOLEAN
    BY Zenon DEF Init
  <2> QED
    BY <2>1, <2>2, <2>3, <2>4, <2>5, BoundsAssumption DEF TypeOK
<1> QED
  BY <1>2, <1>3 DEF Init, IndInv, TypeInv, SessionInv, FamiliesIssued, HoldersHold, OneAtATime, SingleLiveToken,
     CalmSession, CalmRequests, CalmJar, SessionLostForAReason, Calm, SessionRequest, Carrying, Bringing,
     RefreshInFlight, NoToken

(* Every step keeps the types.                                             *)
LEMMA TypeStep == ASSUME TypeInv, HoldersHold, [Next]_vars PROVE TypeOK'
<1> USE BoundsAssumption DEF TypeInv, TypeOK, vars, table, browser, causes, history, bounds, Enters, ProgramCounter, NoToken
<1>1. ASSUME NEW c \in Tab, LoginSend(c) PROVE TypeOK'
  BY <1>1 DEF LoginSend
<1>2. ASSUME NEW c \in Tab, LoginCommit(c) PROVE TypeOK'
  <2>1. issued + 1 \in Token
    BY <1>2, NextTokenIsToken, Zenon DEF LoginCommit, Asking
  <2> QED
    BY <1>2, <2>1 DEF LoginCommit, Token
<1>3. ASSUME NEW c \in Tab, LoginRefused(c) PROVE TypeOK'
  BY <1>3, Zenon DEF LoginRefused
<1>4. ASSUME NEW c \in Tab, LoginArrives(c) PROVE TypeOK'
  BY <1>4 DEF LoginArrives
<1>5. ASSUME NEW c \in Tab, Open(c) PROVE TypeOK'
  BY <1>5, Zenon DEF Open
<1>6. ASSUME NEW c \in Tab, CallSend(c) PROVE TypeOK'
  BY <1>6 DEF CallSend
<1>7. ASSUME NEW c \in Tab, CallAnswered(c) PROVE TypeOK'
  BY <1>7, Zenon DEF CallAnswered
<1>8. ASSUME NEW c \in Tab, RefreshSend(c) PROVE TypeOK'
  BY <1>8, Zenon DEF RefreshSend
<1>9. ASSUME NEW c \in Tab, RefreshRead(c) PROVE TypeOK'
  BY <1>9, Zenon DEF RefreshRead
<1>10. ASSUME NEW c \in Tab, RevokeFamily(c) PROVE TypeOK'
  BY <1>10, Zenon DEF RevokeFamily
<1>11. ASSUME NEW c \in Tab, Rotate(c) PROVE TypeOK'
  <2>1. issued + 1 \in Token
    BY <1>11, NextTokenIsToken, Zenon DEF Rotate, Asking
  <2>2. family' \in [Token -> Token \cup {NoToken}]
    BY <1>11, <2>1 DEF Rotate, Token, HoldersHold
  <2>3. pc' \in [Tab -> ProgramCounter] /\ held' \in [Tab -> 0 .. issued']
    BY <1>11, <2>1 DEF Rotate, Token
  <2>4. valid' \subseteq 1 .. issued' /\ issued' \in 0 .. MaxLogins + MaxCalls
    <3>1. valid' \subseteq valid \cup {issued'} /\ issued' = issued + 1
      BY <1>11, Zenon DEF Rotate
    <3> QED
      BY <2>1, <3>1 DEF Token
  <2>5. /\ jar' \in 0 .. issued' /\ expired' \subseteq 1 .. issued' /\ overlap' \in BOOLEAN
        /\ UNCHANGED <<access, status, at, signedOut, raced, dropped, logins, calls, failures>>
    BY <1>11 DEF Rotate
  <2> QED
    BY <2>2, <2>3, <2>4, <2>5, Zenon
<1>12. ASSUME NEW c \in Tab, RefreshArrives(c) PROVE TypeOK'
  BY <1>12 DEF RefreshArrives
<1>13. ASSUME NEW c \in Tab, RefreshFails(c) PROVE TypeOK'
  <2>1. at' \in [Tab -> {"login", "dashboard"}]
    BY <1>13, Zenon DEF RefreshFails
  <2>2. pc' \in [Tab -> ProgramCounter] /\ held' \in [Tab -> 0 .. issued']
    BY <1>13 DEF RefreshFails
  <2> QED
    BY <1>13, <2>1, <2>2, Zenon DEF RefreshFails
<1>14. ASSUME NEW c \in Tab, RetryAnswered(c) PROVE TypeOK'
  BY <1>14, Zenon DEF RetryAnswered
<1>15. ASSUME NEW c \in Tab, LogoutSend(c) PROVE TypeOK'
  BY <1>15, Zenon DEF LogoutSend
<1>16. ASSUME NEW c \in Tab, LogoutCommit(c) PROVE TypeOK'
  BY <1>16, Zenon DEF LogoutCommit
<1>17. ASSUME NEW c \in Tab, LogoutArrives(c) PROVE TypeOK'
  <2>1. at' \in [Tab -> {"login", "dashboard"}]
    BY <1>17, Zenon DEF LogoutArrives
  <2>2. pc' \in [Tab -> ProgramCounter] /\ held' \in [Tab -> 0 .. issued']
    BY <1>17 DEF LogoutArrives
  <2> QED
    BY <1>17, <2>1, <2>2, Zenon DEF LogoutArrives
<1>18. ASSUME NEW c \in Tab, Lose(c) PROVE TypeOK'
  <2>1. at' \in [Tab -> {"login", "dashboard"}]
    BY <1>18, Zenon DEF Lose
  <2>2. pc' \in [Tab -> ProgramCounter] /\ held' \in [Tab -> 0 .. issued']
    BY <1>18 DEF Lose
  <2>3. /\ status' \in BOOLEAN /\ overlap' \in BOOLEAN /\ dropped' \in BOOLEAN
        /\ failures' \in 0 .. MaxFailures
    <3>1. failures < MaxFailures /\ failures' = failures + 1
      BY <1>18, Zenon DEF Lose
    <3>2. status' \in BOOLEAN
      BY <1>18, Zenon DEF Lose
    <3>3. overlap' \in BOOLEAN /\ dropped' \in BOOLEAN
      BY <1>18, Zenon DEF Lose
    <3> QED
      BY <3>1, <3>2, <3>3
  <2>4. UNCHANGED <<issued, family, valid, expired, jar, access, signedOut, raced, logins, calls>>
    BY <1>18, Zenon DEF Lose
  <2> QED
    BY <2>1, <2>2, <2>3, <2>4, Zenon
<1>19. ASSUME NEW c \in Tab, RefreshRejected(c) PROVE TypeOK'
  <2>1. /\ at' \in [Tab -> {"login", "dashboard"}] /\ pc' \in [Tab -> ProgramCounter]
        /\ status' \in BOOLEAN /\ overlap' \in BOOLEAN
        /\ UNCHANGED <<issued, family, valid, expired, jar, access, signedOut, raced, dropped, logins, calls>>
    BY <1>19, Zenon DEF RefreshRejected
  <2>2. failures < MaxFailures /\ failures' = failures + 1
    BY <1>19, Zenon DEF RefreshRejected
  <2>3. failures' \in 0 .. MaxFailures
    BY <2>2
  <2>4. held' \in [Tab -> 0 .. issued']
    BY <1>19 DEF RefreshRejected
  <2> QED
    BY <2>1, <2>3, <2>4, Zenon
<1>20. ASSUME NEW c \in Tab, LogoutRejected(c) PROVE TypeOK'
  <2>1. /\ at' \in [Tab -> {"login", "dashboard"}] /\ pc' \in [Tab -> ProgramCounter]
        /\ status' \in BOOLEAN /\ overlap' \in BOOLEAN
        /\ UNCHANGED <<issued, family, valid, expired, jar, access, signedOut, raced, dropped, logins, calls>>
    BY <1>20, Zenon DEF LogoutRejected
  <2>2. failures < MaxFailures /\ failures' = failures + 1
    BY <1>20, Zenon DEF LogoutRejected
  <2>3. failures' \in 0 .. MaxFailures
    BY <2>2
  <2>4. held' \in [Tab -> 0 .. issued']
    BY <1>20 DEF LogoutRejected
  <2> QED
    BY <2>1, <2>3, <2>4, Zenon
<1>21. CASE AccessExpires
  BY <1>21, Zenon DEF AccessExpires
<1>22. CASE RefreshExpires
  BY <1>22, Zenon DEF RefreshExpires
<1>23. CASE UNCHANGED vars
  BY <1>23, Zenon
<1> QED
  BY <1>1, <1>2, <1>3, <1>4, <1>5, <1>6, <1>7, <1>8, <1>9, <1>10, <1>11, <1>12, <1>13, <1>14, <1>15, <1>16, <1>17, <1>18, <1>19, <1>20, <1>21, <1>22, <1>23, Zenon DEF Next, InFlight

(* What a tab's move must do for the count to hold.                        *)
LEMMA CountedMoves ==
  ASSUME TypeInv, NEW c \in Tab, NEW to, pc' = [pc EXCEPT ![c] = to],
         \/ /\ issued' = issued /\ logins' = logins /\ calls' = calls
            /\ to \in Asking => pc[c] \in Asking
         \/ issued' = issued /\ logins' = logins + 1 /\ calls' = calls
         \/ issued' = issued /\ logins' = logins /\ calls' = calls + 1
         \/ /\ issued' = issued + 1 /\ logins' = logins /\ calls' = calls
            /\ pc[c] \in Asking /\ to \notin Asking
  PROVE  Counted'
<1>1. issued \in Nat /\ logins \in Nat /\ calls \in Nat /\ Counted
  BY BoundsAssumption DEF TypeInv, TypeOK
<1>2. /\ Cardinality(Pending) \in Nat
      /\ Cardinality(Pending)' =
           IF pc[c] \in Asking /\ to \notin Asking THEN Cardinality(Pending) - 1
           ELSE IF pc[c] \notin Asking /\ to \in Asking THEN Cardinality(Pending) + 1
           ELSE Cardinality(Pending)
  BY PendingMoves, Zenon DEF TypeInv
<1> QED
  BY <1>1, <1>2 DEF Counted

(* A token is only ever issued on behalf of a tab that was asking for one. *)
LEMMA CountedStep == ASSUME TypeInv, [Next]_vars PROVE Counted'
<1> USE DEF table, browser, causes, history, bounds, Enters, Asking
<1>1. ASSUME NEW c \in Tab, LoginSend(c) PROVE Counted'
  BY <1>1, CountedMoves, Zenon DEF LoginSend
<1>2. ASSUME NEW c \in Tab, LoginCommit(c) PROVE Counted'
  BY <1>2, CountedMoves, Zenon DEF LoginCommit
<1>3. ASSUME NEW c \in Tab, LoginRefused(c) PROVE Counted'
  BY <1>3, CountedMoves, Zenon DEF LoginRefused
<1>4. ASSUME NEW c \in Tab, LoginArrives(c) PROVE Counted'
  BY <1>4, CountedMoves, Zenon DEF LoginArrives
<1>5. ASSUME NEW c \in Tab, Open(c) PROVE Counted'
  <2>1. Pending' = Pending
    BY <1>5, Zenon DEF Pending, Open
  <2> QED
    BY <1>5, <2>1, Zenon DEF Open, Counted, TypeInv
<1>6. ASSUME NEW c \in Tab, CallSend(c) PROVE Counted'
  BY <1>6, CountedMoves, Zenon DEF CallSend
<1>7. ASSUME NEW c \in Tab, CallAnswered(c) PROVE Counted'
  BY <1>7, CountedMoves, Zenon DEF CallAnswered
<1>8. ASSUME NEW c \in Tab, RefreshSend(c) PROVE Counted'
  BY <1>8, CountedMoves, Zenon DEF RefreshSend
<1>9. ASSUME NEW c \in Tab, RefreshRead(c) PROVE Counted'
  BY <1>9, CountedMoves, Zenon DEF RefreshRead
<1>10. ASSUME NEW c \in Tab, RevokeFamily(c) PROVE Counted'
  BY <1>10, CountedMoves, Zenon DEF RevokeFamily
<1>11. ASSUME NEW c \in Tab, Rotate(c) PROVE Counted'
  BY <1>11, CountedMoves, Zenon DEF Rotate
<1>12. ASSUME NEW c \in Tab, RefreshArrives(c) PROVE Counted'
  BY <1>12, CountedMoves, Zenon DEF RefreshArrives
<1>13. ASSUME NEW c \in Tab, RefreshFails(c) PROVE Counted'
  BY <1>13, CountedMoves, Zenon DEF RefreshFails
<1>14. ASSUME NEW c \in Tab, RetryAnswered(c) PROVE Counted'
  BY <1>14, CountedMoves, Zenon DEF RetryAnswered
<1>15. ASSUME NEW c \in Tab, LogoutSend(c) PROVE Counted'
  BY <1>15, CountedMoves, Zenon DEF LogoutSend
<1>16. ASSUME NEW c \in Tab, LogoutCommit(c) PROVE Counted'
  BY <1>16, CountedMoves, Zenon DEF LogoutCommit
<1>17. ASSUME NEW c \in Tab, LogoutArrives(c) PROVE Counted'
  BY <1>17, CountedMoves, Zenon DEF LogoutArrives
<1>18. ASSUME NEW c \in Tab, Lose(c) PROVE Counted'
  BY <1>18, CountedMoves, Zenon DEF Lose
<1>19. ASSUME NEW c \in Tab, RefreshRejected(c) PROVE Counted'
  BY <1>19, CountedMoves, Zenon DEF RefreshRejected
<1>20. ASSUME NEW c \in Tab, LogoutRejected(c) PROVE Counted'
  BY <1>20, CountedMoves, Zenon DEF LogoutRejected
<1>21. CASE AccessExpires
  <2>1. Pending' = Pending
    BY <1>21, Zenon DEF Pending, AccessExpires
  <2> QED
    BY <1>21, <2>1, Zenon DEF AccessExpires, Counted, TypeInv
<1>22. CASE RefreshExpires
  <2>1. Pending' = Pending
    BY <1>22, Zenon DEF Pending, RefreshExpires
  <2> QED
    BY <1>22, <2>1, Zenon DEF RefreshExpires, Counted, TypeInv
<1>23. CASE UNCHANGED vars
  BY <1>23, Zenon DEF vars, TypeInv, Counted, Pending
<1> QED
  BY <1>1, <1>2, <1>3, <1>4, <1>5, <1>6, <1>7, <1>8, <1>9, <1>10,
     <1>11, <1>12, <1>13, <1>14, <1>15, <1>16, <1>17, <1>18, <1>19, <1>20, <1>21, <1>22, <1>23, Zenon DEF Next, InFlight

-----------------------------------------------------------------------------
(* The table and the requests in flight.                                   *)

(* Families and tokens on the way are among those issued.                  *)
LEMMA FamilyStep == ASSUME TypeInv, FamiliesIssued, HoldersHold, [Next]_vars PROVE FamiliesIssued' /\ HoldersHold'
<1> USE BoundsAssumption DEF TypeInv, TypeOK, FamiliesIssued, HoldersHold,
       vars, table, browser, causes, history, bounds, Enters, ProgramCounter, NoToken
<1>1. ASSUME NEW c \in Tab, LoginSend(c) PROVE FamiliesIssued' /\ HoldersHold'
  BY <1>1, Zenon DEF LoginSend
<1>2. ASSUME NEW c \in Tab, LoginCommit(c) PROVE FamiliesIssued' /\ HoldersHold'
  <2>1. issued + 1 \in Token
    BY <1>2, NextTokenIsToken, Zenon DEF LoginCommit, Asking
  <2>2. FamiliesIssued'
    BY <1>2, <2>1 DEF LoginCommit, Token
  <2>3. HoldersHold'
    BY <1>2, <2>1 DEF LoginCommit
  <2> QED
    BY <2>2, <2>3, Zenon
<1>3. ASSUME NEW c \in Tab, LoginRefused(c) PROVE FamiliesIssued' /\ HoldersHold'
  BY <1>3, Zenon DEF LoginRefused
<1>4. ASSUME NEW c \in Tab, LoginArrives(c) PROVE FamiliesIssued' /\ HoldersHold'
  BY <1>4, Zenon DEF LoginArrives
<1>5. ASSUME NEW c \in Tab, Open(c) PROVE FamiliesIssued' /\ HoldersHold'
  BY <1>5, Zenon DEF Open
<1>6. ASSUME NEW c \in Tab, CallSend(c) PROVE FamiliesIssued' /\ HoldersHold'
  BY <1>6, Zenon DEF CallSend
<1>7. ASSUME NEW c \in Tab, CallAnswered(c) PROVE FamiliesIssued' /\ HoldersHold'
  BY <1>7 DEF CallAnswered
<1>8. ASSUME NEW c \in Tab, RefreshSend(c) PROVE FamiliesIssued' /\ HoldersHold'
  BY <1>8, Zenon DEF RefreshSend
<1>9. ASSUME NEW c \in Tab, RefreshRead(c) PROVE FamiliesIssued' /\ HoldersHold'
  BY <1>9 DEF RefreshRead
<1>10. ASSUME NEW c \in Tab, RevokeFamily(c) PROVE FamiliesIssued' /\ HoldersHold'
  BY <1>10, Zenon DEF RevokeFamily
<1>11. ASSUME NEW c \in Tab, Rotate(c) PROVE FamiliesIssued' /\ HoldersHold'
  <2>1. issued + 1 \in Token
    BY <1>11, NextTokenIsToken, Zenon DEF Rotate, Asking
  <2>2. FamiliesIssued'
    BY <1>11, <2>1 DEF Rotate, Token
  <2>3. HoldersHold'
    BY <1>11, <2>1 DEF Rotate
  <2> QED
    BY <2>2, <2>3, Zenon
<1>12. ASSUME NEW c \in Tab, RefreshArrives(c) PROVE FamiliesIssued' /\ HoldersHold'
  BY <1>12, Zenon DEF RefreshArrives
<1>13. ASSUME NEW c \in Tab, RefreshFails(c) PROVE FamiliesIssued' /\ HoldersHold'
  BY <1>13, Zenon DEF RefreshFails
<1>14. ASSUME NEW c \in Tab, RetryAnswered(c) PROVE FamiliesIssued' /\ HoldersHold'
  BY <1>14, Zenon DEF RetryAnswered
<1>15. ASSUME NEW c \in Tab, LogoutSend(c) PROVE FamiliesIssued' /\ HoldersHold'
  BY <1>15, Zenon DEF LogoutSend
<1>16. ASSUME NEW c \in Tab, LogoutCommit(c) PROVE FamiliesIssued' /\ HoldersHold'
  BY <1>16, Zenon DEF LogoutCommit
<1>17. ASSUME NEW c \in Tab, LogoutArrives(c) PROVE FamiliesIssued' /\ HoldersHold'
  BY <1>17, Zenon DEF LogoutArrives
<1>18. ASSUME NEW c \in Tab, Lose(c) PROVE FamiliesIssued' /\ HoldersHold'
  BY <1>18, Zenon DEF Lose
<1>19. ASSUME NEW c \in Tab, RefreshRejected(c) PROVE FamiliesIssued' /\ HoldersHold'
  BY <1>19, Zenon DEF RefreshRejected
<1>20. ASSUME NEW c \in Tab, LogoutRejected(c) PROVE FamiliesIssued' /\ HoldersHold'
  BY <1>20, Zenon DEF LogoutRejected
<1>21. CASE AccessExpires
  BY <1>21, Zenon DEF AccessExpires
<1>22. CASE RefreshExpires
  BY <1>22, Zenon DEF RefreshExpires
<1>23. CASE UNCHANGED vars
  BY <1>23, Zenon
<1> QED
  BY <1>1, <1>2, <1>3, <1>4, <1>5, <1>6, <1>7, <1>8, <1>9, <1>10,
     <1>11, <1>12, <1>13, <1>14, <1>15, <1>16, <1>17, <1>18, <1>19, <1>20, <1>21, <1>22, <1>23, Zenon DEF Next, InFlight

(* A request that begins while another is in flight is an overlap, so what *)
(* a rotation read as valid is still so when it commits.                   *)
LEMMA OneAtATimeStep == ASSUME SessionInv, [Next]_vars PROVE OneAtATime'
<1> USE DEF SessionInv, TypeInv, TypeOK, OneAtATime, SessionRequest,
       vars, table, browser, causes, history, bounds, Enters
<1>1. ASSUME NEW c \in Tab, LoginSend(c) PROVE OneAtATime'
  <2>1. ~overlap' => ~overlap /\ \A d \in Tab \ {c} : pc[d] \notin SessionRequest
    BY <1>1, Zenon DEF LoginSend
  <2>2. pc' = [pc EXCEPT ![c] = "keying"] /\ \A d \in Tab \ {c} : held'[d] = held[d]
    BY <1>1, Zenon DEF LoginSend
  <2>3. valid' = valid /\ pc \in [Tab -> ProgramCounter]
    BY <1>1, Zenon DEF LoginSend
  <2> HIDE DEF SessionInv, TypeInv, TypeOK, vars, table, browser, causes, history, bounds, Enters
  <2> QED
    BY <2>1, <2>2, <2>3 DEF SessionInv
<1>2. ASSUME NEW c \in Tab, LoginCommit(c) PROVE OneAtATime'
  BY <1>2 DEF LoginCommit
<1>3. ASSUME NEW c \in Tab, LoginRefused(c) PROVE OneAtATime'
  BY <1>3 DEF LoginRefused
<1>4. ASSUME NEW c \in Tab, LoginArrives(c) PROVE OneAtATime'
  BY <1>4 DEF LoginArrives
<1>5. ASSUME NEW c \in Tab, Open(c) PROVE OneAtATime'
  BY <1>5, Zenon DEF Open
<1>6. ASSUME NEW c \in Tab, CallSend(c) PROVE OneAtATime'
  BY <1>6 DEF CallSend
<1>7. ASSUME NEW c \in Tab, CallAnswered(c) PROVE OneAtATime'
  BY <1>7 DEF CallAnswered
<1>8. ASSUME NEW c \in Tab, RefreshSend(c) PROVE OneAtATime'
  <2>1. ~overlap' => ~overlap /\ \A d \in Tab \ {c} : pc[d] \notin SessionRequest
    BY <1>8, Zenon DEF RefreshSend
  <2>2. pc' = [pc EXCEPT ![c] = "refreshing"] /\ \A d \in Tab \ {c} : held'[d] = held[d]
    BY <1>8, Zenon DEF RefreshSend
  <2>3. valid' = valid /\ pc \in [Tab -> ProgramCounter]
    BY <1>8, Zenon DEF RefreshSend
  <2> HIDE DEF SessionInv, TypeInv, TypeOK, vars, table, browser, causes, history, bounds, Enters
  <2> QED
    BY <2>1, <2>2, <2>3 DEF SessionInv
<1>9. ASSUME NEW c \in Tab, RefreshRead(c) PROVE OneAtATime'
  BY <1>9 DEF RefreshRead
<1>10. ASSUME NEW c \in Tab, RevokeFamily(c) PROVE OneAtATime'
  BY <1>10 DEF RevokeFamily
<1>11. ASSUME NEW c \in Tab, Rotate(c) PROVE OneAtATime'
  BY <1>11 DEF Rotate
<1>12. ASSUME NEW c \in Tab, RefreshArrives(c) PROVE OneAtATime'
  BY <1>12 DEF RefreshArrives
<1>13. ASSUME NEW c \in Tab, RefreshFails(c) PROVE OneAtATime'
  BY <1>13 DEF RefreshFails
<1>14. ASSUME NEW c \in Tab, RetryAnswered(c) PROVE OneAtATime'
  BY <1>14 DEF RetryAnswered
<1>15. ASSUME NEW c \in Tab, LogoutSend(c) PROVE OneAtATime'
  BY <1>15, Zenon DEF LogoutSend
<1>16. ASSUME NEW c \in Tab, LogoutCommit(c) PROVE OneAtATime'
  BY <1>16, Zenon DEF LogoutCommit
<1>17. ASSUME NEW c \in Tab, LogoutArrives(c) PROVE OneAtATime'
  BY <1>17 DEF LogoutArrives
<1>18. ASSUME NEW c \in Tab, Lose(c) PROVE OneAtATime'
  BY <1>18 DEF Lose
<1>19. ASSUME NEW c \in Tab, RefreshRejected(c) PROVE OneAtATime'
  BY <1>19 DEF RefreshRejected
<1>20. ASSUME NEW c \in Tab, LogoutRejected(c) PROVE OneAtATime'
  <2>1. pc' = [pc EXCEPT ![c] = "idle"] /\ \A d \in Tab \ {c} : held'[d] = held[d]
    BY <1>20, Zenon DEF LogoutRejected
  <2>2. valid' = valid /\ pc \in [Tab -> ProgramCounter] /\ (~overlap' => ~overlap)
    BY <1>20, Zenon DEF LogoutRejected
  <2> HIDE DEF SessionInv, TypeInv, TypeOK, vars, table, browser, causes, history, bounds, Enters
  <2> QED
    BY <2>1, <2>2 DEF SessionInv
<1>21. CASE AccessExpires
  BY <1>21, Zenon DEF AccessExpires
<1>22. CASE RefreshExpires
  BY <1>22 DEF RefreshExpires
<1>23. CASE UNCHANGED vars
  BY <1>23, Zenon
<1> QED
  BY <1>1, <1>2, <1>3, <1>4, <1>5, <1>6, <1>7, <1>8, <1>9, <1>10,
     <1>11, <1>12, <1>13, <1>14, <1>15, <1>16, <1>17, <1>18, <1>19, <1>20, <1>21, <1>22, <1>23, Zenon DEF Next, InFlight

(* One more token keeps a family's token single if no other one that stays *)
(* is of its family.                                                       *)
LEMMA StaysSingle ==
  ASSUME NEW old, NEW new, NEW f, NEW g, NEW n, new \subseteq old \cup {n},
         \A t \in old : g[t] = f[t],
         \A t \in new \ {n} : g[t] # g[n],
         \A t, u \in old : f[t] = f[u] => t = u
  PROVE  \A t, u \in new : g[t] = g[u] => t = u
BY Zenon

(* A sign-in opens a family of its own, and a rotation takes the token it  *)
(* read out of the valid ones.                                             *)
LEMMA SingleStep == ASSUME SessionInv, [Next]_vars PROVE SingleLiveToken'
<1> USE DEF SessionInv, TypeInv, TypeOK, SingleLiveToken,
       vars, table, browser, causes, history, bounds, Enters
<1>1. ASSUME NEW c \in Tab, LoginSend(c) PROVE SingleLiveToken'
  BY <1>1, Zenon DEF LoginSend
<1>2. ASSUME NEW c \in Tab, LoginCommit(c) PROVE SingleLiveToken'
  <2>1. issued + 1 \in Token /\ issued \in Nat
    <3>1. issued + 1 \in Token
      BY <1>2, NextTokenIsToken, Zenon DEF LoginCommit, Asking
    <3>2. issued \in 0 .. MaxLogins + MaxCalls
      BY Zenon
    <3> QED
      BY <3>1, <3>2, BoundsAssumption
  <2>2. ~overlap' => ~overlap
    BY <1>2, Zenon DEF LoginCommit
  <2>3. /\ valid' = valid \cup {issued + 1} /\ family'[issued + 1] = issued + 1
        /\ \A t \in valid : family'[t] = family[t] /\ family[t] \in 1 .. issued
    BY <1>2, <2>1 DEF LoginCommit, FamiliesIssued, Token
  <2>4. /\ valid' \subseteq valid \cup {issued + 1}
        /\ \A t \in valid' \ {issued + 1} : family'[t] # family'[issued + 1]
    BY <2>1, <2>3
  <2> HIDE DEF SessionInv, TypeInv, TypeOK, vars, table, browser, causes, history, bounds, Enters
  <2>5. SingleLiveToken /\ \A t \in valid : family'[t] = family[t]
    BY <2>3, Zenon DEF SessionInv
  <2> QED
    BY <2>2, <2>4, <2>5, StaysSingle, Zenon
<1>3. ASSUME NEW c \in Tab, LoginRefused(c) PROVE SingleLiveToken'
  BY <1>3, Zenon DEF LoginRefused
<1>4. ASSUME NEW c \in Tab, LoginArrives(c) PROVE SingleLiveToken'
  BY <1>4, Zenon DEF LoginArrives
<1>5. ASSUME NEW c \in Tab, Open(c) PROVE SingleLiveToken'
  BY <1>5, Zenon DEF Open
<1>6. ASSUME NEW c \in Tab, CallSend(c) PROVE SingleLiveToken'
  BY <1>6, Zenon DEF CallSend
<1>7. ASSUME NEW c \in Tab, CallAnswered(c) PROVE SingleLiveToken'
  BY <1>7, Zenon DEF CallAnswered
<1>8. ASSUME NEW c \in Tab, RefreshSend(c) PROVE SingleLiveToken'
  BY <1>8, Zenon DEF RefreshSend
<1>9. ASSUME NEW c \in Tab, RefreshRead(c) PROVE SingleLiveToken'
  BY <1>9, Zenon DEF RefreshRead
<1>10. ASSUME NEW c \in Tab, RevokeFamily(c) PROVE SingleLiveToken'
  BY <1>10, Zenon DEF RevokeFamily
<1>11. ASSUME NEW c \in Tab, Rotate(c) PROVE SingleLiveToken'
  <2>1. issued + 1 \in Token /\ issued \in Nat
    <3>1. issued + 1 \in Token
      BY <1>11, NextTokenIsToken, Zenon DEF Rotate, Asking
    <3>2. issued \in 0 .. MaxLogins + MaxCalls
      BY Zenon
    <3> QED
      BY <3>1, <3>2, BoundsAssumption
  <2>2. ~overlap' => ~overlap /\ held[c] \in valid
    BY <1>11, Zenon DEF Rotate, OneAtATime
  <2>3. /\ valid' = (valid \ {held[c]}) \cup {issued + 1}
        /\ family'[issued + 1] = family[held[c]]
        /\ \A t \in valid : family'[t] = family[t]
    BY <1>11, <2>1 DEF Rotate, Token
  <2>4. /\ valid' \subseteq valid \cup {issued + 1}
        /\ ~overlap' => \A t \in valid' \ {issued + 1} : family'[t] # family'[issued + 1]
    BY <2>2, <2>3
  <2> HIDE DEF SessionInv, TypeInv, TypeOK, vars, table, browser, causes, history, bounds, Enters
  <2>5. SingleLiveToken /\ \A t \in valid : family'[t] = family[t]
    BY <2>3, Zenon DEF SessionInv
  <2> QED
    BY <2>2, <2>4, <2>5, StaysSingle, Zenon
<1>12. ASSUME NEW c \in Tab, RefreshArrives(c) PROVE SingleLiveToken'
  BY <1>12, Zenon DEF RefreshArrives
<1>13. ASSUME NEW c \in Tab, RefreshFails(c) PROVE SingleLiveToken'
  BY <1>13, Zenon DEF RefreshFails
<1>14. ASSUME NEW c \in Tab, RetryAnswered(c) PROVE SingleLiveToken'
  BY <1>14, Zenon DEF RetryAnswered
<1>15. ASSUME NEW c \in Tab, LogoutSend(c) PROVE SingleLiveToken'
  BY <1>15, Zenon DEF LogoutSend
<1>16. ASSUME NEW c \in Tab, LogoutCommit(c) PROVE SingleLiveToken'
  BY <1>16, Zenon DEF LogoutCommit
<1>17. ASSUME NEW c \in Tab, LogoutArrives(c) PROVE SingleLiveToken'
  BY <1>17, Zenon DEF LogoutArrives
<1>18. ASSUME NEW c \in Tab, Lose(c) PROVE SingleLiveToken'
  BY <1>18, Zenon DEF Lose
<1>19. ASSUME NEW c \in Tab, RefreshRejected(c) PROVE SingleLiveToken'
  BY <1>19, Zenon DEF RefreshRejected
<1>20. ASSUME NEW c \in Tab, LogoutRejected(c) PROVE SingleLiveToken'
  BY <1>20, Zenon DEF LogoutRejected
<1>21. CASE AccessExpires
  BY <1>21, Zenon DEF AccessExpires
<1>22. CASE RefreshExpires
  <2>1. UNCHANGED <<family, valid, overlap>>
    BY <1>22, Zenon DEF RefreshExpires
  <2> QED
    BY <2>1, Zenon
<1>23. CASE UNCHANGED vars
  BY <1>23, Zenon
<1> QED
  BY <1>1, <1>2, <1>3, <1>4, <1>5, <1>6, <1>7, <1>8, <1>9, <1>10,
     <1>11, <1>12, <1>13, <1>14, <1>15, <1>16, <1>17, <1>18, <1>19, <1>20, <1>21, <1>22, <1>23, Zenon DEF Next, InFlight

-----------------------------------------------------------------------------
(* Why a session is lost.                                                  *)

(* What may end a session is never forgotten.                              *)
LEMMA CalmBefore == ASSUME TypeInv, [Next]_vars PROVE Calm' => Calm
<1> USE DEF TypeInv, TypeOK, Calm, vars, table, browser, causes, history, bounds, Enters
<1>1. ASSUME NEW c \in Tab, LoginSend(c) PROVE Calm' => Calm
  BY <1>1, Zenon DEF LoginSend
<1>2. ASSUME NEW c \in Tab, LoginCommit(c) PROVE Calm' => Calm
  BY <1>2, Zenon DEF LoginCommit
<1>3. ASSUME NEW c \in Tab, LoginRefused(c) PROVE Calm' => Calm
  BY <1>3, Zenon DEF LoginRefused
<1>4. ASSUME NEW c \in Tab, LoginArrives(c) PROVE Calm' => Calm
  BY <1>4, Zenon DEF LoginArrives
<1>5. ASSUME NEW c \in Tab, Open(c) PROVE Calm' => Calm
  BY <1>5, Zenon DEF Open
<1>6. ASSUME NEW c \in Tab, CallSend(c) PROVE Calm' => Calm
  BY <1>6, Zenon DEF CallSend
<1>7. ASSUME NEW c \in Tab, CallAnswered(c) PROVE Calm' => Calm
  BY <1>7, Zenon DEF CallAnswered
<1>8. ASSUME NEW c \in Tab, RefreshSend(c) PROVE Calm' => Calm
  BY <1>8, Zenon DEF RefreshSend
<1>9. ASSUME NEW c \in Tab, RefreshRead(c) PROVE Calm' => Calm
  BY <1>9, Zenon DEF RefreshRead
<1>10. ASSUME NEW c \in Tab, RevokeFamily(c) PROVE Calm' => Calm
  BY <1>10, Zenon DEF RevokeFamily
<1>11. ASSUME NEW c \in Tab, Rotate(c) PROVE Calm' => Calm
  BY <1>11, Zenon DEF Rotate
<1>12. ASSUME NEW c \in Tab, RefreshArrives(c) PROVE Calm' => Calm
  BY <1>12, Zenon DEF RefreshArrives
<1>13. ASSUME NEW c \in Tab, RefreshFails(c) PROVE Calm' => Calm
  BY <1>13, Zenon DEF RefreshFails
<1>14. ASSUME NEW c \in Tab, RetryAnswered(c) PROVE Calm' => Calm
  BY <1>14, Zenon DEF RetryAnswered
<1>15. ASSUME NEW c \in Tab, LogoutSend(c) PROVE Calm' => Calm
  BY <1>15, Zenon DEF LogoutSend
<1>16. ASSUME NEW c \in Tab, LogoutCommit(c) PROVE Calm' => Calm
  BY <1>16, Zenon DEF LogoutCommit
<1>17. ASSUME NEW c \in Tab, LogoutArrives(c) PROVE Calm' => Calm
  BY <1>17, Zenon DEF LogoutArrives
<1>18. ASSUME NEW c \in Tab, Lose(c) PROVE Calm' => Calm
  BY <1>18 DEF Lose
<1>19. ASSUME NEW c \in Tab, RefreshRejected(c) PROVE Calm' => Calm
  BY <1>19 DEF RefreshRejected
<1>20. ASSUME NEW c \in Tab, LogoutRejected(c) PROVE Calm' => Calm
  BY <1>20 DEF LogoutRejected
<1>21. CASE AccessExpires
  BY <1>21, Zenon DEF AccessExpires
<1>22. CASE RefreshExpires
  BY <1>22, Zenon DEF RefreshExpires
<1>23. CASE UNCHANGED vars
  BY <1>23, Zenon
<1> QED
  BY <1>1, <1>2, <1>3, <1>4, <1>5, <1>6, <1>7, <1>8, <1>9, <1>10,
     <1>11, <1>12, <1>13, <1>14, <1>15, <1>16, <1>17, <1>18, <1>19, <1>20, <1>21, <1>22, <1>23, Zenon DEF Next, InFlight

(* A token that is issued is not on its way yet.                           *)
LEMMA NewToken ==
  ASSUME TypeOK
  PROVE  jar # issued + 1 /\ \A c \in Tab : held[c] # issued + 1
BY BoundsAssumption DEF TypeOK

(* In the calm, whoever refreshes sends the token that is valid, and what   *)
(* is issued is new.                                                       *)
LEMMA CalmRequestsStep == ASSUME IndInv, Calm' => Calm, [Next]_vars PROVE CalmRequests'
<1> USE DEF IndInv, SessionInv, TypeInv, TypeOK, CalmSession, CalmRequests, CalmJar, Calm, Carrying, Bringing,
       RefreshInFlight, NoToken, vars, table, browser, causes, history, bounds, Enters
<1>1. ASSUME NEW c \in Tab, LoginSend(c) PROVE CalmRequests'
  BY <1>1, Zenon DEF LoginSend
<1>2. ASSUME NEW c \in Tab, LoginCommit(c) PROVE CalmRequests'
  <2>1. /\ pc[c] = "keying" /\ pc' = [pc EXCEPT ![c] = "granted"] /\ jar' = jar
        /\ held' = [held EXCEPT ![c] = issued + 1] /\ valid' = valid \cup {issued + 1}
    BY <1>2, Zenon DEF LoginCommit
  <2>2. pc'[c] = "granted" /\ held'[c] = issued + 1 /\ issued + 1 \in valid'
    BY <2>1, Zenon
  <2>3. \A d \in Tab \ {c} : pc'[d] = pc[d] /\ held'[d] = held[d] /\ held[d] # issued + 1
    BY <2>1, NewToken, Zenon
  <2>4. jar' # issued + 1 /\ \A t \in valid : t \in valid'
    BY <2>1, NewToken, Zenon
  <2> SUFFICES ASSUME Calm, CalmRequests PROVE CalmRequests'
    BY Zenon
  <2>5. \A d \in Tab : pc'[d] \notin {"revoking", "refused", "leaving", "left"}
    BY <2>2, <2>3, Zenon
  <2>6. \A d, e \in Tab : pc'[d] \in RefreshInFlight /\ pc'[e] \in RefreshInFlight => d = e
    BY <2>2, <2>3, Zenon
  <2>7. \A d \in Tab : pc'[d] \in Carrying => held'[d] \in valid'
    BY <2>2, <2>3, <2>4, Zenon
  <2>8. \A d \in Tab : pc'[d] \in Bringing =>
          held'[d] # jar' /\ \A e \in Tab \ {d} : pc'[e] \in Carrying => held'[e] # held'[d]
    <3>1. \A d \in Tab : pc[d] \in Bringing =>
            held[d] # jar /\ \A e \in Tab \ {d} : pc[e] \in Carrying => held[e] # held[d]
      BY Zenon
    <3> HIDE DEF IndInv, SessionInv, TypeInv, TypeOK, CalmSession, CalmRequests, CalmJar, Calm, vars, table,
             browser, causes, history, bounds, Enters, Carrying
    <3>2. ASSUME NEW d \in Tab \ {c}, pc[d] \in Bringing
          PROVE  held[d] # jar /\ \A e \in Tab \ {d} : pc'[e] \in Carrying => held'[e] # held[d]
      BY <2>2, <2>3, <3>1, <3>2, Zenon
    <3>3. \A e \in Tab \ {c} : held'[e] # issued + 1
      BY <2>3, Zenon
    <3>4. ASSUME NEW d \in Tab \ {c}, pc'[d] \in Bringing
          PROVE  held'[d] # jar' /\ \A e \in Tab \ {d} : pc'[e] \in Carrying => held'[e] # held'[d]
      <4>1. pc[d] \in Bringing /\ held'[d] = held[d] /\ jar' = jar
        BY <2>1, <2>3, <3>4, Zenon
      <4> QED
        BY <3>2, <4>1, Zenon
    <3>5. held'[c] # jar' /\ \A e \in Tab \ {c} : pc'[e] \in Carrying => held'[e] # held'[c]
      BY <2>2, <2>4, <3>3, Zenon
    <3> QED
      BY <3>4, <3>5, Zenon
  <2> QED
    BY <2>5, <2>6, <2>7, <2>8, Zenon
<1>3. ASSUME NEW c \in Tab, LoginRefused(c) PROVE CalmRequests'
  BY <1>3, Zenon DEF LoginRefused
<1>4. ASSUME NEW c \in Tab, LoginArrives(c) PROVE CalmRequests'
  BY <1>4 DEF LoginArrives
<1>5. ASSUME NEW c \in Tab, Open(c) PROVE CalmRequests'
  BY <1>5, Zenon DEF Open
<1>6. ASSUME NEW c \in Tab, CallSend(c) PROVE CalmRequests'
  BY <1>6, Zenon DEF CallSend
<1>7. ASSUME NEW c \in Tab, CallAnswered(c) PROVE CalmRequests'
  BY <1>7 DEF CallAnswered
<1>8. ASSUME NEW c \in Tab, RefreshSend(c) PROVE CalmRequests'
  <2> SUFFICES ASSUME Calm, Calm' PROVE CalmRequests'
    BY Zenon
  <2>1. /\ pc' = [pc EXCEPT ![c] = "refreshing"] /\ held' = [held EXCEPT ![c] = jar]
        /\ UNCHANGED <<jar, valid>>
    BY <1>8, Zenon DEF RefreshSend
  <2>2. \A d \in Tab \ {c} : pc[d] \notin RefreshInFlight
    BY <1>8, Zenon DEF RefreshSend
  <2>3. pc'[c] = "refreshing" /\ held'[c] = jar
    BY <2>1, Zenon
  <2>4. \A d \in Tab \ {c} : pc'[d] = pc[d] /\ held'[d] = held[d]
    BY <2>1, Zenon
  <2>5. jar \in valid
    BY <1>8, <2>2, Zenon DEF RefreshSend
  <2>6. \A d \in Tab : pc'[d] \notin {"revoking", "refused", "leaving", "left"}
    BY <2>3, <2>4, Zenon
  <2>7. \A d, e \in Tab : pc'[d] \in RefreshInFlight /\ pc'[e] \in RefreshInFlight => d = e
    BY <2>2, <2>4, Zenon
  <2>8. \A d \in Tab : pc'[d] \in Carrying => held'[d] \in valid'
    BY <2>1, <2>3, <2>4, <2>5, Zenon
  <2>9. \A d \in Tab : pc'[d] \in Bringing =>
          held'[d] # jar' /\ \A e \in Tab \ {d} : pc'[e] \in Carrying => held'[e] # held'[d]
    <3>1. \A d \in Tab : pc[d] \in Bringing =>
            held[d] # jar /\ \A e \in Tab \ {d} : pc[e] \in Carrying => held[e] # held[d]
      BY Zenon
    <3> HIDE DEF IndInv, SessionInv, TypeInv, TypeOK, CalmSession, CalmRequests, CalmJar, Calm, vars, table,
             browser, causes, history, bounds, Enters, Carrying
    <3>2. ASSUME NEW d \in Tab \ {c}, pc[d] \in Bringing
          PROVE  held[d] # jar /\ \A e \in Tab \ {d} : pc'[e] \in Carrying => held'[e] # held[d]
      BY <2>3, <2>4, <3>1, <3>2, Zenon
    <3>3. ASSUME NEW d \in Tab, pc'[d] \in Bringing
          PROVE  held'[d] # jar' /\ \A e \in Tab \ {d} : pc'[e] \in Carrying => held'[e] # held'[d]
      <4>1. d # c
        BY <2>3, <3>3, Zenon
      <4>2. pc[d] \in Bringing /\ held'[d] = held[d] /\ jar' = jar
        BY <2>1, <2>4, <3>3, <4>1, Zenon
      <4> QED
        BY <3>2, <4>1, <4>2, Zenon
    <3> QED
      BY <3>3, Zenon
  <2> QED
    BY <2>6, <2>7, <2>8, <2>9, Zenon
<1>9. ASSUME NEW c \in Tab, RefreshRead(c) PROVE CalmRequests'
  BY <1>9 DEF RefreshRead
<1>10. ASSUME NEW c \in Tab, RevokeFamily(c) PROVE CalmRequests'
  BY <1>10, Zenon DEF RevokeFamily
<1>11. ASSUME NEW c \in Tab, Rotate(c) PROVE CalmRequests'
  <2> SUFFICES ASSUME Calm PROVE CalmRequests'
    BY <1>11, Zenon
  <2>1. /\ pc[c] = "rotating" /\ pc' = [pc EXCEPT ![c] = "rotated"] /\ jar' = jar
        /\ held' = [held EXCEPT ![c] = issued + 1]
        /\ valid' = (valid \ {held[c]}) \cup {issued + 1}
    BY <1>11, Zenon DEF Rotate
  <2>2. pc \in [Tab -> ProgramCounter] /\ held \in [Tab -> 0 .. issued] /\ TypeOK
    BY Zenon
  <2>3. /\ \A d \in Tab : pc[d] \notin {"revoking", "refused", "leaving", "left"}
        /\ \A d \in Tab \ {c} : pc[d] \notin RefreshInFlight
        /\ \A d \in Tab : pc[d] \in Carrying => held[d] \in valid
    BY <2>1, Zenon
  <2>4. \A d \in Tab \ {c} : pc[d] \in Carrying =>
          /\ pc[d] = "granted" /\ held[d] # held[c] /\ held[d] # jar
          /\ \A e \in Tab \ {d} : pc[e] \in Carrying => held[e] # held[d]
    BY <2>1, <2>3, Zenon
  <2>5. jar # issued + 1 /\ \A d \in Tab : held[d] # issued + 1
    BY <2>2, NewToken, Zenon
  <2> HIDE DEF IndInv, SessionInv, TypeInv, TypeOK, CalmSession, CalmRequests, CalmJar, Calm, vars, table,
           browser, causes, history, bounds, Enters
  <2>6. /\ pc'[c] = "rotated" /\ held'[c] = issued + 1
        /\ \A d \in Tab \ {c} : pc'[d] = pc[d] /\ held'[d] = held[d]
    BY <2>1, <2>2, Zenon
  <2> HIDE DEF Carrying
  <2>7. \A d \in Tab : pc'[d] \in Carrying => held'[d] \in valid'
    <3>1. ASSUME NEW d \in Tab \ {c}, pc[d] \in Carrying PROVE held[d] \in valid'
      <4>1. held[d] \in valid /\ held[d] # held[c]
        BY <2>3, <2>4, <3>1, Zenon
      <4> QED
        BY <2>1, <4>1, Zenon
    <3>2. issued + 1 \in valid'
      BY <2>1, Zenon
    <3> QED
      BY <2>6, <3>1, <3>2, Zenon
  <2>8. \A d \in Tab : pc'[d] \in Bringing =>
          held'[d] # jar' /\ \A e \in Tab \ {d} : pc'[e] \in Carrying => held'[e] # held'[d]
    <3>1. ASSUME NEW d \in Tab \ {c}, pc[d] \in Bringing
          PROVE  held[d] # jar /\ \A e \in Tab \ {d} : pc'[e] \in Carrying => held'[e] # held[d]
      <4>1. pc[d] \in Carrying
        BY <3>1, Zenon DEF Carrying
      <4>2. ASSUME NEW e \in Tab \ {d}, pc'[e] \in Carrying PROVE held'[e] # held[d]
        <5>1. CASE e = c
          BY <2>5, <2>6, <5>1, Zenon
        <5>2. CASE e # c
          BY <2>4, <2>6, <4>1, <4>2, <5>2, Zenon
        <5> QED
          BY <5>1, <5>2, Zenon
      <4> QED
        BY <2>4, <4>1, <4>2, Zenon
    <3>2. \A e \in Tab \ {c} : held'[e] # issued + 1
      BY <2>5, <2>6, Zenon
    <3>3. ASSUME NEW d \in Tab, pc'[d] \in Bringing
          PROVE  held'[d] # jar' /\ \A e \in Tab \ {d} : pc'[e] \in Carrying => held'[e] # held'[d]
      <4>1. CASE d = c
        BY <2>1, <2>5, <2>6, <3>2, <4>1, Zenon
      <4>2. CASE d # c
        <5>1. jar' = jar
          BY <2>1, Zenon
        <5>2. pc'[d] = pc[d] /\ held'[d] = held[d]
          BY <2>6, <4>2, Zenon
        <5> QED
          BY <3>1, <3>3, <4>2, <5>1, <5>2, Zenon
      <4> QED
        BY <4>1, <4>2, Zenon
    <3> QED
      BY <3>3, Zenon
  <2>9. /\ \A d \in Tab : pc'[d] \notin {"revoking", "refused", "leaving", "left"}
        /\ \A d, e \in Tab : pc'[d] \in RefreshInFlight /\ pc'[e] \in RefreshInFlight => d = e
    BY <2>3, <2>6, Zenon
  <2> QED
    BY <2>7, <2>8, <2>9, Zenon DEF CalmRequests
<1>12. ASSUME NEW c \in Tab, RefreshArrives(c) PROVE CalmRequests'
  BY <1>12 DEF RefreshArrives
<1>13. ASSUME NEW c \in Tab, RefreshFails(c) PROVE CalmRequests'
  BY <1>13, Zenon DEF RefreshFails
<1>14. ASSUME NEW c \in Tab, RetryAnswered(c) PROVE CalmRequests'
  BY <1>14, Zenon DEF RetryAnswered
<1>15. ASSUME NEW c \in Tab, LogoutSend(c) PROVE CalmRequests'
  BY <1>15, Zenon DEF LogoutSend
<1>16. ASSUME NEW c \in Tab, LogoutCommit(c) PROVE CalmRequests'
  BY <1>16, Zenon DEF LogoutCommit
<1>17. ASSUME NEW c \in Tab, LogoutArrives(c) PROVE CalmRequests'
  BY <1>17, Zenon DEF LogoutArrives
<1>18. ASSUME NEW c \in Tab, Lose(c) PROVE CalmRequests'
  BY <1>18 DEF Lose
<1>19. ASSUME NEW c \in Tab, RefreshRejected(c) PROVE CalmRequests'
  <2>1. failures \in Nat /\ failures' = failures + 1
    BY <1>19 DEF RefreshRejected
  <2>2. failures' # 0 /\ failures' > 0
    BY <2>1
  <2> QED
    BY <2>2, Zenon
<1>20. ASSUME NEW c \in Tab, LogoutRejected(c) PROVE CalmRequests'
  <2>1. failures \in Nat /\ failures' = failures + 1
    BY <1>20 DEF LogoutRejected
  <2>2. failures' # 0 /\ failures' > 0
    BY <2>1
  <2> QED
    BY <2>2, Zenon
<1>21. CASE AccessExpires
  BY <1>21, Zenon DEF AccessExpires
<1>22. CASE RefreshExpires
  BY <1>22, Zenon DEF RefreshExpires
<1>23. CASE UNCHANGED vars
  BY <1>23, Zenon
<1> QED
  BY <1>1, <1>2, <1>3, <1>4, <1>5, <1>6, <1>7, <1>8, <1>9, <1>10,
     <1>11, <1>12, <1>13, <1>14, <1>15, <1>16, <1>17, <1>18, <1>19, <1>20, <1>21, <1>22, <1>23, Zenon DEF Next, InFlight

(* In the calm, the jar is given valid tokens only.                        *)
LEMMA CalmJarStep == ASSUME IndInv, Calm' => Calm, [Next]_vars PROVE CalmJar'
<1> USE DEF IndInv, SessionInv, TypeInv, TypeOK, HoldersHold, CalmSession, CalmRequests, CalmJar, Calm, Carrying,
       Bringing, RefreshInFlight, NoToken, vars, table, browser, causes, history, bounds, Enters
<1>1. ASSUME NEW c \in Tab, LoginSend(c) PROVE CalmJar'
  BY <1>1, Zenon DEF LoginSend
<1>2. ASSUME NEW c \in Tab, LoginCommit(c) PROVE CalmJar'
  BY <1>2, Zenon DEF LoginCommit
<1>3. ASSUME NEW c \in Tab, LoginRefused(c) PROVE CalmJar'
  BY <1>3, Zenon DEF LoginRefused
<1>4. ASSUME NEW c \in Tab, LoginArrives(c) PROVE CalmJar'
  BY <1>4 DEF LoginArrives
<1>5. ASSUME NEW c \in Tab, Open(c) PROVE CalmJar'
  BY <1>5, Zenon DEF Open
<1>6. ASSUME NEW c \in Tab, CallSend(c) PROVE CalmJar'
  BY <1>6, Zenon DEF CallSend
<1>7. ASSUME NEW c \in Tab, CallAnswered(c) PROVE CalmJar'
  BY <1>7 DEF CallAnswered
<1>8. ASSUME NEW c \in Tab, RefreshSend(c) PROVE CalmJar'
  BY <1>8, Zenon DEF RefreshSend
<1>9. ASSUME NEW c \in Tab, RefreshRead(c) PROVE CalmJar'
  BY <1>9 DEF RefreshRead
<1>10. ASSUME NEW c \in Tab, RevokeFamily(c) PROVE CalmJar'
  BY <1>10, Zenon DEF RevokeFamily
<1>11. ASSUME NEW c \in Tab, Rotate(c) PROVE CalmJar'
  BY <1>11, Zenon DEF Rotate
<1>12. ASSUME NEW c \in Tab, RefreshArrives(c) PROVE CalmJar'
  BY <1>12 DEF RefreshArrives
<1>13. ASSUME NEW c \in Tab, RefreshFails(c) PROVE CalmJar'
  BY <1>13, Zenon DEF RefreshFails
<1>14. ASSUME NEW c \in Tab, RetryAnswered(c) PROVE CalmJar'
  BY <1>14, Zenon DEF RetryAnswered
<1>15. ASSUME NEW c \in Tab, LogoutSend(c) PROVE CalmJar'
  BY <1>15, Zenon DEF LogoutSend
<1>16. ASSUME NEW c \in Tab, LogoutCommit(c) PROVE CalmJar'
  BY <1>16, Zenon DEF LogoutCommit
<1>17. ASSUME NEW c \in Tab, LogoutArrives(c) PROVE CalmJar'
  BY <1>17, Zenon DEF LogoutArrives
<1>18. ASSUME NEW c \in Tab, Lose(c) PROVE CalmJar'
  BY <1>18 DEF Lose
<1>19. ASSUME NEW c \in Tab, RefreshRejected(c) PROVE CalmJar'
  BY <1>19, Zenon DEF RefreshRejected
<1>20. ASSUME NEW c \in Tab, LogoutRejected(c) PROVE CalmJar'
  BY <1>20, Zenon DEF LogoutRejected
<1>21. CASE AccessExpires
  BY <1>21, Zenon DEF AccessExpires
<1>22. CASE RefreshExpires
  BY <1>22, Zenon DEF RefreshExpires
<1>23. CASE UNCHANGED vars
  BY <1>23, Zenon
<1> QED
  BY <1>1, <1>2, <1>3, <1>4, <1>5, <1>6, <1>7, <1>8, <1>9, <1>10,
     <1>11, <1>12, <1>13, <1>14, <1>15, <1>16, <1>17, <1>18, <1>19, <1>20, <1>21, <1>22, <1>23, Zenon DEF Next, InFlight

(* A refresh fails only after something that may end a session.            *)
LEMMA ReasonStep == ASSUME IndInv, Calm' => Calm, [Next]_vars PROVE SessionLostForAReason'
<1> USE DEF IndInv, SessionInv, TypeInv, TypeOK, CalmSession, CalmRequests, Calm, SessionLostForAReason,
       vars, table, browser, causes, history, bounds, Enters
<1>1. ASSUME NEW c \in Tab, LoginSend(c) PROVE SessionLostForAReason'
  BY <1>1, Zenon DEF LoginSend
<1>2. ASSUME NEW c \in Tab, LoginCommit(c) PROVE SessionLostForAReason'
  BY <1>2, Zenon DEF LoginCommit
<1>3. ASSUME NEW c \in Tab, LoginRefused(c) PROVE SessionLostForAReason'
  BY <1>3, Zenon DEF LoginRefused
<1>4. ASSUME NEW c \in Tab, LoginArrives(c) PROVE SessionLostForAReason'
  BY <1>4, Zenon DEF LoginArrives
<1>5. ASSUME NEW c \in Tab, Open(c) PROVE SessionLostForAReason'
  BY <1>5, Zenon DEF Open
<1>6. ASSUME NEW c \in Tab, CallSend(c) PROVE SessionLostForAReason'
  BY <1>6, Zenon DEF CallSend
<1>7. ASSUME NEW c \in Tab, CallAnswered(c) PROVE SessionLostForAReason'
  BY <1>7, Zenon DEF CallAnswered
<1>8. ASSUME NEW c \in Tab, RefreshSend(c) PROVE SessionLostForAReason'
  BY <1>8, Zenon DEF RefreshSend
<1>9. ASSUME NEW c \in Tab, RefreshRead(c) PROVE SessionLostForAReason'
  BY <1>9, Zenon DEF RefreshRead
<1>10. ASSUME NEW c \in Tab, RevokeFamily(c) PROVE SessionLostForAReason'
  BY <1>10, Zenon DEF RevokeFamily
<1>11. ASSUME NEW c \in Tab, Rotate(c) PROVE SessionLostForAReason'
  BY <1>11, Zenon DEF Rotate
<1>12. ASSUME NEW c \in Tab, RefreshArrives(c) PROVE SessionLostForAReason'
  BY <1>12, Zenon DEF RefreshArrives
<1>13. ASSUME NEW c \in Tab, RefreshFails(c) PROVE SessionLostForAReason'
  BY <1>13 DEF RefreshFails
<1>14. ASSUME NEW c \in Tab, RetryAnswered(c) PROVE SessionLostForAReason'
  BY <1>14, Zenon DEF RetryAnswered
<1>15. ASSUME NEW c \in Tab, LogoutSend(c) PROVE SessionLostForAReason'
  BY <1>15, Zenon DEF LogoutSend
<1>16. ASSUME NEW c \in Tab, LogoutCommit(c) PROVE SessionLostForAReason'
  BY <1>16, Zenon DEF LogoutCommit
<1>17. ASSUME NEW c \in Tab, LogoutArrives(c) PROVE SessionLostForAReason'
  BY <1>17, Zenon DEF LogoutArrives
<1>18. ASSUME NEW c \in Tab, Lose(c) PROVE SessionLostForAReason'
  BY <1>18 DEF Lose
<1>19. ASSUME NEW c \in Tab, RefreshRejected(c) PROVE SessionLostForAReason'
  <2>1. failures \in Nat /\ failures' = failures + 1
    BY <1>19 DEF RefreshRejected
  <2>2. failures' # 0 /\ failures' > 0
    BY <2>1
  <2> QED
    BY <2>2, Zenon
<1>20. ASSUME NEW c \in Tab, LogoutRejected(c) PROVE SessionLostForAReason'
  <2>1. failures \in Nat /\ failures' = failures + 1
    BY <1>20 DEF LogoutRejected
  <2>2. failures' # 0 /\ failures' > 0
    BY <2>1
  <2> QED
    BY <2>2, Zenon
<1>21. CASE AccessExpires
  BY <1>21, Zenon DEF AccessExpires
<1>22. CASE RefreshExpires
  BY <1>22, Zenon DEF RefreshExpires
<1>23. CASE UNCHANGED vars
  BY <1>23, Zenon
<1> QED
  BY <1>1, <1>2, <1>3, <1>4, <1>5, <1>6, <1>7, <1>8, <1>9, <1>10,
     <1>11, <1>12, <1>13, <1>14, <1>15, <1>16, <1>17, <1>18, <1>19, <1>20, <1>21, <1>22, <1>23, Zenon DEF Next, InFlight

(* Only a sign-in or a rotation makes a token valid: the first in a new    *)
(* family, the second in one that has a valid token or a rotation in flight.*)
LEMMA DeadStep == ASSUME SessionInv, NEW t \in 1 .. issued, Dead(family[t]), [Next]_vars PROVE Dead(family[t])'
<1> USE DEF SessionInv, TypeInv, TypeOK, Dead, vars, table, browser, causes, history, bounds, Enters
<1>1. ASSUME NEW c \in Tab, LoginSend(c) PROVE Dead(family[t])'
  BY <1>1, Zenon DEF LoginSend
<1>2. ASSUME NEW c \in Tab, LoginCommit(c) PROVE Dead(family[t])'
  <2>1. issued + 1 \in Token /\ issued \in Nat
    <3>1. issued + 1 \in Token
      BY <1>2, NextTokenIsToken, Zenon DEF LoginCommit, Asking
    <3>2. issued \in 0 .. MaxLogins + MaxCalls
      BY Zenon
    <3> QED
      BY <3>1, <3>2, BoundsAssumption
  <2>2. \A u \in 1 .. issued : family'[u] = family[u]
    BY <1>2, <2>1 DEF LoginCommit, Token
  <2>3. \A u \in valid' : family'[u] # family'[t]
    <3>1. valid' = valid \cup {issued + 1} /\ family'[issued + 1] = issued + 1
      BY <1>2, <2>1, Zenon DEF LoginCommit
    <3>2. family'[t] = family[t] /\ family[t] # issued + 1
      BY <2>1, <2>2 DEF FamiliesIssued
    <3>3. \A u \in valid : family'[u] = family[u] /\ family[u] # family[t]
      BY <2>2, Zenon
    <3> QED
      BY <3>1, <3>2, <3>3, Zenon
  <2>4. \A d \in Tab : pc'[d] = "rotating" => /\ pc[d] = "rotating" /\ held'[d] = held[d]
                                              /\ held[d] \in 1 .. issued
    BY <1>2, Zenon DEF LoginCommit, HoldersHold
  <2>5. \A d \in Tab : pc'[d] = "rotating" => family'[held'[d]] # family'[t]
    BY <2>2, <2>4
  <2> QED
    BY <2>3, <2>5, Zenon
<1>3. ASSUME NEW c \in Tab, LoginRefused(c) PROVE Dead(family[t])'
  BY <1>3, Zenon DEF LoginRefused
<1>4. ASSUME NEW c \in Tab, LoginArrives(c) PROVE Dead(family[t])'
  BY <1>4, Zenon DEF LoginArrives
<1>5. ASSUME NEW c \in Tab, Open(c) PROVE Dead(family[t])'
  BY <1>5, Zenon DEF Open
<1>6. ASSUME NEW c \in Tab, CallSend(c) PROVE Dead(family[t])'
  BY <1>6, Zenon DEF CallSend
<1>7. ASSUME NEW c \in Tab, CallAnswered(c) PROVE Dead(family[t])'
  BY <1>7, Zenon DEF CallAnswered
<1>8. ASSUME NEW c \in Tab, RefreshSend(c) PROVE Dead(family[t])'
  BY <1>8, Zenon DEF RefreshSend
<1>9. ASSUME NEW c \in Tab, RefreshRead(c) PROVE Dead(family[t])'
  BY <1>9, Zenon DEF RefreshRead
<1>10. ASSUME NEW c \in Tab, RevokeFamily(c) PROVE Dead(family[t])'
  BY <1>10, Zenon DEF RevokeFamily
<1>11. ASSUME NEW c \in Tab, Rotate(c) PROVE Dead(family[t])'
  <2>1. issued + 1 \in Token /\ issued \in Nat
    <3>1. issued + 1 \in Token
      BY <1>11, NextTokenIsToken, Zenon DEF Rotate, Asking
    <3>2. issued \in 0 .. MaxLogins + MaxCalls
      BY Zenon
    <3> QED
      BY <3>1, <3>2, BoundsAssumption
  <2>2. \A u \in 1 .. issued : family'[u] = family[u]
    BY <1>11, <2>1 DEF Rotate, Token
  <2> QED
    <3>1. /\ valid' = (valid \ {held[c]}) \cup {issued + 1} /\ family'[issued + 1] = family[held[c]]
          /\ family[held[c]] # family[t] /\ family'[t] = family[t]
      BY <1>11, <2>1, <2>2, Zenon DEF Rotate
    <3>2. \A u \in valid : family'[u] = family[u] /\ family[u] # family[t]
      BY <2>2, Zenon
    <3>3. \A u \in valid' : family'[u] # family'[t]
      BY <3>1, <3>2, Zenon
    <3>4. \A d \in Tab : pc'[d] = "rotating" => /\ pc[d] = "rotating" /\ held'[d] = held[d]
                                                /\ held[d] \in 1 .. issued
      BY <1>11, Zenon DEF Rotate, HoldersHold
    <3>5. \A d \in Tab : pc'[d] = "rotating" => family'[held'[d]] # family'[t]
      <4> SUFFICES ASSUME NEW d \in Tab, pc'[d] = "rotating" PROVE family'[held'[d]] # family'[t]
        BY Zenon
      <4>1. /\ held'[d] = held[d] /\ family'[held[d]] = family[held[d]]
            /\ family[held[d]] # family[t]
        BY <2>2, <3>4, Zenon
      <4> QED
        BY <3>1, <4>1, Zenon
    <3> QED
      BY <3>3, <3>5, Zenon
<1>12. ASSUME NEW c \in Tab, RefreshArrives(c) PROVE Dead(family[t])'
  BY <1>12, Zenon DEF RefreshArrives
<1>13. ASSUME NEW c \in Tab, RefreshFails(c) PROVE Dead(family[t])'
  BY <1>13, Zenon DEF RefreshFails
<1>14. ASSUME NEW c \in Tab, RetryAnswered(c) PROVE Dead(family[t])'
  BY <1>14, Zenon DEF RetryAnswered
<1>15. ASSUME NEW c \in Tab, LogoutSend(c) PROVE Dead(family[t])'
  BY <1>15, Zenon DEF LogoutSend
<1>16. ASSUME NEW c \in Tab, LogoutCommit(c) PROVE Dead(family[t])'
  BY <1>16, Zenon DEF LogoutCommit
<1>17. ASSUME NEW c \in Tab, LogoutArrives(c) PROVE Dead(family[t])'
  BY <1>17, Zenon DEF LogoutArrives
<1>18. ASSUME NEW c \in Tab, Lose(c) PROVE Dead(family[t])'
  BY <1>18, Zenon DEF Lose
<1>19. ASSUME NEW c \in Tab, RefreshRejected(c) PROVE Dead(family[t])'
  BY <1>19, Zenon DEF RefreshRejected
<1>20. ASSUME NEW c \in Tab, LogoutRejected(c) PROVE Dead(family[t])'
  BY <1>20, Zenon DEF LogoutRejected
<1>21. CASE AccessExpires
  BY <1>21, Zenon DEF AccessExpires
<1>22. CASE RefreshExpires
  BY <1>22, Zenon DEF RefreshExpires
<1>23. CASE UNCHANGED vars
  BY <1>23, Zenon
<1> QED
  BY <1>1, <1>2, <1>3, <1>4, <1>5, <1>6, <1>7, <1>8, <1>9, <1>10,
     <1>11, <1>12, <1>13, <1>14, <1>15, <1>16, <1>17, <1>18, <1>19, <1>20, <1>21, <1>22, <1>23, Zenon DEF Next, InFlight

-----------------------------------------------------------------------------
(* The theorems.                                                           *)

LEMMA IndStep == IndInv /\ [Next]_vars => IndInv'
<1> SUFFICES ASSUME IndInv, [Next]_vars PROVE IndInv'
  BY Zenon
<1>1. SessionInv'
  BY TypeStep, CountedStep, FamilyStep, OneAtATimeStep, SingleStep, Zenon DEF IndInv, SessionInv, TypeInv
<1>2. Calm' => Calm
  BY CalmBefore, Zenon DEF IndInv, SessionInv
<1> QED
  BY <1>1, <1>2, CalmRequestsStep, CalmJarStep, ReasonStep, Zenon DEF IndInv, CalmSession

(* The inductive invariant, for every number of tabs and every bound.      *)
THEOREM Inductive == Spec => []IndInv
BY InitInd, IndStep, PTL DEF Spec

(* The tables, the cookies and the tabs of api.ts and auth.py have their   *)
(* types: in particular, no call makes the server issue two tokens.        *)
THEOREM TypeCorrect == Spec => []TypeOK
<1>1. IndInv => TypeOK
  BY Zenon DEF IndInv, SessionInv, TypeInv
<1> QED
  BY <1>1, Inductive, PTL

(* refreshAccessToken sends nobody to the login page before a sign-out, a  *)
(* lost request, an expired token, a refresh answered 429 or 500, or two   *)
(* refreshes in flight at once.                                            *)
THEOREM LostForAReason == Spec => []SessionLostForAReason
<1>1. IndInv => SessionLostForAReason
  BY Zenon DEF IndInv
<1> QED
  BY <1>1, Inductive, PTL

(* Before the first overlap, the rotation of refresh_access_token leaves   *)
(* at most one valid token in a family.                                    *)
THEOREM OneLiveToken == Spec => []SingleLiveToken
<1>1. IndInv => SingleLiveToken
  BY Zenon DEF IndInv, SessionInv
<1> QED
  BY <1>1, Inductive, PTL

(* A family that logout or the detection of reuse left without a valid     *)
(* token, and without a rotation in flight, has none ever after.           *)
THEOREM DeadStaysDead == Spec => DeadFamilyStaysDead
<1>1. IndInv /\ [Next]_vars => [\A t \in 1 .. issued : Dead(family[t]) => Dead(family[t])']_vars
  BY DeadStep, Zenon DEF IndInv
<1> QED
  BY <1>1, Inductive, PTL DEF Spec, DeadFamilyStaysDead

=============================================================================
