--------------------------- MODULE SessionsProofs ---------------------------
(***************************************************************************)
(* Proofs about Sessions, for every number of accounts and Player objects. *)
(*                                                                         *)
(* The indexes are popped under what a player carries when it is removed,  *)
(* and logout has cleared its token before that.  IndexesResolve is        *)
(* nevertheless kept, because an object gets a token of its own and is     *)
(* listed at most once: TokensSound.  That serial logins can be found      *)
(* needs what the check at the start of a login is still worth at its end, *)
(* SerialLogins.                                                           *)
(***************************************************************************)
EXTENDS Sessions, FiniteSetTheorems, SequenceTheorems, TLAPS

-----------------------------------------------------------------------------
(* Induction, as a fact about sets: a finite set has no injection that misses an element. *)

LEMMA Induction ==
    ASSUME NEW S, 0 \in S, \A n \in Nat : n \in S => n + 1 \in S
    PROVE  Nat \subseteq S
<1> SUFFICES ASSUME NEW n \in Nat, n \notin S PROVE FALSE
  OBVIOUS
<1> DEFINE A == {m \in 0..n : m \in S}
           f == [m \in A |-> m + 1]
<1>1. IsFiniteSet(A) /\ 0 \in A
  <2>1. IsFiniteSet(0..n) /\ A \subseteq 0..n
    BY FS_Interval
  <2> QED
    BY <2>1, FS_Subset
<1>2. \A m \in A : m + 1 \in A \ {0}
  OBVIOUS
<1>3. f \in Injection(A, A \ {0})
  <2>1. f \in [A -> A \ {0}] /\ \A a, b \in A : f[a] = f[b] => a = b
    BY <1>2
  <2> QED
    BY <2>1, Zenon DEF Injection, IsInjective
<1>4. IsFiniteSet(A \ {0}) /\ Cardinality(A \ {0}) = Cardinality(A) - 1 /\ Cardinality(A) \in Nat
  BY <1>1, FS_RemoveElement, FS_CardinalityType
<1>5. Cardinality(A) <= Cardinality(A \ {0})
  BY <1>3, <1>4, <1>1, FS_Injection
<1> QED
  BY <1>4, <1>5

-----------------------------------------------------------------------------
(* What Without returns *)

\* The recursive function of Without
KeptOf(list, S, n, kept) ==
    kept = [i \in 0 .. n |-> IF i = 0 THEN <<>>
                             ELSE IF list[i] \in S THEN kept[i - 1]
                             ELSE Append(kept[i - 1], list[i])]

LEMMA KeptExists ==
    ASSUME NEW list, NEW S, NEW n \in Nat
    PROVE  \E kept : KeptOf(list, S, n, kept)
<1> DEFINE Good == {m \in Nat : \E kept : KeptOf(list, S, m, kept)}
<1>1. 0 \in Good
  <2>1. KeptOf(list, S, 0, [i \in 0..0 |-> <<>>])
    BY DEF KeptOf
  <2> QED
    BY <2>1
<1>2. \A m \in Nat : m \in Good => m + 1 \in Good
  <2> SUFFICES ASSUME NEW m \in Nat, NEW f, KeptOf(list, S, m, f)
               PROVE  \E kept : KeptOf(list, S, m + 1, kept)
    OBVIOUS
  <2> DEFINE last == IF list[m + 1] \in S THEN f[m] ELSE Append(f[m], list[m + 1])
             g == [i \in 0 .. m + 1 |-> IF i = m + 1 THEN last ELSE f[i]]
  <2>1. \A i \in 0..m : g[i] = f[i]
    OBVIOUS
  <2>2. \A i \in 0..m : f[i] = IF i = 0 THEN <<>> ELSE IF list[i] \in S THEN f[i - 1]
                               ELSE Append(f[i - 1], list[i])
    BY DEF KeptOf
  <2>3. \A i \in 0 .. m + 1 :
          g[i] = IF i = 0 THEN <<>> ELSE IF list[i] \in S THEN g[i - 1]
                 ELSE Append(g[i - 1], list[i])
    <3> TAKE i \in 0 .. m + 1
    <3>1. CASE i = m + 1
      <4>1. i # 0 /\ i - 1 = m /\ g[i] = last /\ g[m] = f[m]
        BY <3>1
      <4> QED
        BY <4>1, <3>1
    <3>2. CASE i \in 0..m
      <4>1. g[i] = f[i] /\ (i # 0 => i - 1 \in 0..m /\ g[i - 1] = f[i - 1])
        BY <3>2, <2>1
      <4> HIDE DEF g
      <4> QED
        BY <4>1, <2>2, <3>2
    <3> QED
      BY <3>1, <3>2
  <2>4. KeptOf(list, S, m + 1, g)
    <3>1. g = [i \in 0 .. m + 1 |-> g[i]]
      OBVIOUS
    <3> HIDE DEF g
    <3> QED
      BY <2>3, <3>1 DEF KeptOf
  <2> QED
    BY <2>4
<1> QED
  BY <1>1, <1>2, Induction

LEMMA ToSetOfAppend ==
    ASSUME NEW T, NEW list \in Seq(T), NEW e \in T
    PROVE  /\ ToSet(Append(list, e)) = ToSet(list) \cup {e}
           /\ Append(list, e) \in Seq(T)
<1>1. /\ Append(list, e) \in Seq(T)
      /\ Len(Append(list, e)) = Len(list) + 1
      /\ \A i \in 1..Len(list) : Append(list, e)[i] = list[i]
      /\ Append(list, e)[Len(list) + 1] = e
  BY AppendProperties
<1>2. /\ DOMAIN list = 1..Len(list) /\ DOMAIN Append(list, e) = 1 .. Len(list) + 1
      /\ Len(list) \in Nat
  BY <1>1, LenProperties
<1>3. DOMAIN Append(list, e) = DOMAIN list \cup {Len(list) + 1}
  BY <1>2
<1>4. ToSet(Append(list, e)) = ToSet(list) \cup {e}
  BY <1>1, <1>2, <1>3, Zenon DEF ToSet
<1> QED
  BY <1>1, <1>4

LEMMA WithoutKeepsTheRest ==
    ASSUME NEW T, NEW list \in Seq(T), NEW S
    PROVE  /\ Without(list, S) \in Seq(T)
           /\ ToSet(Without(list, S)) = ToSet(list) \ S
<1> DEFINE n == Len(list)
           kept == CHOOSE k : KeptOf(list, S, n, k)
<1>1. n \in Nat /\ \A i \in 1..n : list[i] \in T
  BY ElementOfSeq, LenProperties
<1>2. KeptOf(list, S, n, kept)
  BY <1>1, KeptExists
<1>3. Without(list, S) = kept[n]
  BY DEF Without, KeptOf
<1>4. \A i \in 0..n : kept[i] = IF i = 0 THEN <<>> ELSE IF list[i] \in S THEN kept[i - 1]
                               ELSE Append(kept[i - 1], list[i])
  BY <1>2 DEF KeptOf
<1> HIDE DEF kept, n
<1> DEFINE Upto(m) == {list[j] : j \in 1..m}
           Good == {m \in Nat : m <= n => kept[m] \in Seq(T) /\ ToSet(kept[m]) = Upto(m) \ S}
<1>5. 0 \in Good
  <2>1. kept[0] = <<>> /\ <<>> \in Seq(T) /\ DOMAIN <<>> = {}
    BY <1>1, <1>4
  <2>2. ToSet(<<>>) = {} /\ Upto(0) = {}
    BY <2>1 DEF ToSet
  <2> QED
    BY <2>1, <2>2
<1>6. \A m \in Nat : m \in Good => m + 1 \in Good
  <2> HIDE DEF Upto
  <2> SUFFICES ASSUME NEW m \in Nat, m \in Good, m + 1 <= n
               PROVE  kept[m + 1] \in Seq(T) /\ ToSet(kept[m + 1]) = Upto(m + 1) \ S
    OBVIOUS
  <2>0. kept[m] \in Seq(T) /\ ToSet(kept[m]) = Upto(m) \ S
    BY <1>1
  <2> DEFINE e == list[m + 1]
  <2>1. e \in T /\ kept[m + 1] = IF e \in S THEN kept[m] ELSE Append(kept[m], e)
    BY <1>1, <1>4
  <2>2. Upto(m + 1) = Upto(m) \cup {e}
    <3>1. 1 .. m + 1 = (1..m) \cup {m + 1}
      OBVIOUS
    <3> QED
      BY <3>1, Zenon DEF Upto
  <2> HIDE DEF e
  <2>3. ~(e \in S) => ToSet(Append(kept[m], e)) = ToSet(kept[m]) \cup {e} /\ Append(kept[m], e) \in Seq(T)
    BY <2>0, <2>1, ToSetOfAppend
  <2> QED
    BY <2>0, <2>1, <2>2, <2>3
<1>7. n \in Good
  BY <1>1, <1>5, <1>6, Induction
<1>8. Upto(n) = ToSet(list)
  <2>1. DOMAIN list = 1..n
    BY LenProperties DEF n
  <2> QED
    BY <2>1, Zenon DEF ToSet
<1> QED
  BY <1>1, <1>3, <1>7, <1>8

-----------------------------------------------------------------------------
(* The invariant *)

\* An object keeps its name as its token until it is logged out, for good; only an
\* object that was listed has lost it.
TokensSound ==
    /\ \A s \in Sessions : token[s] \in {s, Empty} /\ (pc[s] # "done" => token[s] = s)
    /\ \A s \in Listed : pc[s] = "done"
    /\ \A t \in Tokens : byToken[t] # None => byToken[t] = t /\ pc[t] = "done"
    /\ byToken[Empty] = None

\* A login that nothing overlapped is alone in flight and found nobody.
SerialLogins ==
    \A s \in Sessions :
      pc[s] = "waiting" /\ UserOf[s] \notin overlapped =>
        /\ \A r \in InFlight(UserOf[s]) : r = s
        /\ \A r \in Listed : UserOf[r] # UserOf[s]

SessionsIInv == TypeOK /\ TokensSound /\ IndexesResolve /\ SerialLogins /\ SerialLoginsAreFindable

LEMMA SessionsInitially == Init => SessionsIInv
<1> SUFFICES ASSUME Init PROVE SessionsIInv
  OBVIOUS
<1>1. Listed = {}
  BY DEF Init, Listed, ToSet
<1>2. TypeOK
  BY DEF Init, TypeOK, Tokens
<1>3. IndexesResolve /\ SerialLogins /\ SerialLoginsAreFindable
  BY <1>1 DEF Init, IndexesResolve, SerialLogins, SerialLoginsAreFindable
<1>4. TokensSound
  BY <1>1 DEF Init, TokensSound, Tokens
<1> QED
  BY <1>2, <1>3, <1>4 DEF SessionsIInv

-----------------------------------------------------------------------------
(* The table after a logout and after a login *)

LEMMA LogOutEffect ==
    ASSUME TypeOK, NEW S \in SUBSET Sessions, LogOut(S)
    PROVE  /\ Listed' = Listed \ S /\ players' \in Seq(Sessions)
           /\ token' \in [Sessions -> Tokens] /\ idle' \in [Sessions -> 0..2]
           /\ byToken' \in [Tokens -> Sessions \cup {None}]
           /\ byId' \in [Users -> Sessions \cup {None}]
           /\ \A s \in Sessions : token'[s] = IF s \in S THEN Empty ELSE token[s]
           /\ \A t \in Tokens : byToken'[t] = IF t = Empty /\ S \cap Listed # {} THEN None ELSE byToken[t]
           /\ \A u \in Users : byId'[u] = IF \E s \in S \cap Listed : UserOf[s] = u THEN None ELSE byId[u]
<1> DEFINE cleared == [s \in Sessions |-> IF s \in S THEN Empty ELSE token[s]]
<1>1. token' = cleared /\ RemovePlayers(S, cleared)
  BY DEF LogOut
<1>2. players' = Without(players, S) /\ players' \in Seq(Sessions) /\ Listed' = Listed \ S
  BY <1>1, WithoutKeepsTheRest DEF RemovePlayers, TypeOK, Listed
<1>3. \A s \in S : cleared[s] = Empty
  OBVIOUS
<1>4. byToken' = [t \in Tokens |-> IF \E s \in S \cap Listed : cleared[s] = t THEN None ELSE byToken[t]]
  BY <1>1 DEF RemovePlayers
<1>5. \A t \in Tokens : byToken'[t] = IF t = Empty /\ S \cap Listed # {} THEN None ELSE byToken[t]
  <2> HIDE DEF cleared
  <2> QED
    BY <1>3, <1>4
<1>6. byToken' \in [Tokens -> Sessions \cup {None}]
  BY <1>4 DEF TypeOK
<1>7. token' \in [Sessions -> Tokens]
  BY <1>1 DEF TypeOK, Tokens
<1>8. idle' \in [Sessions -> 0..2]
  BY DEF LogOut, TypeOK
<1>9. byId' = [u \in Users |-> IF \E s \in S \cap Listed : UserOf[s] = u THEN None ELSE byId[u]]
  BY <1>1 DEF RemovePlayers
<1>10. byId' \in [Users -> Sessions \cup {None}]
  BY <1>9 DEF TypeOK
<1> QED
  BY <1>1, <1>2, <1>5, <1>6, <1>7, <1>8, <1>9, <1>10

\* Logging out who has logged in leaves the rest of the invariant true, also where
\* another login begins with it.
LEMMA LogOutKeepsIndexes ==
    ASSUME SessionsIInv, NEW S \in SUBSET Sessions, \A s \in S : pc[s] = "done", LogOut(S),
           \A s \in Sessions : pc'[s] = pc[s] \/ (pc[s] = "new" /\ pc'[s] = "waiting"),
           overlapped \subseteq overlapped'
    PROVE  TokensSound' /\ IndexesResolve' /\ SerialLoginsAreFindable'
<1>1. /\ Listed' = Listed \ S
      /\ \A s \in Sessions : token'[s] = IF s \in S THEN Empty ELSE token[s]
      /\ \A t \in Tokens : byToken'[t] = IF t = Empty /\ S \cap Listed # {} THEN None ELSE byToken[t]
      /\ \A u \in Users : byId'[u] = IF \E s \in S \cap Listed : UserOf[s] = u THEN None ELSE byId[u]
  BY LogOutEffect DEF SessionsIInv
<1>2. Listed \subseteq Sessions /\ \A s \in Sessions : UserOf[s] \in Users /\ s \in Tokens /\ s # Empty
  BY SessionsAssumption DEF SessionsIInv, TypeOK, Listed, ToSet, Tokens
<1>3. \A s \in Sessions : pc[s] = "done" => pc'[s] = "done"
  OBVIOUS
<1>4. TokensSound'
  BY <1>1, <1>2, <1>3 DEF SessionsIInv, TokensSound, Tokens
<1>5. IndexesResolve'
  BY <1>1, <1>2 DEF SessionsIInv, IndexesResolve, TokensSound
<1>6. SerialLoginsAreFindable'
  BY <1>1, <1>2 DEF SessionsIInv, SerialLoginsAreFindable
<1> QED
  BY <1>4, <1>5, <1>6

LEMMA LogOutKeepsTypes ==
    ASSUME SessionsIInv, NEW S \in SUBSET Sessions, LogOut(S),
           pc' \in [Sessions -> {"new", "waiting", "done"}], tourney' \in SUBSET Sessions,
           overlapped' \in SUBSET Users
    PROVE  TypeOK'
BY LogOutEffect DEF SessionsIInv, TypeOK, Tokens

\* The login of nobody begins or ends with it.
LEMMA LogOutPreserves ==
    ASSUME SessionsIInv, NEW S \in SUBSET Sessions, \A s \in S : pc[s] = "done", LogOut(S),
           UNCHANGED <<pc, tourney, overlapped>>
    PROVE  SessionsIInv'
<1>1. TypeOK'
  BY LogOutKeepsTypes DEF SessionsIInv, TypeOK
<1>2. TokensSound' /\ IndexesResolve' /\ SerialLoginsAreFindable'
  <2>1. overlapped \subseteq overlapped' /\ \A s \in Sessions : pc'[s] = pc[s]
    OBVIOUS
  <2>2. \A s \in Sessions : pc'[s] = pc[s] \/ (pc[s] = "new" /\ pc'[s] = "waiting")
    BY <2>1
  <2> QED
    BY <2>1, <2>2, LogOutKeepsIndexes
<1>3. SerialLogins'
  <2>1. Listed' = Listed \ S
    BY LogOutEffect DEF SessionsIInv
  <2> QED
    BY <2>1 DEF SessionsIInv, SerialLogins, InFlight
<1> QED
  BY <1>1, <1>2, <1>3 DEF SessionsIInv

-----------------------------------------------------------------------------
(* The steps *)

LEMMA EnterEffect ==
    ASSUME SessionsIInv, NEW s \in Sessions, NEW isTourney \in BOOLEAN, Enter(s, isTourney)
    PROVE  /\ pc' \in [Sessions -> {"new", "waiting", "done"}] /\ tourney' \in SUBSET Sessions
           /\ overlapped' \in SUBSET Users /\ overlapped \subseteq overlapped'
           /\ pc[s] = "new" /\ pc'[s] = "waiting" /\ \A r \in Sessions \ {s} : pc'[r] = pc[r]
           /\ \A r \in Sessions : pc'[r] = pc[r] \/ (pc[r] = "new" /\ pc'[r] = "waiting")
           /\ UserOf[s] \notin overlapped' => InFlight(UserOf[s]) = {} /\ ~isTourney
           /\ \A u \in Users : u # UserOf[s] => (u \in overlapped' <=> u \in overlapped)
<1>1. UserOf[s] \in Users
  BY SessionsAssumption
<1>2. pc[s] = "new" /\ pc' = [pc EXCEPT ![s] = "waiting"]
  BY DEF Enter
<1>3. pc' \in [Sessions -> {"new", "waiting", "done"}]
  BY <1>2 DEF SessionsIInv, TypeOK
<1>4. pc'[s] = "waiting" /\ \A r \in Sessions \ {s} : pc'[r] = pc[r]
  BY <1>2 DEF SessionsIInv, TypeOK
<1>5. tourney' \in SUBSET Sessions
  BY DEF Enter, SessionsIInv, TypeOK
<1>6. /\ overlapped' \in SUBSET Users /\ overlapped \subseteq overlapped'
      /\ UserOf[s] \notin overlapped' => InFlight(UserOf[s]) = {} /\ ~isTourney
      /\ \A u \in Users : u # UserOf[s] => (u \in overlapped' <=> u \in overlapped)
  BY <1>1 DEF Enter, SessionsIInv, TypeOK
<1>7. \A r \in Sessions : pc'[r] = pc[r] \/ (pc[r] = "new" /\ pc'[r] = "waiting")
  BY <1>2, <1>4
<1> QED
  BY <1>2, <1>3, <1>4, <1>5, <1>6, <1>7, Zenon

\* Who begins to log in is alone if nothing overlaps, once nobody of his account is listed.
LEMMA EnterKeepsSerialLogins ==
    ASSUME SessionsIInv, NEW s \in Sessions, NEW isTourney \in BOOLEAN, Enter(s, isTourney),
           Listed' \subseteq Listed,
           UserOf[s] \notin overlapped' => \A r \in Listed' : UserOf[r] # UserOf[s]
    PROVE  SerialLogins'
<1> SUFFICES ASSUME NEW r \in Sessions, pc'[r] = "waiting", UserOf[r] \notin overlapped'
             PROVE  /\ \A q \in InFlight(UserOf[r])' : q = r
                    /\ \A q \in Listed' : UserOf[q] # UserOf[r]
  BY DEF SerialLogins
<1>1. UserOf[r] \in Users /\ UserOf[s] \in Users /\ UserOf[r] \notin overlapped
  BY EnterEffect, SessionsAssumption
<1>2. \A q \in Sessions : q \in InFlight(UserOf[r])' <=> pc'[q] = "waiting" /\ UserOf[q] = UserOf[r]
  BY DEF InFlight
<1>3. CASE UserOf[r] = UserOf[s]
  <2>1. InFlight(UserOf[s]) = {}
    BY <1>3, EnterEffect
  <2>2. \A q \in InFlight(UserOf[r])' : q = s
    BY <2>1, <1>3, EnterEffect DEF InFlight
  <2>3. r = s
    BY <2>2, <1>2
  <2> QED
    BY <2>2, <2>3, <1>3
<1>4. CASE UserOf[r] # UserOf[s]
  <2>1. r # s /\ pc[r] = "waiting"
    BY <1>4, EnterEffect
  <2>2. \A q \in InFlight(UserOf[r])' : q \in InFlight(UserOf[r])
    BY <1>4, EnterEffect DEF InFlight
  <2> QED
    BY <1>1, <2>1, <2>2 DEF SessionsIInv, SerialLogins
<1> QED
  BY <1>3, <1>4

LEMMA BeginLoginPreserves ==
    ASSUME SessionsIInv, NEW s \in Sessions, NEW isTourney \in BOOLEAN, BeginLogin(s, isTourney)
    PROVE  SessionsIInv'
<1>1. /\ Enter(s, isTourney)
      /\ isTourney \/ byId[UserOf[s]] = None
      /\ UNCHANGED <<token, idle, players, byToken, byId>>
  BY DEF BeginLogin
<1>2. Listed' = Listed
  BY <1>1 DEF Listed
<1>3. TypeOK'
  BY <1>1, EnterEffect DEF SessionsIInv, TypeOK, Tokens
<1>4. TokensSound'
  <2>1. \A r \in Sessions : pc[r] = "done" <=> pc'[r] = "done"
    BY <1>1, EnterEffect
  <2>2. Listed \subseteq Sessions /\ \A t \in Tokens : byToken[t] # None => t \in Sessions
    BY DEF SessionsIInv, TypeOK, TokensSound, Tokens, Listed, ToSet
  <2> QED
    BY <1>1, <1>2, <2>1, <2>2 DEF SessionsIInv, TokensSound, Tokens
<1>5. IndexesResolve' /\ SerialLoginsAreFindable'
  BY <1>1, <1>2, EnterEffect DEF SessionsIInv, IndexesResolve, SerialLoginsAreFindable
<1>6. SerialLogins'
  <2>1. UserOf[s] \notin overlapped' => \A r \in Listed : UserOf[r] # UserOf[s]
    <3> SUFFICES ASSUME UserOf[s] \notin overlapped', NEW r \in Listed, UserOf[r] = UserOf[s]
                 PROVE  FALSE
      OBVIOUS
    <3>1. byId[UserOf[r]] = None /\ UserOf[r] \notin overlapped
      BY <1>1, EnterEffect
    <3>2. r # None
      BY SessionsAssumption DEF SessionsIInv, TypeOK, Listed, ToSet
    <3> QED
      BY <3>1, <3>2 DEF SessionsIInv, SerialLoginsAreFindable
  <2> QED
    BY <1>1, <1>2, <2>1, EnterKeepsSerialLogins
<1> QED
  BY <1>3, <1>4, <1>5, <1>6 DEF SessionsIInv

LEMMA ReplaceSessionPreserves ==
    ASSUME SessionsIInv, NEW s \in Sessions, ReplaceSession(s)
    PROVE  SessionsIInv'
<1> DEFINE old == byId[UserOf[s]]
<1>1. Enter(s, FALSE) /\ old # None /\ LogOut({old}) /\ UserOf[s] \in Users
  BY SessionsAssumption DEF ReplaceSession
<1>2. old \in Listed /\ UserOf[old] = UserOf[s] /\ old \in Sessions /\ pc[old] = "done"
  BY <1>1 DEF SessionsIInv, TypeOK, IndexesResolve, TokensSound
<1> HIDE DEF old
<1>3. TypeOK'
  BY <1>1, <1>2, EnterEffect, LogOutKeepsTypes
<1>4. TokensSound' /\ IndexesResolve' /\ SerialLoginsAreFindable'
  BY <1>1, <1>2, EnterEffect, LogOutKeepsIndexes
<1>5. SerialLogins'
  <2>1. Listed' = Listed \ {old}
    BY <1>1, <1>2, LogOutEffect DEF SessionsIInv
  <2>2. UserOf[s] \notin overlapped' => \A r \in Listed' : UserOf[r] # UserOf[s]
    <3> SUFFICES ASSUME UserOf[s] \notin overlapped' PROVE \A r \in Listed' : UserOf[r] # UserOf[s]
      OBVIOUS
    <3>1. UserOf[old] \notin overlapped
      BY <1>1, <1>2, EnterEffect
    <3>2. \A r \in Listed : UserOf[r] = UserOf[old] => r = old
      BY <1>2, <3>1 DEF SessionsIInv, SerialLoginsAreFindable
    <3> QED
      BY <1>2, <2>1, <3>2
  <2> QED
    BY <1>1, <2>1, <2>2, EnterKeepsSerialLogins
<1> QED
  BY <1>3, <1>4, <1>5 DEF SessionsIInv

LEMMA RefuseLoginPreserves ==
    ASSUME SessionsIInv, NEW s \in Sessions, RefuseLogin(s)
    PROVE  SessionsIInv'
<1>1. /\ pc[s] = "waiting" /\ pc' = [pc EXCEPT ![s] = "new"] /\ tourney' = tourney \ {s}
      /\ UNCHANGED <<token, idle, players, byToken, byId, overlapped>>
  BY DEF RefuseLogin
<1>2. /\ pc' \in [Sessions -> {"new", "waiting", "done"}]
      /\ pc'[s] = "new" /\ \A r \in Sessions \ {s} : pc'[r] = pc[r]
  BY <1>1 DEF SessionsIInv, TypeOK
<1>3. TypeOK' /\ Listed' = Listed
  BY <1>1, <1>2 DEF SessionsIInv, TypeOK, Tokens, Listed
<1>4. TokensSound'
  <2>1. \A r \in Sessions : pc[r] = "done" <=> pc'[r] = "done"
    BY <1>1, <1>2
  <2>2. Listed \subseteq Sessions /\ \A t \in Tokens : byToken[t] # None => t \in Sessions
    BY DEF SessionsIInv, TypeOK, TokensSound, Tokens, Listed, ToSet
  <2> QED
    BY <1>1, <1>3, <2>1, <2>2 DEF SessionsIInv, TokensSound, Tokens
<1>5. IndexesResolve' /\ SerialLoginsAreFindable'
  BY <1>1, <1>3 DEF SessionsIInv, IndexesResolve, SerialLoginsAreFindable
<1>6. SerialLogins'
  <2>1. \A r \in Sessions : pc'[r] = "waiting" => pc[r] = "waiting"
    BY <1>1, <1>2
  <2> QED
    BY <1>1, <1>3, <2>1 DEF SessionsIInv, SerialLogins, InFlight
<1> QED
  BY <1>3, <1>4, <1>5, <1>6 DEF SessionsIInv

LEMMA FinishLoginPreserves ==
    ASSUME SessionsIInv, NEW s \in Sessions, FinishLogin(s)
    PROVE  SessionsIInv'
<1>1. /\ pc[s] = "waiting" /\ pc' = [pc EXCEPT ![s] = "done"]
      /\ AppendPlayer(s) /\ UNCHANGED <<tourney, token, overlapped>>
  BY DEF FinishLogin
<1>2. /\ pc' \in [Sessions -> {"new", "waiting", "done"}]
      /\ pc'[s] = "done" /\ \A r \in Sessions \ {s} : pc'[r] = pc[r]
  BY <1>1 DEF SessionsIInv, TypeOK
<1>3. /\ token[s] = s /\ s \in Tokens /\ s # Empty /\ s # None /\ UserOf[s] \in Users
      /\ \A r \in Listed : r \in Sessions /\ token[r] = r /\ r # s
  <2>1. token[s] = s /\ s \in Tokens /\ s # Empty /\ s # None /\ UserOf[s] \in Users
    BY <1>1, SessionsAssumption DEF SessionsIInv, TokensSound, Tokens
  <2>2. Listed \subseteq Sessions
    BY DEF SessionsIInv, TypeOK, Listed, ToSet
  <2>3. \A r \in Listed : r \in Sessions /\ token[r] = r /\ r # s
    BY <1>1, <2>2 DEF SessionsIInv, TokensSound, IndexesResolve
  <2> QED
    BY <2>1, <2>3
<1>4. players' \in Seq(Sessions) /\ Listed' = Listed \cup {s}
  BY <1>1, ToSetOfAppend DEF AppendPlayer, Listed, SessionsIInv, TypeOK
<1>5. /\ byToken' = [byToken EXCEPT ![s] = s] /\ byId' = [byId EXCEPT ![UserOf[s]] = s]
  BY <1>1, <1>3 DEF AppendPlayer
<1>6. /\ byToken' \in [Tokens -> Sessions \cup {None}] /\ byId' \in [Users -> Sessions \cup {None}]
      /\ byToken'[s] = s /\ \A t \in Tokens \ {s} : byToken'[t] = byToken[t]
      /\ byId'[UserOf[s]] = s /\ \A u \in Users \ {UserOf[s]} : byId'[u] = byId[u]
  BY <1>3, <1>5 DEF SessionsIInv, TypeOK
<1>7. idle' \in [Sessions -> 0..2]
  BY DEF FinishLogin, SessionsIInv, TypeOK
<1>8. TypeOK'
  BY <1>1, <1>2, <1>4, <1>6, <1>7 DEF SessionsIInv, TypeOK, Tokens
<1>9. TokensSound'
  <2>1. \A r \in Sessions : pc'[r] # "done" => pc[r] # "done"
    BY <1>1, <1>2
  <2>2. \A r \in Sessions : pc[r] = "done" => pc'[r] = "done"
    BY <1>1, <1>2
  <2>3. \A t \in Tokens : byToken[t] # None => t \in Sessions
    BY DEF SessionsIInv, TypeOK, TokensSound, Tokens
  <2>4. \A r \in Listed' : pc'[r] = "done"
    BY <1>2, <1>3, <1>4, <2>2 DEF SessionsIInv, TokensSound
  <2>5. \A t \in Tokens : byToken'[t] # None => byToken'[t] = t /\ pc'[t] = "done"
    BY <1>2, <1>6, <2>2, <2>3 DEF SessionsIInv, TokensSound
  <2>6. Empty \in Tokens /\ byToken'[Empty] = None
    BY <1>3, <1>6 DEF SessionsIInv, TokensSound, Tokens
  <2> QED
    BY <1>1, <2>1, <2>4, <2>5, <2>6 DEF SessionsIInv, TokensSound, Tokens
<1>10. IndexesResolve'
  BY <1>1, <1>3, <1>4, <1>6 DEF SessionsIInv, IndexesResolve, Tokens
<1>11. SerialLogins'
  <2> SUFFICES ASSUME NEW r \in Sessions, pc'[r] = "waiting", UserOf[r] \notin overlapped
               PROVE  /\ \A q \in InFlight(UserOf[r])' : q = r
                      /\ \A q \in Listed' : UserOf[q] # UserOf[r]
    BY <1>1 DEF SerialLogins
  <2>1. r # s /\ pc[r] = "waiting"
    BY <1>2
  <2>2. \A q \in InFlight(UserOf[r])' : q \in InFlight(UserOf[r])
    BY <1>1, <1>2 DEF InFlight
  <2>3. UserOf[r] # UserOf[s]
    BY <1>1, <2>1 DEF SessionsIInv, SerialLogins, InFlight
  <2> QED
    BY <1>4, <2>1, <2>2, <2>3 DEF SessionsIInv, SerialLogins
<1>12. SerialLoginsAreFindable'
  <2> SUFFICES ASSUME NEW r \in Listed', UserOf[r] \notin overlapped
               PROVE  /\ byId'[UserOf[r]] = r
                      /\ \A q \in Listed' : UserOf[q] = UserOf[r] => q = r
    BY <1>1 DEF SerialLoginsAreFindable
  <2>1. UserOf[r] \in Users
    BY <1>3, <1>4, SessionsAssumption
  <2>2. UserOf[s] \notin overlapped => \A q \in Listed : UserOf[q] # UserOf[s]
    BY <1>1 DEF SessionsIInv, SerialLogins
  <2> QED
    BY <1>3, <1>4, <1>6, <2>1, <2>2 DEF SessionsIInv, SerialLoginsAreFindable
<1> QED
  BY <1>8, <1>9, <1>10, <1>11, <1>12 DEF SessionsIInv

\* A request, and the time that passes, change only how long an object was silent.
LEMMA IdlePreserves ==
    ASSUME SessionsIInv, idle' \in [Sessions -> 0..2],
           UNCHANGED <<pc, tourney, token, players, byToken, byId, overlapped>>
    PROVE  SessionsIInv'
<1>1. Listed' = Listed
  BY DEF Listed
<1>2. TypeOK'
  BY DEF SessionsIInv, TypeOK, Tokens
<1>3. TokensSound' /\ IndexesResolve'
  BY <1>1 DEF SessionsIInv, TokensSound, IndexesResolve, Tokens
<1>4. SerialLogins' /\ SerialLoginsAreFindable'
  BY <1>1 DEF SessionsIInv, SerialLogins, SerialLoginsAreFindable, InFlight
<1> QED
  BY <1>2, <1>3, <1>4 DEF SessionsIInv

LEMMA SessionsStep ==
    ASSUME SessionsIInv, [Next]_vars
    PROVE  SessionsIInv'
<1>1. ASSUME NEW s \in Sessions, NEW isTourney \in BOOLEAN, BeginLogin(s, isTourney)
      PROVE  SessionsIInv'
  BY <1>1, BeginLoginPreserves
<1>2. ASSUME NEW s \in Sessions, ReplaceSession(s) \/ RefuseLogin(s) \/ FinishLogin(s)
      PROVE  SessionsIInv'
  BY <1>2, ReplaceSessionPreserves, RefuseLoginPreserves, FinishLoginPreserves
<1>3. ASSUME NEW s \in Sessions, GrowIdle(s) PROVE SessionsIInv'
  <2>1. idle' \in [Sessions -> 0..2]
    BY <1>3 DEF GrowIdle, SessionsIInv, TypeOK
  <2> QED
    BY <1>3, <2>1, IdlePreserves DEF GrowIdle
<1>4. ASSUME NEW t \in Tokens, Request(t) PROVE SessionsIInv'
  <2>1. idle' \in [Sessions -> 0..2]
    BY <1>4 DEF Request, SessionsIInv, TypeOK
  <2> QED
    BY <1>4, <2>1, IdlePreserves DEF Request
<1>5. ASSUME NEW t \in Tokens, ClientLogout(t) PROVE SessionsIInv'
  <2>1. byToken[t] \in Sessions /\ pc[byToken[t]] = "done"
    BY <1>5 DEF ClientLogout, SessionsIInv, TypeOK, TokensSound
  <2> QED
    BY <1>5, <2>1, LogOutPreserves DEF ClientLogout
<1>6. ASSUME NEW u \in Users, KickOut(u) PROVE SessionsIInv'
  <2>1. byId[u] \in Sessions /\ pc[byId[u]] = "done"
    BY <1>6 DEF KickOut, SessionsIInv, TypeOK, IndexesResolve, TokensSound
  <2> QED
    BY <1>6, <2>1, LogOutPreserves DEF KickOut
<1>7. CASE DisconnectGhosts
  <2>1. Swept \subseteq Listed
    BY DEF Swept, Listed, ToSet
  <2>2. Swept \in SUBSET Sessions /\ \A s \in Swept : pc[s] = "done"
    BY <2>1 DEF SessionsIInv, TypeOK, TokensSound, Listed, ToSet
  <2> QED
    BY <1>7, <2>2, LogOutPreserves DEF DisconnectGhosts
<1>8. CASE UNCHANGED vars
  <2>1. idle' \in [Sessions -> 0..2] /\ UNCHANGED <<pc, tourney, token, players, byToken, byId, overlapped>>
    BY <1>8 DEF vars, SessionsIInv, TypeOK
  <2> QED
    BY <2>1, IdlePreserves
<1> QED
  BY <1>1, <1>2, <1>3, <1>4, <1>5, <1>6, <1>7, <1>8 DEF Next

\* The table of players and its indexes keep their types.
THEOREM SessionsTypeCorrect == Spec => []TypeOK
<1>1. SessionsIInv => TypeOK
  BY DEF SessionsIInv
<1> QED
  BY <1>1, SessionsInitially, SessionsStep, PTL DEF Spec

\* Whoever is found by id, name or token is connected and is the one looked for, however
\* logins, logouts, kicks and sweeps overlap (collections.py Players, cho.py
\* handle_osu_login_request, player.py logout).
THEOREM IndexesAlwaysResolve == Spec => []IndexesResolve
<1>1. SessionsIInv => IndexesResolve
  BY DEF SessionsIInv
<1> QED
  BY <1>1, SessionsInitially, SessionsStep, PTL DEF Spec

\* An account whose logins never overlapped has one connection, which is found.
THEOREM SerialSessionsAreFindable == Spec => []SerialLoginsAreFindable
<1>1. SessionsIInv => SerialLoginsAreFindable
  BY DEF SessionsIInv
<1> QED
  BY <1>1, SessionsInitially, SessionsStep, PTL DEF Spec
=============================================================================
