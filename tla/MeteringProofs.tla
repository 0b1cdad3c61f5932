---------------------------- MODULE MeteringProofs ----------------------------
(***************************************************************************)
(* What RateLimiter, Budget, SemanticCache, Embeddings, Compressor and     *)
(* ModelRouting promise, for any number of callers, any window, limits,    *)
(* prices, thresholds, times to live, histories and rules.                 *)
(***************************************************************************)
EXTENDS Services, SumTheorems, FunctionTheorems

(* The rate limiter. *)
\* A request is not in the window before it is admitted.
EntersOnce == \A r \in Reservations : pc[r] \in {"new", "checked"} => counted[r] = Window

LInv == L!TypeOK /\ L!LogIsTheWindow /\ EntersOnce

-------------------------------------------------------------------------------
LEMMA MinFacts ==
    ASSUME NEW a \in Int, NEW b \in Int
    PROVE  L!Min({a, b}) = IF a <= b THEN a ELSE b
  BY DEF L!Min

LEMMA AmountType == \A size \in Int : L!Amount(size) \in Nat
  BY DEF L!Amount

(* What is recent is in the log, and purging twice is purging once. *)
LEMMA RecentFacts ==
    ASSUME NEW entries
    PROVE  L!Recent(entries) \subseteq entries /\ L!Recent(L!Recent(entries)) = L!Recent(entries)
  BY DEF L!Recent

(* A new entry is recent. *)
LEMMA RecentOfNew ==
    ASSUME L!LimiterAssumption, NEW entries, NEW r \in Reservations, NEW size \in Nat
    PROVE  /\ L!Recent(entries \union {L!Entry(r, 0, size)})
                 = L!Recent(entries) \union {L!Entry(r, 0, size)}
           /\ L!Entry(r, 0, size) \in L!Entries
  BY DEF L!LimiterAssumption, L!Recent, L!Entry, L!Entries

LEMMA InitIInv == ASSUME L!LimiterAssumption, L!Init PROVE LInv
  BY DEF L!LimiterAssumption, L!Init, LInv, L!TypeOK, L!LogIsTheWindow, EntersOnce, L!Recent, L!InWindow

(* A step of r that purges at the most, and changes nothing the window counts. *)
LEMMA QuietStep ==
    ASSUME L!LimiterAssumption, LInv, NEW r \in Reservations,
           log' \in {log, L!Recent(log)}, rpm' \in RpmLimits, tpm' \in TpmLimits,
           NEW s \in {"checked", "refused", "abandoned"}, pc' = [pc EXCEPT ![r] = s],
           s = "checked" => pc[r] = "new",
           NEW n \in Nat, charge' = [charge EXCEPT ![r] = n],
           n = charge[r] \/ pc[r] = "new",
           counted' = counted
    PROVE  LInv'
<1>1. L!Recent(log') = L!Recent(log) /\ log' \subseteq log
  BY RecentFacts
<1>2. L!TypeOK'
  BY <1>1 DEF LInv, L!TypeOK
<1>3. EntersOnce'
  BY DEF LInv, L!TypeOK, EntersOnce
<1>4. \A q \in L!InWindow : charge'[q] = charge[q]
  BY DEF LInv, L!TypeOK, EntersOnce, L!InWindow
<1>5. L!InWindow' = L!InWindow
  BY DEF L!InWindow
<1>6. L!LogIsTheWindow'
  BY <1>1, <1>4, <1>5 DEF LInv, L!LogIsTheWindow
<1> QED
  BY <1>2, <1>3, <1>6 DEF LInv

(* A step in which r, that is not in the window, enters it. *)
LEMMA EnteringStep ==
    ASSUME L!LimiterAssumption, LInv, NEW r \in Reservations, r \notin L!InWindow,
           NEW n \in Nat, NEW entries, entries \in {log, L!Recent(log)},
           log' = entries \union {L!Entry(r, 0, n)},
           charge' = [charge EXCEPT ![r] = n],
           counted' = [counted EXCEPT ![r] = 0],
           NEW s \in {"held", "settled"}, pc' = [pc EXCEPT ![r] = s],
           UNCHANGED <<rpm, tpm>>
    PROVE  LInv' /\ L!InWindow' = L!InWindow \union {r}
<1>1. entries \subseteq log /\ L!Recent(entries) = L!Recent(log)
  BY RecentFacts
<1>2. L!Entry(r, 0, n) \in L!Entries /\ L!Recent(log') = L!Recent(log) \union {L!Entry(r, 0, n)}
  BY <1>1, RecentOfNew
<1>3. L!TypeOK'
  BY <1>1, <1>2 DEF L!LimiterAssumption, LInv, L!TypeOK
<1>4. EntersOnce'
  BY DEF LInv, L!TypeOK, EntersOnce
<1>5. L!InWindow' = L!InWindow \union {r}
  BY DEF L!LimiterAssumption, LInv, L!TypeOK, L!InWindow
<1>6. \A q \in L!InWindow : counted'[q] = counted[q] /\ charge'[q] = charge[q]
  BY DEF LInv, L!TypeOK, L!InWindow
<1>7. counted'[r] = 0 /\ charge'[r] = n
  BY DEF LInv, L!TypeOK
<1>8. L!LogIsTheWindow'
  BY <1>2, <1>5, <1>6, <1>7 DEF LInv, L!LogIsTheWindow
<1> QED
  BY <1>3, <1>4, <1>5, <1>8 DEF LInv

LEMMA CheckIInv == ASSUME L!LimiterAssumption, LInv, NEW r \in Reservations, L!Check(r) PROVE LInv'
<1>1. PICK estimate \in Estimates :
         /\ charge' = [charge EXCEPT ![r] = L!Amount(estimate)]
         /\ log' = L!Recent(log)
         /\ pc' = [pc EXCEPT ![r] = IF L!Fits(L!Recent(log), L!Amount(estimate))
                                      THEN "checked" ELSE "refused"]
  BY DEF L!Check
<1>2. L!Amount(estimate) \in Nat
  BY AmountType DEF L!LimiterAssumption
<1>3. pc[r] = "new" /\ UNCHANGED <<rpm, tpm, counted>>
  BY DEF L!Check
<1>4. PICK s \in {"checked", "refused"} : pc' = [pc EXCEPT ![r] = s]
  BY <1>1
<1> QED
  BY <1>1, <1>2, <1>3, <1>4, QuietStep DEF LInv, L!TypeOK

LEMMA ReserveIInv ==
    ASSUME L!LimiterAssumption, LInv, NEW r \in Reservations, L!Reserve(r)
    PROVE  /\ LInv'
           /\ pc'[r] = "held" => /\ L!Fits(L!Recent(log), charge[r])
                                 /\ r \notin L!InWindow /\ L!InWindow' = L!InWindow \union {r}
<1>1. pc[r] = "checked" /\ UNCHANGED <<rpm, tpm, charge>>
  BY DEF L!Reserve
<1>2. r \notin L!InWindow
  BY <1>1 DEF L!LimiterAssumption, LInv, EntersOnce, L!InWindow
<1>3. charge[r] \in Nat /\ charge' = [charge EXCEPT ![r] = charge[r]]
  BY <1>1 DEF LInv, L!TypeOK
<1>4. CASE L!Fits(L!Recent(log), charge[r])
  <2>1. /\ log' = L!Recent(log) \union {L!Entry(r, 0, charge[r])}
        /\ pc' = [pc EXCEPT ![r] = "held"]
        /\ counted' = [counted EXCEPT ![r] = 0]
    BY <1>4 DEF L!Reserve
  <2> QED
    BY <1>1, <1>2, <1>3, <1>4, <2>1, EnteringStep
<1>5. CASE ~ L!Fits(L!Recent(log), charge[r])
  <2>1. /\ log' = L!Recent(log) /\ pc' = [pc EXCEPT ![r] = "refused"] /\ counted' = counted
    BY <1>5 DEF L!Reserve
  <2>2. pc'[r] = "refused"
    BY <2>1 DEF LInv, L!TypeOK
  <2>3. LInv'
    BY <1>1, <1>3, <2>1, QuietStep DEF LInv, L!TypeOK
  <2> QED
    BY <2>2, <2>3
<1> QED
  BY <1>4, <1>5

LEMMA ReconcileIInv == ASSUME L!LimiterAssumption, LInv, NEW r \in Reservations, L!Reconcile(r) PROVE LInv'
<1>1. PICK usage \in Usages :
         /\ charge' = [charge EXCEPT ![r] = L!Amount(usage)]
         /\ IF \E e \in log : e.id = r
              THEN /\ log' = { [e EXCEPT !.tokens = IF e.id = r THEN L!Amount(usage) ELSE @]
                                 : e \in log }
                   /\ UNCHANGED counted
              ELSE /\ log' = log \union {L!Entry(r, 0, L!Amount(usage))}
                   /\ counted' = [counted EXCEPT ![r] = 0]
  BY DEF L!Reconcile
<1>2. /\ pc[r] = "held" /\ pc' = [pc EXCEPT ![r] = "settled"]
      /\ UNCHANGED <<rpm, tpm>>
  BY DEF L!Reconcile
<1> DEFINE n == L!Amount(usage)
<1>3. n \in Nat
  BY AmountType DEF L!LimiterAssumption
<1>4. CASE \E e \in log : e.id = r
  <2> DEFINE Paid(e) == [e EXCEPT !.tokens = IF e.id = r THEN n ELSE @]
  <2>1. log' = {Paid(e) : e \in log} /\ counted' = counted
        /\ charge' = [charge EXCEPT ![r] = n]
    BY <1>1, <1>4
  <2> HIDE DEF n
  <2>2. \A e \in L!Entries : /\ Paid(e) \in L!Entries /\ Paid(e).id = e.id /\ Paid(e).age = e.age
    BY <1>3 DEF L!Entries
  <2>3. \A q \in Reservations : counted[q] < Window =>
           Paid(L!Entry(q, counted[q], charge[q])) = L!Entry(q, counted[q], charge'[q])
    <3> SUFFICES ASSUME NEW q \in Reservations
                 PROVE  Paid(L!Entry(q, counted[q], charge[q])) = L!Entry(q, counted[q], charge'[q])
      OBVIOUS
    <3>1. charge'[q] = IF q = r THEN n ELSE charge[q]
      BY <2>1 DEF LInv, L!TypeOK
    <3> QED
      BY <3>1 DEF L!Entry
  <2>4. L!TypeOK'
    <3>1. log' \subseteq L!Entries
      BY <2>1, <2>2 DEF LInv, L!TypeOK
    <3> QED
      BY <1>2, <1>3, <2>1, <3>1 DEF LInv, L!TypeOK
  <2>5. EntersOnce'
    BY <1>2, <2>1 DEF LInv, L!TypeOK, EntersOnce
  <2>6. L!Recent(log') = {Paid(e) : e \in L!Recent(log)}
    <3>1. \A e \in log : Paid(e).age = e.age
      BY <2>2 DEF LInv, L!TypeOK
    <3> HIDE DEF Paid
    <3> QED
      BY <2>1, <3>1 DEF L!Recent
  <2>7. L!InWindow' = L!InWindow
    BY <2>1 DEF L!InWindow
  <2>8. {Paid(e) : e \in L!Recent(log)} = {Paid(L!Entry(q, counted[q], charge[q])) : q \in L!InWindow}
    BY DEF LInv, L!LogIsTheWindow
  <2>9. \A q \in L!InWindow :
           Paid(L!Entry(q, counted[q], charge[q])) = L!Entry(q, counted'[q], charge'[q])
    BY <2>1, <2>3 DEF L!InWindow
  <2> HIDE DEF Paid
  <2>10. L!LogIsTheWindow'
    BY <2>6, <2>7, <2>8, <2>9 DEF L!LogIsTheWindow
  <2> QED
    BY <2>4, <2>5, <2>10 DEF LInv
<1>5. CASE ~ \E e \in log : e.id = r
  <2>1. r \notin L!InWindow
    <3> SUFFICES ASSUME r \in L!InWindow PROVE FALSE
      OBVIOUS
    <3>1. L!Entry(r, counted[r], charge[r]) \in L!Recent(log)
      BY DEF LInv, L!LogIsTheWindow
    <3> QED
      BY <1>5, <3>1, RecentFacts DEF L!Entry
  <2> QED
    BY <1>1, <1>2, <1>3, <1>5, <2>1, EnteringStep
<1> QED
  BY <1>4, <1>5

LEMMA AbandonIInv == ASSUME L!LimiterAssumption, LInv, NEW r \in Reservations, L!Abandon(r) PROVE LInv'
<1>1. charge[r] \in Nat /\ charge' = [charge EXCEPT ![r] = charge[r]]
  BY DEF L!Abandon, LInv, L!TypeOK
<1> QED
  BY <1>1, QuietStep DEF L!Abandon, LInv, L!TypeOK

(* Time: entries leave the window exactly when their requests do. *)
LEMMA TickIInv == ASSUME L!LimiterAssumption, LInv, L!Tick PROVE LInv'
<1>1. /\ log' = { [e EXCEPT !.age = L!Min({e.age + 1, Window})] : e \in log }
      /\ counted' = [r \in Reservations |-> L!Min({counted[r] + 1, Window})]
      /\ UNCHANGED <<rpm, tpm, pc, charge>>
  BY DEF L!Tick, L!Later
<1>2. Window \in Nat \ {0}
  BY DEF L!LimiterAssumption
<1> DEFINE NextAge(a) == L!Min({a + 1, Window})
<1>3. \A a \in 0 .. Window : /\ NextAge(a) \in 0 .. Window
                             /\ NextAge(a) < Window <=> a + 1 < Window
                             /\ a = Window => NextAge(a) = Window
                             /\ a + 1 < Window => NextAge(a) = a + 1
  <2> SUFFICES ASSUME NEW a \in 0 .. Window
               PROVE  /\ NextAge(a) \in 0 .. Window
                      /\ NextAge(a) < Window <=> a + 1 < Window
                      /\ a = Window => NextAge(a) = Window
                      /\ a + 1 < Window => NextAge(a) = a + 1
    OBVIOUS
  <2>1. a + 1 \in Int /\ Window \in Int
    BY <1>2
  <2>2. NextAge(a) = IF a + 1 <= Window THEN a + 1 ELSE Window
    BY <2>1, MinFacts
  <2> HIDE DEF NextAge
  <2> QED
    BY <1>2, <2>2
<1> DEFINE Moved(e) == [e EXCEPT !.age = NextAge(e.age)]
<1>4. /\ log' = {Moved(e) : e \in log}
      /\ counted' = [r \in Reservations |-> NextAge(counted[r])]
  BY <1>1
<1> HIDE DEF NextAge
<1>5. \A e \in L!Entries : Moved(e) \in L!Entries /\ Moved(e).age = NextAge(e.age)
  BY <1>3 DEF L!Entries
<1>6. L!TypeOK'
  <2>1. log' \subseteq L!Entries
    BY <1>4, <1>5 DEF LInv, L!TypeOK
  <2>2. counted' \in [Reservations -> 0 .. Window]
    BY <1>3, <1>4 DEF LInv, L!TypeOK
  <2> QED
    BY <1>1, <2>1, <2>2 DEF LInv, L!TypeOK
<1>7. EntersOnce'
  BY <1>1, <1>3, <1>4 DEF LInv, L!TypeOK, EntersOnce
<1>8. L!InWindow' = {q \in L!InWindow : counted[q] + 1 < Window}
  BY <1>2, <1>3, <1>4 DEF LInv, L!TypeOK, L!InWindow
<1>9. L!Recent(log') = {Moved(e) : e \in {x \in L!Recent(log) : x.age + 1 < Window}}
  <2>1. \A e \in log : Moved(e).age < Window <=> e.age < Window /\ e.age + 1 < Window
    BY <1>2, <1>3, <1>5 DEF LInv, L!TypeOK, L!Entries
  <2> HIDE DEF Moved
  <2> QED
    BY <1>4, <2>1 DEF L!Recent
<1>10. \A q \in L!InWindow' :
          Moved(L!Entry(q, counted[q], charge[q])) = L!Entry(q, counted'[q], charge'[q])
  BY <1>1, <1>4 DEF L!Entry, L!InWindow
<1>11. {x \in L!Recent(log) : x.age + 1 < Window}
         = {L!Entry(q, counted[q], charge[q]) : q \in L!InWindow'}
  <2>1. \A q \in L!InWindow : L!Entry(q, counted[q], charge[q]).age = counted[q]
    BY DEF L!Entry
  <2>2. L!Recent(log) = {L!Entry(q, counted[q], charge[q]) : q \in L!InWindow}
    BY DEF LInv, L!LogIsTheWindow
  <2> QED
    BY <1>8, <2>1, <2>2
<1> HIDE DEF Moved
<1>12. L!LogIsTheWindow'
  BY <1>9, <1>10, <1>11 DEF L!LogIsTheWindow
<1> QED
  BY <1>6, <1>7, <1>12 DEF LInv

LEMMA LimitsIInv == ASSUME L!LimiterAssumption, LInv, L!SetLimit \/ L!Reset PROVE LInv'
<1>1. CASE L!SetLimit
  BY <1>1 DEF L!SetLimit, LInv, L!TypeOK, L!LogIsTheWindow, EntersOnce, L!InWindow
<1>2. CASE L!Reset
  <2>1. L!TypeOK' /\ EntersOnce'
    BY <1>2 DEF L!LimiterAssumption, L!Reset, LInv, L!TypeOK, EntersOnce
  <2>2. L!Recent(log') = {} /\ L!InWindow' = {}
    BY <1>2 DEF L!LimiterAssumption, L!Reset, L!Recent, L!InWindow
  <2> QED
    BY <2>1, <2>2 DEF LInv, L!LogIsTheWindow
<1> QED
  BY <1>1, <1>2

LEMMA NextIInv == ASSUME L!LimiterAssumption, LInv, [L!Next]_(L!vars) PROVE LInv'
<1>1. CASE UNCHANGED L!vars
  BY <1>1 DEF L!vars, LInv, L!TypeOK, L!LogIsTheWindow, EntersOnce, L!InWindow
<1>2. ASSUME NEW r \in Reservations, L!Check(r) \/ L!Reserve(r) \/ L!Reconcile(r) \/ L!Abandon(r)
      PROVE  LInv'
  BY <1>2, CheckIInv, ReserveIInv, ReconcileIInv, AbandonIInv
<1>3. CASE L!SetLimit \/ L!Reset \/ L!Tick
  BY <1>3, LimitsIInv, TickIInv
<1> QED
  BY <1>1, <1>2, <1>3 DEF L!Next

LEMMA ServicesAreLimiter == ServicesSpec => L!Spec
<1>1. ServicesInit => L!Init
  BY DEF ServicesInit
<1>2. [ServicesNext]_allVars => [L!Next]_(L!vars)
  BY DEF ServicesNext, OnlyOf, allVars, limiterVars, L!vars
<1> QED
  BY <1>1, <1>2, PTL DEF ServicesSpec, L!Spec

LEMMA LimiterInvariance == ServicesSpec => []LInv
<1>1. L!Init => LInv
  BY InitIInv, LimiterBounds
<1>2. LInv /\ [L!Next]_(L!vars) => LInv'
  BY NextIInv, LimiterBounds
<1> QED
  BY <1>1, <1>2, ServicesAreLimiter, PTL DEF L!Spec

-------------------------------------------------------------------------------
(* The log counts every request that entered the window, once, with what it is *)
(* charged by now, and nothing else (rate_limiter.py: check, reserve,          *)
(* reconcile).                                                                 *)
THEOREM LogAccountsForTheWindow == ServicesSpec => []LogIsTheWindow
<1>1. LInv => LogIsTheWindow
  BY DEF LInv, LogIsTheWindow
<1> QED
  BY <1>1, LimiterInvariance, PTL

LEMMA ReservationsFinite ==
    /\ IsFiniteSet(Reservations)
    /\ \A T : L!Cardinality(T) = Cardinality(T)
<1>1. L!IsFiniteSet(Reservations) <=> IsFiniteSet(Reservations)
  BY DEF L!IsFiniteSet, IsFiniteSet
<1>2. L!IsFiniteSet(Reservations)
  BY LimiterBounds DEF L!LimiterAssumption
<1>3. ASSUME NEW T PROVE L!Cardinality(T) = Cardinality(T)
  BY DEF L!Cardinality, Cardinality
<1> QED
  BY <1>1, <1>2, <1>3

(* The tokens of a log, and what requests are charged, are sums. *)
LEMMA TokensAreSum ==
    ASSUME NEW entries, IsFiniteSet(entries), \A e \in entries : e.tokens \in Int
    PROVE  L!Tokens(entries) = Sum([e \in entries |-> e.tokens], entries)
<1> DEFINE w == [e \in entries |-> e.tokens]
           IsIt(G) == G = [s \in SUBSET entries |-> IF s = {} THEN 0
                             ELSE (CHOOSE x \in s : TRUE).tokens + G[s \ {CHOOSE x \in s : TRUE}]]
           H == CHOOSE G : IsIt(G)
<1>1. \A T \in SUBSET entries : T # {} => w[Pick(T)] = (CHOOSE x \in T : TRUE).tokens
  BY Picked DEF Pick
<1>2. \A G : IsIt(G) <=> IsSum(G, w, entries)
  BY <1>1 DEF IsSum, Pick
<1>3. Terms(w, entries)
  BY DEF Terms
<1>4. L!Tokens(entries) = H[entries]
  BY DEF L!Tokens, L!MapThenSumSet, L!MapThenFoldSet
<1> HIDE DEF IsIt, w
<1>5. IsIt(H)
  <2>1. \E G : IsIt(G)
    BY <1>2, SumExists
  <2> QED
    BY <2>1
<1> HIDE DEF H
<1>6. Additive(H, w, entries)
  BY <1>2, <1>3, <1>5, SumIsAdditive
<1> QED
  BY <1>3, <1>4, <1>6, SumIs DEF w

LEMMA ChargesAreSum ==
    ASSUME NEW paying, IsFiniteSet(paying), NEW due, Terms(due, paying)
    PROVE  L!MapThenSumSet(LAMBDA q : due[q], paying) = Sum(due, paying)
<1> DEFINE H == CHOOSE G : IsSum(G, due, paying)
<1>1. L!MapThenSumSet(LAMBDA q : due[q], paying) = H[paying]
  BY DEF L!MapThenSumSet, L!MapThenFoldSet, IsSum, Pick
<1> QED
  BY <1>1 DEF Sum

(* The entries of the window are as many as its requests. *)
LEMMA WindowSize ==
    ASSUME LInv
    PROVE  /\ IsFiniteSet(L!InWindow) /\ Cardinality(L!Recent(log)) = Cardinality(L!InWindow)
           /\ L!Tokens(L!Recent(log)) = Sum(charge, L!InWindow)
<1>1. IsFiniteSet(L!InWindow)
  BY ReservationsFinite, FS_Subset DEF L!InWindow
<1> DEFINE f == [q \in L!InWindow |-> L!Entry(q, counted[q], charge[q])]
           entries == L!Recent(log)
<1>2. \A q \in L!InWindow : f[q] \in entries /\ f[q].id = q /\ f[q].tokens = charge[q]
  BY DEF LInv, L!LogIsTheWindow, L!Entry
<1>3. entries = {f[q] : q \in L!InWindow}
  BY DEF LInv, L!LogIsTheWindow
<1> HIDE DEF f, entries
<1>4. f \in [L!InWindow -> entries]
  BY <1>2 DEF f
<1>5. \A q, r \in L!InWindow : f[q] = f[r] => q = r
  BY <1>2
<1>6. f \in Bijection(L!InWindow, entries)
  BY <1>2, <1>3, <1>4, <1>5 DEF Bijection, Injection, Surjection, IsInjective
<1>7. ExistsBijection(L!InWindow, entries)
  BY <1>6 DEF ExistsBijection
<1>8. IsFiniteSet(entries) /\ Cardinality(entries) = Cardinality(L!InWindow)
  BY <1>1, <1>7, FS_Bijection
<1>9. \A q \in L!InWindow : charge[q] \in Int
  BY DEF LInv, L!TypeOK, L!InWindow
<1> DEFINE w == [e \in entries |-> e.tokens]
<1>10. \A q \in L!InWindow : charge[q] = w[f[q]]
  BY <1>2
<1>11. \A e \in entries : e.tokens \in Int
  BY <1>2, <1>3, <1>9
<1>12. L!Tokens(entries) = Sum(w, entries)
  BY <1>8, <1>11, TokensAreSum
<1>13. Terms(w, {f[q] : q \in L!InWindow})
  BY <1>3, <1>11 DEF Terms
<1> HIDE DEF w
<1>14. Sum(w, {f[q] : q \in L!InWindow}) = Sum(charge, L!InWindow)
  BY <1>1, <1>4, <1>5, <1>10, <1>13, SumOverImage
<1> QED
  BY <1>1, <1>3, <1>8, <1>12, <1>14 DEF entries

(* A request is admitted only while the requests of the window, itself         *)
(* included, are within both limits in force, whatever other callers did since *)
(* check() let it pass (rate_limiter.py: reserve).                             *)
THEOREM AdmissionsStayWithinLimits == ServicesSpec => AdmittedWithinLimits
<1> DEFINE Enters(r) == pc[r] # "held" /\ pc'[r] = "held"
           Kept(r) == /\ rpm # 0 => L!Cardinality(L!InWindow') <= rpm
                      /\ tpm # 0 => L!MapThenSumSet(LAMBDA q : charge'[q], L!InWindow') <= tpm
<1>1. ASSUME LInv, [L!Next]_(L!vars), NEW r \in Reservations, Enters(r) PROVE Kept(r)
  <2>1. L!Reserve(r)
    BY <1>1 DEF L!Next, L!vars, L!Check, L!Reserve, L!Reconcile, L!Abandon, L!SetLimit, L!Reset,
                L!Tick, LInv, L!TypeOK
  <2>2. /\ L!Fits(L!Recent(log), charge[r]) /\ charge' = charge
        /\ r \notin L!InWindow /\ L!InWindow' = L!InWindow \union {r}
    BY <1>1, <2>1, ReserveIInv, LimiterBounds DEF L!Reserve
  <2> DEFINE inside == L!InWindow
  <2>3. /\ IsFiniteSet(inside) /\ Cardinality(L!Recent(log)) = Cardinality(inside)
        /\ L!Tokens(L!Recent(log)) = Sum(charge, inside)
    BY <1>1, WindowSize
  <2>4. rpm \in Nat /\ tpm \in Nat /\ charge[r] \in Nat /\ Terms(charge, inside \union {r})
    BY <1>1, LimiterBounds DEF L!LimiterAssumption, LInv, L!TypeOK, Terms, L!InWindow
  <2> HIDE DEF inside
  <2>5. IsFiniteSet(inside \union {r}) /\ Cardinality(inside \union {r}) = Cardinality(inside) + 1
    BY <2>2, <2>3, FS_AddElement DEF inside
  <2>6. rpm # 0 => Cardinality(inside \union {r}) <= rpm
    BY <2>2, <2>3, <2>4, <2>5, ReservationsFinite, FS_CardinalityType DEF L!Fits
  <2>7. Sum(charge, inside \union {r}) = charge[r] + Sum(charge, inside) /\ Sum(charge, inside) \in Int
    <3>1. Terms(charge, inside)
      BY <2>4 DEF Terms
    <3> QED
      BY <2>2, <2>3, <2>4, <3>1, SumWithOneMore, SumFacts DEF inside
  <2>8. L!MapThenSumSet(LAMBDA q : charge[q], inside \union {r}) = Sum(charge, inside \union {r})
    BY <2>4, <2>5, ChargesAreSum
  <2>9. tpm # 0 => Sum(charge, inside \union {r}) <= tpm
    BY <2>2, <2>3, <2>4, <2>7 DEF L!Fits
  <2>10. L!MapThenSumSet(LAMBDA q : charge'[q], L!InWindow') = L!MapThenSumSet(LAMBDA q : charge[q], inside \union {r})
    BY <2>2 DEF inside
  <2> QED
    BY <2>2, <2>6, <2>8, <2>9, <2>10, ReservationsFinite DEF inside
<1>2. LInv /\ [L!Next]_(L!vars) => [\A r \in Reservations : Enters(r) => Kept(r)]_(L!vars)
  BY <1>1
<1> QED
  BY <1>2, LimiterInvariance, ServicesAreLimiter, PTL DEF L!Spec, AdmittedWithinLimits, L!AdmittedWithinLimits

-------------------------------------------------------------------------------
(* The budget. *)
BudgetFields == {"monthly", "weekly", "period", "downgrade"}

\* An update that has read the configuration is about to write it in full, and it
\* has only found a row when there is one.
UpdateInv(p, rw) ==
    /\ DOMAIN p = {"step", "given", "config", "found"}
    /\ p.step \in {"read", "found"} => p.given \in Given /\ p.config \in U!Config
    /\ p.step = "found" /\ p.found # <<>> => rw # <<>>

\* One update at a time: what it writes is what it names, over what is stored.
Active(p) == p.step \in {"read", "found"}
SerialInv ==
    /\ U!Stored = wanted
    /\ \A u, v \in Updates : Active(update[u]) /\ Active(update[v]) => u = v
    /\ \A u \in Updates : /\ Active(update[u]) => update[u].config = U!Overlay(update[u].given, U!Stored)
                          /\ update[u].step = "found" => update[u].found = row

\* The calls that will keep their model whatever the ledger says by now, or that
\* decide by a configuration which is no longer the one stored.
Committed == {c \in Spenders : \/ spender[c].step = "kept"
                               \/ spender[c].step = "check" /\ spender[c].config # U!Stored}

Accounted(cfg, account, inFlight) ==
    cfg.downgrade /\ U!Amount(cfg) > 0 =>
        10 * (account[cfg.period] + Dearest * Cardinality(inFlight))
          < Threshold * U!Amount(cfg) + 10 * (Dearest * Cardinality(Spenders))

CallRecord == [step : {"idle", "check", "kept", "downgraded"}, config : U!Config]

BudgetTypes ==
    /\ row = <<>> \/ row \in U!Config
    /\ spent \in [U!Periods -> Nat] /\ kept \in [U!Periods -> Nat]
    /\ spender \in [Spenders -> CallRecord] /\ DOMAIN update = Updates
    /\ \A u \in Updates : UpdateInv(update[u], row)

BInv ==
    /\ BudgetTypes
    /\ serial => SerialInv
    /\ calm => \A p \in U!Periods : kept[p] <= spent[p]
    /\ calm => Accounted(U!Stored, kept, Committed)

-------------------------------------------------------------------------------
LEMMA BudgetConstants ==
    /\ IsFiniteSet(Spenders) /\ DefaultBudget \in Nat
    /\ Dearest \in Nat \ {0} /\ Threshold \in Nat \ {0}
    /\ Prices \subseteq Nat /\ \A price \in Prices : price <= Dearest
    /\ \A g \in Given : /\ DOMAIN g \subseteq BudgetFields
                        /\ \A f \in DOMAIN g : /\ f \in {"monthly", "weekly"} => g[f] \in Nat
                                               /\ f = "downgrade" => g[f] \in BOOLEAN
<1>1. DOMAIN U!Default = BudgetFields
  BY DEF U!Default, BudgetFields
<1>2. U!IsFiniteSet(Spenders) <=> IsFiniteSet(Spenders)
  BY DEF U!IsFiniteSet, IsFiniteSet
<1>3. U!IsFiniteSet(Spenders) /\ DefaultBudget \in Nat
  BY BudgetBounds DEF U!BudgetAssumption
<1>4. /\ Prices \subseteq Nat /\ \A price \in Prices : price <= Dearest
      /\ {Dearest, Threshold} \subseteq Nat \ {0}
  BY BudgetBounds DEF U!BudgetAssumption
<1>5. \A g \in Given : /\ DOMAIN g \subseteq BudgetFields
                      /\ \A f \in DOMAIN g : /\ f \in {"monthly", "weekly"} => g[f] \in Nat
                                             /\ f = "downgrade" => g[f] \in BOOLEAN
  BY <1>1, BudgetBounds DEF U!BudgetAssumption
<1> QED
  BY <1>2, <1>3, <1>4, <1>5

LEMMA ConfigFields ==
    ASSUME NEW config \in U!Config
    PROVE  /\ DOMAIN config = BudgetFields /\ config # <<>>
           /\ config["monthly"] \in Nat /\ config["weekly"] \in Nat
           /\ config["period"] \in U!Periods /\ config["downgrade"] \in BOOLEAN
<1>1. DOMAIN config = BudgetFields /\ "monthly" \in DOMAIN config
  BY DEF U!Config, BudgetFields
<1>2. DOMAIN <<>> = {}
  OBVIOUS
<1> QED
  BY <1>1, <1>2 DEF U!Config

LEMMA IsConfig ==
    ASSUME NEW config, DOMAIN config = BudgetFields, config = [f \in BudgetFields |-> config[f]],
           config["monthly"] \in Nat, config["weekly"] \in Nat,
           config["period"] \in U!Periods, config["downgrade"] \in BOOLEAN
    PROVE  config \in U!Config
  BY DEF U!Config, BudgetFields

LEMMA DefaultIsConfig == U!Default \in U!Config
  BY BudgetConstants DEF U!Default, U!Config, U!Periods

LEMMA MergedIsConfig ==
    ASSUME NEW given \in Given, NEW config \in U!Config,
           NEW merged, merged = U!Overlay(given, config),
           merged.period \in U!Periods
    PROVE  merged \in U!Config
<1>1. DOMAIN given \subseteq BudgetFields /\ DOMAIN config = BudgetFields
  BY BudgetConstants, ConfigFields
<1>2. merged = [f \in BudgetFields |-> IF f \in DOMAIN given THEN given[f] ELSE config[f]]
  BY <1>1 DEF U!Overlay
<1>3. merged["monthly"] \in Nat /\ merged["weekly"] \in Nat /\ merged["downgrade"] \in BOOLEAN
  BY <1>2, BudgetConstants, ConfigFields DEF BudgetFields
<1>4. DOMAIN merged = BudgetFields /\ merged = [f \in BudgetFields |-> merged[f]]
  BY <1>2
<1> QED
  BY <1>3, <1>4, IsConfig

\* What is read when rw is stored.
StoredAs(rw) == U!Overlay(rw, U!Default)

LEMMA StoredFacts ==
    ASSUME NEW rw, rw = <<>> \/ rw \in U!Config
    PROVE  /\ StoredAs(rw) = IF rw = <<>> THEN U!Default ELSE rw
           /\ StoredAs(rw) \in U!Config
<1>1. DOMAIN U!Default = BudgetFields
  BY DefaultIsConfig, ConfigFields
<1>2. CASE rw = <<>>
  <2>1. DOMAIN rw = {}
    BY <1>2
  <2>2. StoredAs(rw) = [f \in BudgetFields |-> U!Default[f]]
    BY <1>1, <2>1 DEF StoredAs, U!Overlay
  <2>3. U!Default = [f \in BudgetFields |-> U!Default[f]]
    BY DEF U!Default, BudgetFields
  <2> QED
    BY <1>2, <2>2, <2>3, DefaultIsConfig
<1>3. CASE rw # <<>>
  <2>1. DOMAIN rw = BudgetFields
    BY <1>3, ConfigFields
  <2>2. StoredAs(rw) = [f \in BudgetFields |-> rw[f]]
    BY <1>1, <2>1 DEF StoredAs, U!Overlay
  <2>3. rw = [f \in BudgetFields |-> rw[f]]
    BY <1>3 DEF U!Config, BudgetFields
  <2> QED
    BY <1>3, <2>2, <2>3
<1> QED
  BY <1>2, <1>3

LEMMA BudgetAmount ==
    ASSUME NEW config \in U!Config
    PROVE  U!Amount(config) \in Nat
<1>1. config[config.period] \in Nat
  BY ConfigFields DEF U!Periods
<1> QED
  BY <1>1, BudgetConstants DEF U!Amount

LEMMA CardsAgree == ASSUME NEW T PROVE U!Cardinality(T) = Cardinality(T)
  BY DEF U!Cardinality, Cardinality

LEMMA CommittedSize ==
    ASSUME NEW T \in SUBSET Spenders
    PROVE  /\ IsFiniteSet(T) /\ Cardinality(T) \in Nat /\ Cardinality(Spenders) \in Nat
           /\ Cardinality(T) <= Cardinality(Spenders)
           /\ \A c \in T : Cardinality(T \ {c}) = Cardinality(T) - 1
  BY BudgetConstants, FS_Subset, FS_CardinalityType, FS_RemoveElement

\* A product of the account with numbers that are not constants of arithmetic.
LEMMA AccountArithmetic ==
    /\ \A n, m \in Nat : n <= m => Dearest * n <= Dearest * m
    /\ \A n \in Nat \ {0} : Dearest * (n - 1) + Dearest = Dearest * n
    /\ \A n \in Nat : Dearest * n \in Nat /\ Threshold * n \in Nat
    /\ \A n \in Nat : n > 0 => Threshold * n > 0
<1>1. Dearest \in Nat \ {0} /\ Threshold \in Nat \ {0}
  BY BudgetConstants
<1>2. ASSUME NEW n \in Nat, NEW m \in Nat, n <= m PROVE Dearest * n <= Dearest * m
  BY <1>1, <1>2
<1>3. ASSUME NEW n \in Nat \ {0} PROVE Dearest * (n - 1) + Dearest = Dearest * n
  BY <1>1
<1>4. ASSUME NEW n \in Nat PROVE Dearest * n \in Nat /\ Threshold * n \in Nat
  BY <1>1
<1>5. ASSUME NEW n \in Nat, n > 0 PROVE Threshold * n > 0
  BY <1>1, <1>5
<1> QED
  BY <1>2, <1>3, <1>4, <1>5

\* Fewer are committed, and what was spent is no more.
LEMMA AccountShrinks ==
    ASSUME NEW cfg \in U!Config, NEW old \in [U!Periods -> Nat], NEW new \in [U!Periods -> Nat],
           NEW T \in SUBSET Spenders, NEW T2 \in SUBSET T,
           \A p \in U!Periods : new[p] <= old[p],
           Accounted(cfg, old, T)
    PROVE  Accounted(cfg, new, T2)
<1>1. cfg.period \in U!Periods
  BY ConfigFields
<1>2. T2 \in SUBSET Spenders /\ Cardinality(T2) <= Cardinality(T)
  BY CommittedSize, FS_Subset
<1> DEFINE a == Dearest * Cardinality(T)
           b == Dearest * Cardinality(T2)
           n == Dearest * Cardinality(Spenders)
           t == Threshold * U!Amount(cfg)
<1>3. b <= a /\ a \in Nat /\ b \in Nat /\ n \in Nat /\ t \in Nat
  BY <1>2, CommittedSize, BudgetAmount, AccountArithmetic
<1>4. old[cfg.period] \in Nat /\ new[cfg.period] \in Nat /\ new[cfg.period] <= old[cfg.period]
  BY <1>1
<1>5. cfg.downgrade /\ U!Amount(cfg) > 0 => 10 * (old[cfg.period] + a) < t + 10 * n
  BY DEF Accounted
<1> HIDE DEF a, b, n, t
<1>6. cfg.downgrade /\ U!Amount(cfg) > 0 => 10 * (new[cfg.period] + b) < t + 10 * n
  BY <1>3, <1>4, <1>5
<1> QED
  BY <1>6 DEF Accounted, a, b, n, t

\* A call is committed only while less than the threshold is spent.
LEMMA AccountOpens ==
    ASSUME NEW cfg \in U!Config, NEW account \in [U!Periods -> Nat], NEW T \in SUBSET Spenders,
           U!Amount(cfg) > 0 => 10 * account[cfg.period] < Threshold * U!Amount(cfg)
    PROVE  Accounted(cfg, account, T)
<1> DEFINE a == Dearest * Cardinality(T)
           n == Dearest * Cardinality(Spenders)
           t == Threshold * U!Amount(cfg)
<1>1. account[cfg.period] \in Nat
  BY ConfigFields
<1>2. a <= n /\ a \in Nat /\ n \in Nat /\ t \in Nat
  BY CommittedSize, BudgetAmount, AccountArithmetic
<1>3. U!Amount(cfg) > 0 => 10 * account[cfg.period] < t
  OBVIOUS
<1> HIDE DEF a, n, t
<1>4. U!Amount(cfg) > 0 => 10 * (account[cfg.period] + a) < t + 10 * n
  BY <1>1, <1>2, <1>3
<1> QED
  BY <1>4 DEF Accounted, a, n, t

\* A committed call is recorded: it costs no more than what is set aside for it.
LEMMA AccountPays ==
    ASSUME NEW cfg \in U!Config, NEW old \in [U!Periods -> Nat], NEW T \in SUBSET Spenders,
           NEW c \in T, NEW price \in Prices, Accounted(cfg, old, T)
    PROVE  Accounted(cfg, U!Add(old, price), T \ {c})
<1>1. old[cfg.period] \in Nat /\ cfg.period \in U!Periods
  BY ConfigFields
<1>2. U!Add(old, price)[cfg.period] = old[cfg.period] + price
  BY <1>1 DEF U!Add
<1>3. Cardinality(T) # 0
  BY CommittedSize, FS_EmptySet
<1> DEFINE k == Cardinality(T)
           a == Dearest * k
           b == Dearest * (k - 1)
           n == Dearest * Cardinality(Spenders)
           t == Threshold * U!Amount(cfg)
<1>4. k \in Nat \ {0} /\ k - 1 \in Nat /\ Cardinality(T \ {c}) = k - 1
  BY <1>3, CommittedSize
<1>5. price \in Nat /\ Dearest \in Nat /\ price <= Dearest
  BY BudgetConstants
<1>6. b + Dearest = a /\ a \in Nat /\ b \in Nat /\ n \in Nat /\ t \in Nat
  <2> HIDE DEF k
  <2>1. b + Dearest = a /\ a \in Nat /\ b \in Nat
    BY <1>4, AccountArithmetic
  <2> QED
    BY <2>1, CommittedSize, BudgetAmount, AccountArithmetic, FS_CardinalityType, BudgetConstants
<1>7. cfg.downgrade /\ U!Amount(cfg) > 0 => 10 * (old[cfg.period] + a) < t + 10 * n
  BY DEF Accounted
<1> HIDE DEF k, a, b, n, t
<1>8. cfg.downgrade /\ U!Amount(cfg) > 0 => 10 * ((old[cfg.period] + price) + b) < t + 10 * n
  BY <1>1, <1>5, <1>6, <1>7
<1> QED
  BY <1>2, <1>4, <1>8 DEF Accounted, a, b, k, n, t
-------------------------------------------------------------------------------
LEMMA BudgetInit == U!Init => BInv
<1> SUFFICES ASSUME U!Init PROVE BInv
  OBVIOUS
<1>1. BudgetTypes
  BY DefaultIsConfig DEF U!Init, U!Nothing, U!Idle, U!Over, BudgetTypes, UpdateInv, CallRecord
<1>2. U!Stored = U!Default
  BY StoredFacts DEF U!Init, U!Stored, StoredAs
<1>3. SerialInv
  BY <1>2 DEF U!Init, U!Over, SerialInv, Active
<1>4. \A p \in U!Periods : kept[p] = 0 /\ spent[p] = 0
  BY DEF U!Init, U!Nothing
<1>5. Committed \subseteq Spenders
  BY DEF Committed
<1>6. U!Amount(U!Stored) > 0 => 10 * kept[U!Stored.period] < Threshold * U!Amount(U!Stored)
  <2>1. kept[U!Stored.period] = 0
    BY <1>2, <1>4, DefaultIsConfig, ConfigFields
  <2>2. U!Amount(U!Stored) \in Nat
    BY <1>2, DefaultIsConfig, BudgetAmount
  <2> QED
    BY <2>1, <2>2, AccountArithmetic
<1>7. Accounted(U!Stored, kept, Committed)
  BY <1>1, <1>2, <1>5, <1>6, DefaultIsConfig, AccountOpens DEF BudgetTypes
<1> QED
  BY <1>1, <1>3, <1>4, <1>7 DEF BInv

LEMMA StoredType == ASSUME BudgetTypes PROVE U!Stored \in U!Config
  BY StoredFacts DEF BudgetTypes, U!Stored, StoredAs

\* A step of call c leaves the updates alone.
LEMMA CallStep ==
    ASSUME BInv, NEW c \in Spenders, NEW p, spender' = [spender EXCEPT ![c] = p],
           p \in CallRecord,
           UNCHANGED <<row, update, wanted, serial>>,
           spent' \in [U!Periods -> Nat], kept' \in [U!Periods -> Nat],
           calm' => \A q \in U!Periods : kept'[q] <= spent'[q],
           calm' => Accounted(U!Stored, kept', Committed')
    PROVE  BInv'
<1>1. BudgetTypes'
  BY DEF BInv, BudgetTypes
<1>2. U!Stored' = U!Stored
  BY DEF U!Stored
<1>3. serial' => SerialInv'
  BY <1>2 DEF BInv, SerialInv
<1> QED
  BY <1>1, <1>2, <1>3 DEF BInv

\* Who is committed after a step of call c.
LEMMA CommittedAfter ==
    ASSUME BInv, NEW c \in Spenders, NEW p, spender' = [spender EXCEPT ![c] = p], row' = row
    PROVE  /\ Committed \in SUBSET Spenders
           /\ Committed' = IF p.step = "kept" \/ (p.step = "check" /\ p.config # U!Stored)
                             THEN Committed \union {c} ELSE Committed \ {c}
<1>1. U!Stored' = U!Stored
  BY DEF U!Stored
<1>2. spender'[c] = p /\ \A d \in Spenders \ {c} : spender'[d] = spender[d]
  BY DEF BInv, BudgetTypes
<1> QED
  BY <1>1, <1>2 DEF Committed

LEMMA ReadConfigInv == ASSUME BInv, NEW c \in Spenders, U!ReadConfig(c) PROVE BInv'
<1>1. PICK config \in {U!Stored, U!Default}, fails \in BOOLEAN :
         /\ config = IF fails THEN U!Default ELSE U!Stored
         /\ spender' = [spender EXCEPT ![c] = [step |-> "check", config |-> config]]
         /\ U!Disturbed(fails, kept)
  BY DEF U!ReadConfig
<1>2. UNCHANGED <<spent, row, update, wanted, serial>>
  BY DEF U!ReadConfig, U!updateVars
<1> DEFINE p == [step |-> "check", config |-> config]
<1>3. p.step = "check" /\ p.config = config /\ p \in CallRecord
  BY <1>1, StoredType, DefaultIsConfig DEF BInv, CallRecord
<1>4. calm' => calm /\ kept' = kept /\ config = U!Stored
  BY <1>1 DEF U!Disturbed
<1>5. kept' \in [U!Periods -> Nat]
  BY <1>1 DEF U!Disturbed, U!Nothing, BInv, BudgetTypes
<1>6. spender' = [spender EXCEPT ![c] = p]
  BY <1>1
<1> HIDE DEF p
<1>7. calm' => Committed' \subseteq Committed /\ Committed \in SUBSET Spenders
  BY <1>2, <1>3, <1>4, <1>6, CommittedAfter
<1>8. calm' => Accounted(U!Stored, kept', Committed')
  <2> SUFFICES ASSUME calm' PROVE Accounted(U!Stored, kept', Committed')
    OBVIOUS
  <2> QED
    BY <1>4, <1>5, <1>7, AccountShrinks, StoredType DEF BInv, BudgetTypes
<1> QED
  BY <1>2, <1>3, <1>4, <1>5, <1>6, <1>8, CallStep DEF BInv, BudgetTypes

LEMMA BudgetCheckInv == ASSUME BInv, NEW c \in Spenders, U!Check(c) PROVE BInv'
<1> DEFINE config == spender[c].config
<1>1. PICK fails \in BOOLEAN :
         /\ spender' = [spender EXCEPT ![c].step =
              IF U!Downgrades(config, IF fails THEN 0 ELSE U!PeriodCost(config.period)) THEN "downgraded" ELSE "kept"]
         /\ U!Disturbed(fails, kept)
  BY DEF U!Check
<1>2. UNCHANGED <<spent, row, update, wanted, serial>> /\ spender[c].step = "check"
  BY DEF U!Check, U!updateVars
<1>3. config \in U!Config
  BY DEF BInv, BudgetTypes, CallRecord
<1> DEFINE s == IF U!Downgrades(config, IF fails THEN 0 ELSE U!PeriodCost(config.period)) THEN "downgraded" ELSE "kept"
           p == [spender[c] EXCEPT !.step = s]
<1>4. spender' = [spender EXCEPT ![c] = p]
  BY <1>1 DEF BInv, BudgetTypes
<1>5. s \in {"downgraded", "kept"}
  OBVIOUS
<1>6. s = "kept" /\ ~fails /\ config.downgrade /\ U!Amount(config) > 0 =>
         10 * spent[config.period] < Threshold * U!Amount(config)
  <2>1. spent[config.period] \in Nat
    BY <1>3, ConfigFields DEF BInv, BudgetTypes
  <2>2. Threshold * U!Amount(config) \in Nat
    BY <1>3, BudgetAmount, AccountArithmetic
  <2> QED
    BY <2>1, <2>2 DEF U!Downgrades, U!PeriodCost
<1> HIDE DEF s
<1>7. p.step = s /\ p.config = config /\ p \in CallRecord
  BY <1>5 DEF BInv, BudgetTypes, CallRecord
<1> HIDE DEF p
<1>8. calm' => calm /\ kept' = kept /\ ~fails
  BY <1>1 DEF U!Disturbed
<1>9. kept' \in [U!Periods -> Nat]
  BY <1>1 DEF U!Disturbed, U!Nothing, BInv, BudgetTypes
<1>10. Committed' \in SUBSET Spenders
  BY <1>2, <1>4, CommittedAfter
<1>11. calm' => Accounted(U!Stored, kept', Committed')
  <2> SUFFICES ASSUME calm' PROVE Accounted(U!Stored, kept', Committed')
    OBVIOUS
  <2>1. CASE config = U!Stored /\ s = "kept"
    <3>1. U!Stored.period \in U!Periods /\ U!Stored \in U!Config
      BY <1>3, <2>1, ConfigFields
    <3>2. kept[U!Stored.period] <= spent[U!Stored.period]
      BY <1>8, <3>1 DEF BInv
    <3>3. /\ kept[U!Stored.period] \in Nat /\ spent[U!Stored.period] \in Nat
          /\ Threshold * U!Amount(U!Stored) \in Nat
      BY <3>1, BudgetAmount, AccountArithmetic DEF BInv, BudgetTypes
    <3>4. CASE U!Stored.downgrade
      <4>1. U!Amount(U!Stored) > 0 => 10 * kept[U!Stored.period] < Threshold * U!Amount(U!Stored)
        BY <1>6, <1>8, <2>1, <3>2, <3>3, <3>4
      <4> QED
        BY <1>8, <1>9, <1>10, <3>1, <4>1, AccountOpens
    <3>5. CASE ~U!Stored.downgrade
      BY <3>5 DEF Accounted
    <3> QED
      BY <3>4, <3>5
  <2>2. CASE config # U!Stored \/ s = "downgraded"
    <3>1. config # U!Stored => c \in Committed
      BY <1>2 DEF Committed
    <3>2. Committed' \subseteq Committed /\ Committed \in SUBSET Spenders
      BY <1>2, <1>4, <1>5, <1>7, <2>2, <3>1, CommittedAfter
    <3> QED
      BY <1>8, <1>9, <3>2, AccountShrinks, StoredType DEF BInv, BudgetTypes
  <2> QED
    BY <1>5, <2>1, <2>2
<1> QED
  BY <1>2, <1>3, <1>4, <1>5, <1>7, <1>8, <1>9, <1>11, CallStep DEF BInv, BudgetTypes
LEMMA AddFacts ==
    ASSUME NEW account \in [U!Periods -> Nat], NEW n \in Nat
    PROVE  /\ U!Add(account, n) \in [U!Periods -> Nat]
           /\ \A p \in U!Periods : U!Add(account, n)[p] = account[p] + n
  BY DEF U!Add

LEMMA BudgetRecordInv == ASSUME BInv, NEW c \in Spenders, U!Record(c) PROVE BInv'
<1> DEFINE keeps == spender[c].step = "kept"
<1>1. PICK cost \in Prices, fails \in BOOLEAN :
         /\ spent' = IF fails THEN spent ELSE U!Add(spent, cost)
         /\ U!Disturbed(fails, IF keeps THEN U!Add(kept, cost) ELSE kept)
  BY DEF U!Record, U!RecordCost
<1> DEFINE account == IF keeps THEN U!Add(kept, cost) ELSE kept
<1>2. /\ UNCHANGED <<row, update, wanted, serial>> /\ spender[c].step \in {"kept", "downgraded"}
      /\ spender' = [spender EXCEPT ![c] = U!Idle]
  BY DEF U!Record, U!updateVars
<1>3. cost \in Nat
  BY BudgetConstants
<1>4. account \in [U!Periods -> Nat] /\ spent' \in [U!Periods -> Nat]
  BY <1>1, <1>3, AddFacts DEF BInv, BudgetTypes
<1>5. calm' => calm /\ kept' = account /\ spent' = U!Add(spent, cost)
  BY <1>1 DEF U!Disturbed
<1>6. kept' \in [U!Periods -> Nat]
  BY <1>1, <1>4 DEF U!Disturbed, U!Nothing
<1>7. ASSUME calm', NEW p \in U!Periods PROVE kept'[p] <= spent'[p]
  <2>1. kept[p] <= spent[p] /\ kept[p] \in Nat /\ spent[p] \in Nat
    BY <1>5, <1>7 DEF BInv, BudgetTypes
  <2>2. spent'[p] = spent[p] + cost
    BY <1>5, <1>7 DEF U!Add
  <2>3. kept'[p] = IF keeps THEN kept[p] + cost ELSE kept[p]
    BY <1>3, <1>5, <1>7, AddFacts DEF BInv, BudgetTypes
  <2> HIDE DEF keeps
  <2> QED
    BY <1>3, <2>1, <2>2, <2>3
<1>8. /\ Committed \in SUBSET Spenders /\ Committed' = Committed \ {c}
      /\ U!Idle \in CallRecord
  <2>1. U!Idle \in CallRecord /\ U!Idle.step = "idle"
    BY DefaultIsConfig DEF U!Idle, CallRecord
  <2> QED
    BY <1>2, <2>1, CommittedAfter
<1>9. calm' => Accounted(U!Stored, kept', Committed')
  <2> SUFFICES ASSUME calm' PROVE Accounted(U!Stored, kept', Committed')
    OBVIOUS
  <2>1. U!Stored \in U!Config /\ Accounted(U!Stored, kept, Committed) /\ kept \in [U!Periods -> Nat]
    BY <1>5, StoredType DEF BInv, BudgetTypes
  <2>2. CASE keeps
    <3>1. c \in Committed
      BY <2>2 DEF Committed
    <3> QED
      BY <1>5, <1>8, <2>1, <2>2, <3>1, AccountPays
  <2>3. CASE ~keeps
    <3>1. kept' = kept /\ \A q \in U!Periods : kept'[q] <= kept[q]
      BY <1>5, <2>1, <2>3
    <3> QED
      BY <1>6, <1>8, <2>1, <3>1, AccountShrinks
  <2> QED
    BY <2>2, <2>3
<1> QED
  BY <1>2, <1>4, <1>6, <1>7, <1>8, <1>9, CallStep

LEMMA NewPeriodInv == ASSUME BInv, NEW p \in U!Periods, U!NewPeriod(p) PROVE BInv'
<1>1. /\ spent' = [spent EXCEPT ![p] = 0] /\ kept' = [kept EXCEPT ![p] = 0]
      /\ UNCHANGED <<row, update, wanted, serial, spender, calm>>
  BY DEF U!NewPeriod, U!updateVars
<1>2. BudgetTypes'
  BY <1>1 DEF BInv, BudgetTypes
<1>3. U!Stored' = U!Stored
  BY <1>1 DEF U!Stored
<1>4. serial' => SerialInv'
  BY <1>1, <1>3 DEF BInv, SerialInv
<1>5. Committed' = Committed /\ Committed \in SUBSET Spenders
  BY <1>1, <1>3 DEF Committed
<1>6. \A q \in U!Periods : kept'[q] <= kept[q] /\ (kept[q] <= spent[q] => kept'[q] <= spent'[q])
  BY <1>1 DEF BInv, BudgetTypes
<1>7. calm' => Accounted(U!Stored', kept', Committed')
  <2> SUFFICES ASSUME calm' PROVE Accounted(U!Stored', kept', Committed')
    OBVIOUS
  <2>1. Accounted(U!Stored, kept, Committed) /\ kept \in [U!Periods -> Nat] /\ kept' \in [U!Periods -> Nat]
    BY <1>1, <1>2 DEF BInv, BudgetTypes
  <2>2. Accounted(U!Stored, kept', Committed)
    BY <1>5, <1>6, <2>1, AccountShrinks, StoredType DEF BInv
  <2> QED
    BY <1>3, <1>5, <2>2
<1> QED
  BY <1>1, <1>2, <1>4, <1>6, <1>7 DEF BInv

\* A step of update u that writes nothing.
LEMMA UpdateStep ==
    ASSUME BInv, NEW u \in Updates, NEW p, update' = [update EXCEPT ![u] = p],
           UNCHANGED <<spent, kept, spender, row, calm>>,
           UpdateInv(p, row), serial' => SerialInv'
    PROVE  BInv'
<1>1. update'[u] = p /\ \A v \in Updates \ {u} : update'[v] = update[v]
  BY DEF BInv, BudgetTypes
<1>2. DOMAIN update' = Updates /\ \A v \in Updates : UpdateInv(update'[v], row)
  BY <1>1 DEF BInv, BudgetTypes
<1>3. BudgetTypes'
  BY <1>2 DEF BInv, BudgetTypes
<1>4. U!Stored' = U!Stored
  BY DEF U!Stored
<1>5. Committed' = Committed
  BY <1>4 DEF Committed
<1> QED
  BY <1>3, <1>4, <1>5 DEF BInv

\* While the updates are serial, u goes on alone.
LEMMA SerialStep ==
    ASSUME BInv, serial, NEW u \in Updates, NEW p, update' = [update EXCEPT ![u] = p],
           row' = row, wanted' = wanted,
           Active(p) => /\ \A v \in Updates \ {u} : ~Active(update[v])
                        /\ p.config = U!Overlay(p.given, U!Stored),
           p.step = "found" => p.found = row
    PROVE  SerialInv'
<1>1. /\ update'[u] = p /\ \A v \in Updates \ {u} : update'[v] = update[v]
      /\ SerialInv
  BY DEF BInv, BudgetTypes
<1>2. U!Stored' = U!Stored
  BY DEF U!Stored
<1>3. \A v, w \in Updates : Active(update'[v]) /\ Active(update'[w]) => v = w
  BY <1>1 DEF SerialInv
<1>4. \A v \in Updates : /\ Active(update'[v]) => update'[v].config = U!Overlay(update'[v].given, U!Stored)
                         /\ update'[v].step = "found" => update'[v].found = row
  BY <1>1 DEF SerialInv
<1> QED
  BY <1>1, <1>2, <1>3, <1>4 DEF SerialInv

LEMMA ReadForUpdateInv == ASSUME BInv, NEW u \in Updates, U!ReadForUpdate(u) PROVE BInv'
<1>1. PICK given \in Given, fails \in BOOLEAN :
         LET config == U!Merge(given, IF fails THEN U!Default ELSE U!Stored)
         IN  /\ update' = [update EXCEPT ![u] =
                   IF config.period \in U!Periods
                   THEN [U!Over("read") EXCEPT !.given = given, !.config = config]
                   ELSE U!Over("refused")]
             /\ serial' = (serial /\ ~fails /\ \A v \in Updates : update[v].step \notin {"read", "found"})
             /\ wanted' = IF serial' THEN wanted ELSE U!Default
  BY DEF U!ReadForUpdate
<1>2. UNCHANGED <<spent, kept, spender, row, calm>>
  BY DEF U!ReadForUpdate, U!callVars
<1> DEFINE base == IF fails THEN U!Default ELSE U!Stored
           config == U!Overlay(given, base)
           p == IF config.period \in U!Periods
                THEN [U!Over("read") EXCEPT !.given = given, !.config = config]
                ELSE U!Over("refused")
<1>3. update' = [update EXCEPT ![u] = p] /\ base \in U!Config
  BY <1>1, StoredType, DefaultIsConfig DEF U!Merge, BInv
<1>4. config.period \in U!Periods => config \in U!Config
  BY <1>3, MergedIsConfig
<1> HIDE DEF config
<1>5. \/ p.step = "refused"
      \/ p.step = "read" /\ p.given = given /\ p.config = config /\ config \in U!Config
  BY <1>4 DEF U!Over
<1>6. UpdateInv(p, row)
  <2>1. DOMAIN p = {"step", "given", "config", "found"}
    BY DEF p, U!Over
  <2> QED
    BY <1>5, <2>1 DEF UpdateInv
<1> HIDE DEF p
<1>7. serial' => SerialInv'
  <2> SUFFICES ASSUME serial' PROVE SerialInv'
    OBVIOUS
  <2>1. serial /\ wanted' = wanted /\ ~fails /\ \A v \in Updates : ~Active(update[v])
    BY <1>1 DEF Active
  <2>2. config = U!Overlay(given, U!Stored)
    BY <2>1 DEF config
  <2>3. p.step # "found" /\ (Active(p) => p.config = U!Overlay(p.given, U!Stored))
    BY <1>5, <2>2 DEF Active
  <2> QED
    BY <1>2, <1>3, <2>1, <2>3, SerialStep
<1> QED
  BY <1>2, <1>3, <1>6, <1>7, UpdateStep

LEMMA FindInv == ASSUME BInv, NEW u \in Updates, U!Find(u) PROVE BInv'
<1> DEFINE p == [update[u] EXCEPT !.step = "found", !.found = row]
<1>1. update' = [update EXCEPT ![u] = p] /\ update[u].step = "read"
  BY DEF U!Find, U!At, BInv, BudgetTypes
<1>2. UNCHANGED <<spent, kept, spender, row, calm, wanted, serial>>
  BY DEF U!Find, U!callVars
<1>3. UpdateInv(update[u], row)
  BY DEF BInv, BudgetTypes
<1>4. /\ p.step = "found" /\ p.found = row /\ p.given = update[u].given /\ p.config = update[u].config
      /\ DOMAIN p = {"step", "given", "config", "found"}
  BY <1>3 DEF UpdateInv
<1>5. UpdateInv(p, row)
  BY <1>1, <1>3, <1>4 DEF UpdateInv
<1> HIDE DEF p
<1>6. serial' => SerialInv'
  <2> SUFFICES ASSUME serial PROVE SerialInv'
    BY <1>2
  <2>1. p.config = U!Overlay(p.given, U!Stored) /\ \A v \in Updates \ {u} : ~Active(update[v])
    BY <1>1, <1>4 DEF BInv, SerialInv, Active
  <2> QED
    BY <1>1, <1>2, <1>4, <2>1, SerialStep
<1> QED
  BY <1>1, <1>2, <1>5, <1>6, UpdateStep

LEMMA OverFields == ASSUME NEW s PROVE DOMAIN U!Over(s) = {"step", "given", "config", "found"} /\ U!Over(s).step = s
  BY DEF U!Over

LEMMA RaiseInv == ASSUME BInv, NEW u \in Updates, U!Raise(u) PROVE BInv'
<1> DEFINE p == U!Over("raised")
<1>1. /\ update' = [update EXCEPT ![u] = p]
      /\ UNCHANGED <<spent, kept, spender, row, calm, wanted, serial>>
  BY DEF U!Raise, U!callVars
<1>2. p.step = "raised" /\ UpdateInv(p, row)
  BY OverFields DEF UpdateInv
<1> HIDE DEF p
<1>3. serial' => SerialInv'
  BY <1>1, <1>2, SerialStep DEF Active
<1> QED
  BY <1>1, <1>2, <1>3, UpdateStep

\* What a commit leaves, whatever was changed since the row was found.
LEMMA WrittenRow ==
    ASSUME BudgetTypes, NEW config \in U!Config, NEW found,
           found # <<>> => row # <<>>,
           ~(found = <<>> /\ row # <<>>)
    PROVE  LET changed == {f \in DOMAIN config : found = <<>> \/ found[f] # config[f]}
               written == [f \in DOMAIN config |-> IF f \in changed THEN config[f] ELSE row[f]]
           IN  written \in U!Config /\ (found = row => written = config)
<1> DEFINE changed == {f \in DOMAIN config : found = <<>> \/ found[f] # config[f]}
           written == [f \in DOMAIN config |-> IF f \in changed THEN config[f] ELSE row[f]]
<1>1. DOMAIN config = BudgetFields
  BY ConfigFields
<1>2. \A f \in BudgetFields : written[f] = config[f] \/ (row \in U!Config /\ written[f] = row[f])
  BY <1>1 DEF BudgetTypes
<1>3. found = row => \A f \in BudgetFields : written[f] = config[f]
  BY <1>1
<1>4. DOMAIN written = BudgetFields /\ written = [f \in BudgetFields |-> written[f]]
  BY <1>1
<1> HIDE DEF written
<1>5. /\ written["monthly"] \in Nat /\ written["weekly"] \in Nat
      /\ written["period"] \in U!Periods /\ written["downgrade"] \in BOOLEAN
  BY <1>2, ConfigFields DEF BudgetFields
<1>6. written \in U!Config
  BY <1>4, <1>5, IsConfig
<1>7. config = [f \in BudgetFields |-> config[f]]
  BY <1>1 DEF U!Config
<1>8. found = row => written = config
  BY <1>3, <1>4, <1>7
<1> QED
  BY <1>6, <1>8 DEF written

LEMMA CommitInv == ASSUME BInv, NEW u \in Updates, U!Commit(u) PROVE BInv'
<1> DEFINE found == update[u].found
           config == update[u].config
           changed == {f \in DOMAIN config : found = <<>> \/ found[f] # config[f]}
           written == [f \in DOMAIN config |-> IF f \in changed THEN config[f] ELSE row[f]]
<1>1. update[u].step = "found" /\ UNCHANGED <<spent, spender, serial>>
  BY DEF U!Commit, U!At
<1>2. UpdateInv(update[u], row)
  BY DEF BInv, BudgetTypes
<1>3. CASE found = <<>> /\ row # <<>>
  <2> DEFINE p == U!Over("refused")
  <2>1. update' = [update EXCEPT ![u] = p] /\ UNCHANGED <<row, wanted, calm, kept>>
    BY <1>3 DEF U!Commit
  <2>2. p.step = "refused" /\ UpdateInv(p, row)
    BY OverFields DEF UpdateInv
  <2> HIDE DEF p
  <2>3. serial' => SerialInv'
    BY <1>1, <2>1, <2>2, SerialStep DEF Active
  <2> QED
    BY <1>1, <2>1, <2>2, <2>3, UpdateStep
<1>4. CASE ~(found = <<>> /\ row # <<>>)
  <2> DEFINE p == U!Over("written")
  <2>1. /\ update' = [update EXCEPT ![u] = p] /\ row' = written
        /\ wanted' = IF serial THEN U!Overlay(update[u].given, wanted) ELSE wanted
        /\ U!Disturbed(FALSE, U!Nothing)
    BY <1>4 DEF U!Commit
  <2>2. config \in U!Config /\ update[u].given \in Given
    BY <1>1, <1>2 DEF UpdateInv
  <2>3. written \in U!Config /\ (found = row => written = config)
    BY <1>1, <1>2, <1>4, <2>2, WrittenRow DEF UpdateInv, BInv
  <2> HIDE DEF written
  <2>4. p.step = "written" /\ DOMAIN p = {"step", "given", "config", "found"}
    BY OverFields
  <2> HIDE DEF p
  <2>5. row' \in U!Config /\ row' # <<>> /\ U!Stored' = row'
    <3>1. U!Stored' = StoredAs(row')
      BY DEF U!Stored, StoredAs
    <3> QED
      BY <2>1, <2>3, <3>1, ConfigFields, StoredFacts
  <2>6. /\ update'[u] = p /\ \A v \in Updates \ {u} : update'[v] = update[v]
        /\ DOMAIN update' = Updates
    BY <2>1 DEF BInv, BudgetTypes
  <2>7. (calm' => calm) /\ \A q \in U!Periods : kept'[q] = 0
    BY <2>1 DEF U!Disturbed, U!Nothing
  <2>8. kept' \in [U!Periods -> Nat]
    BY <2>1 DEF U!Disturbed, U!Nothing
  <2>9. BudgetTypes'
    <3>1. \A v \in Updates : UpdateInv(update'[v], row')
      BY <2>4, <2>5, <2>6 DEF UpdateInv, BInv, BudgetTypes
    <3> QED
      BY <1>1, <2>5, <2>6, <2>8, <3>1 DEF BInv, BudgetTypes
  <2>10. serial' => SerialInv'
    <3> SUFFICES ASSUME serial PROVE SerialInv'
      BY <1>1
    <3>1. /\ SerialInv /\ Active(update[u])
          /\ config = U!Overlay(update[u].given, U!Stored) /\ found = row /\ U!Stored = wanted
      BY <1>1 DEF BInv, SerialInv, Active
    <3>2. \A v \in Updates : ~Active(update'[v])
      BY <2>4, <2>6, <3>1 DEF SerialInv, Active
    <3>3. U!Stored' = wanted'
      BY <2>1, <2>3, <2>5, <3>1
    <3> QED
      BY <3>2, <3>3 DEF SerialInv, Active
  <2>11. calm' => \A q \in U!Periods : kept'[q] <= spent'[q]
    BY <1>1, <2>7 DEF BInv, BudgetTypes
  <2>12. Accounted(U!Stored', kept', Committed')
    <3>1. Committed' \in SUBSET Spenders
      BY DEF Committed
    <3>2. kept'[row'.period] = 0
      BY <2>5, <2>7, ConfigFields
    <3>3. U!Amount(row') > 0 => 10 * kept'[row'.period] < Threshold * U!Amount(row')
      BY <2>5, <3>2, BudgetAmount, AccountArithmetic
    <3>4. Accounted(row', kept', Committed')
      BY <2>5, <2>8, <3>1, <3>3, AccountOpens
    <3> QED
      BY <2>5, <3>4
  <2> QED
    BY <2>9, <2>10, <2>11, <2>12 DEF BInv
<1> QED
  BY <1>3, <1>4

-------------------------------------------------------------------------------
LEMMA ServicesAreBudget == ServicesSpec => U!Spec
<1>1. ServicesInit => U!Init
  BY DEF ServicesInit
<1>2. [ServicesNext]_allVars => [U!Next]_(U!vars)
  BY DEF ServicesNext, OnlyOf, allVars, budgetVars, U!vars, U!callVars, U!updateVars
<1> QED
  BY <1>1, <1>2, PTL DEF ServicesSpec, U!Spec

LEMMA BudgetInvariance == ServicesSpec => []BInv
<1>1. U!Init => BInv
  BY BudgetInit
<1>2. BInv /\ [U!Next]_(U!vars) => BInv'
  <2> SUFFICES ASSUME BInv, [U!Next]_(U!vars) PROVE BInv'
    OBVIOUS
  <2>1. CASE UNCHANGED U!vars
    <3>1. UNCHANGED <<row, spent, kept, spender, update, calm, wanted, serial>>
      BY <2>1 DEF U!vars, U!callVars, U!updateVars
    <3>2. U!Stored' = U!Stored
      BY <3>1 DEF U!Stored
    <3>3. Committed' = Committed
      BY <3>1, <3>2 DEF Committed
    <3> QED
      BY <3>1, <3>2, <3>3 DEF BInv, BudgetTypes, SerialInv
  <2>2. CASE U!Next
    BY <2>2, ReadConfigInv, BudgetCheckInv, BudgetRecordInv, NewPeriodInv, ReadForUpdateInv, FindInv,
       CommitInv, RaiseInv DEF U!Next
  <2> QED
    BY <2>1, <2>2
<1> QED
  BY <1>1, <1>2, ServicesAreBudget, PTL DEF U!Spec

(* While configuration and store were not disturbed, the calls that keep   *)
(* their model go past the threshold by less than the dearest call of each *)
(* coroutine, for any number of them, any prices and any threshold         *)
(* (llm_gateway/budget_controller.py: check, record_usage).                *)
THEOREM OvershootIsBounded == ServicesSpec => []OvershootIsInFlight
<1>1. BInv => OvershootIsInFlight
  <2> SUFFICES ASSUME BInv, calm, U!Stored.downgrade, U!Amount(U!Stored) > 0
               PROVE  10 * kept[U!Stored.period]
                        < Threshold * U!Amount(U!Stored) + 10 * Dearest * U!Cardinality(Spenders)
    BY DEF OvershootIsInFlight, U!OvershootIsInFlight
  <2>1. U!Stored \in U!Config /\ kept[U!Stored.period] \in Nat
    BY StoredType, ConfigFields DEF BInv, BudgetTypes
  <2>2. Committed \in SUBSET Spenders
    BY DEF Committed
  <2> DEFINE a == Dearest * Cardinality(Committed)
             n == Cardinality(Spenders)
             t == Threshold * U!Amount(U!Stored)
  <2>3. a \in Nat /\ n \in Nat /\ Dearest * n \in Nat /\ t \in Nat
    BY <2>1, <2>2, CommittedSize, BudgetAmount, AccountArithmetic
  <2>4. 10 * (kept[U!Stored.period] + a) < t + 10 * (Dearest * n)
    BY DEF BInv, Accounted
  <2>5. 10 * Dearest * n = 10 * (Dearest * n)
    BY <2>3, BudgetConstants
  <2> HIDE DEF a, n, t
  <2>6. 10 * kept[U!Stored.period] < t + 10 * Dearest * n
    BY <2>1, <2>3, <2>4, <2>5
  <2> QED
    BY <2>6, CardsAgree DEF n, t
<1> QED
  BY <1>1, BudgetInvariance, PTL

(* What is stored is every update that was made, one over the other, as    *)
(* long as no two of them overlapped and no read failed                    *)
(* (llm_gateway/budget_controller.py: set_budget_config).                  *)
THEOREM SerialUpdatesAddUp == ServicesSpec => []UpdatesAccumulate
<1>1. BInv => UpdatesAccumulate
  BY DEF BInv, SerialInv, UpdatesAccumulate, U!UpdatesAccumulate
<1> QED
  BY <1>1, BudgetInvariance, PTL

-------------------------------------------------------------------------------
(* The semantic cache. *)
\* An answer that may stand for the prompt and the model of a key.
Answers(key, answer) ==
    /\ <<key.prompt, answer.prompt>> \in Similar
    /\ IF key.prompt \in Pictures THEN answer.prompt = key.prompt ELSE answer.model = key.model

\* An entry of the memory was made less than a TTL after its answer, and a row
\* ends a TTL after its answer, which is one for its own prompt.
EntryInv(key, e) ==
    /\ Answers(key, e.answer)
    /\ e.at \in Int /\ e.answer.born \in Int
    /\ e.at - e.answer.born < TTL
RowInv(key, e) ==
    /\ e.answer.model = key.model /\ e.answer.prompt = key.prompt
    /\ e.answer.born \in Int /\ e.expires = e.answer.born + TTL

CInv ==
    /\ now \in Nat
    /\ DOMAIN asked = Callers
    /\ \A k \in DOMAIN memory : EntryInv(k, memory[k])
    /\ \A k \in DOMAIN rows : RowInv(k, rows[k])
    /\ \A c \in Callers : /\ asked[c].step = "call" => asked[c].key \in C!Keys
                          /\ asked[c].step = "persist" =>
                                /\ asked[c].answer.model = asked[c].key.model
                                /\ asked[c].answer.prompt = asked[c].key.prompt
                                /\ asked[c].answer.born = now
    /\ C!NoDrift /\ C!StaleAtMostTwice

LEMMA TTLType == TTL \in Nat \ {0} /\ \A p \in Prompts : <<p, p>> \in Similar
  BY CacheBounds DEF C!CacheAssumption

LEMMA WithoutFacts ==
    ASSUME NEW f, NEW T
    PROVE  /\ DOMAIN C!Without(f, T) \subseteq DOMAIN f
           /\ \A j \in DOMAIN C!Without(f, T) : C!Without(f, T)[j] = f[j]
  BY DEF C!Without

(* What is put into the memory is new, and nothing else is. *)
LEMMA SetsFacts ==
    ASSUME NEW m, NEW key, NEW answer, NEW m2 \in C!Sets(m, key, answer), NEW j \in DOMAIN m2
    PROVE  \/ j = key /\ m2[j] = [answer |-> answer, at |-> now]
           \/ j \in DOMAIN m /\ m2[j] = m[j]
<1> DEFINE entry == [answer |-> answer, at |-> now]
<1>1. \/ m2 = C!With(m, key, entry)
      \/ \E k : m2 = C!With(C!Without(m, {k}), key, entry)
  BY DEF C!Sets
<1> HIDE DEF entry
<1>2. CASE m2 = C!With(m, key, entry)
  BY <1>2 DEF C!With, entry
<1>3. ASSUME NEW k, m2 = C!With(C!Without(m, {k}), key, entry)
      PROVE  \/ j = key /\ m2[j] = entry
             \/ j \in DOMAIN m /\ m2[j] = m[j]
  <2> DEFINE f == C!Without(m, {k})
  <2>1. DOMAIN f \subseteq DOMAIN m /\ \A i \in DOMAIN f : f[i] = m[i]
    BY WithoutFacts
  <2> HIDE DEF f
  <2>2. m2 = C!With(f, key, entry)
    BY <1>3 DEF f
  <2> QED
    BY <2>1, <2>2 DEF C!With
<1> QED
  BY <1>1, <1>2, <1>3 DEF entry

LEMMA DroppedFacts ==
    ASSUME NEW m, NEW key
    PROVE  /\ DOMAIN C!Dropped(m, key) \subseteq DOMAIN m
           /\ \A j \in DOMAIN C!Dropped(m, key) : C!Dropped(m, key)[j] = m[j]
  BY WithoutFacts DEF C!Dropped

LEMMA CacheInit == C!Init => CInv
  BY DEF C!Init, C!Empty, C!Rest, CInv, C!NoDrift, C!StaleAtMostTwice

(* A step of c that keeps the clock. *)
LEMMA CacheStep ==
    ASSUME CInv, NEW c \in Callers, NEW p, asked' = [asked EXCEPT ![c] = p], now' = now,
           p.step = "call" => p.key \in C!Keys,
           p.step = "persist" => /\ p.answer.model = p.key.model
                                 /\ p.answer.prompt = p.key.prompt /\ p.answer.born = now,
           \A k \in DOMAIN memory' : EntryInv(k, memory'[k]),
           \A k \in DOMAIN rows' : RowInv(k, rows'[k]),
           \A s \in served' : Answers(s.key, s.answer) /\ now - s.answer.born < 2 * TTL
    PROVE  CInv'
<1>1. /\ DOMAIN asked' = Callers /\ asked'[c] = p
      /\ \A d \in Callers \ {c} : asked'[d] = asked[d]
  BY DEF CInv
<1>2. C!NoDrift' /\ C!StaleAtMostTwice'
  BY DEF C!NoDrift, C!StaleAtMostTwice, Answers
<1>3. \A d \in Callers : /\ asked'[d].step = "call" => asked'[d].key \in C!Keys
                         /\ asked'[d].step = "persist" =>
                                /\ asked'[d].answer.model = asked'[d].key.model
                                /\ asked'[d].answer.prompt = asked'[d].key.prompt
                                /\ asked'[d].answer.born = now'
  BY <1>1 DEF CInv
<1> QED
  BY <1>1, <1>2, <1>3 DEF CInv, EntryInv, RowInv, Answers

(* A step of c after which it has nothing under way. *)
LEMMA RestStep ==
    ASSUME CInv, NEW c \in Callers, asked' = [asked EXCEPT ![c] = C!Rest], now' = now,
           \A k \in DOMAIN memory' : EntryInv(k, memory'[k]),
           \A k \in DOMAIN rows' : RowInv(k, rows'[k]),
           \A s \in served' : Answers(s.key, s.answer) /\ now - s.answer.born < 2 * TTL
    PROVE  CInv'
<1>1. C!Rest.step = "idle"
  BY DEF C!Rest
<1> QED
  BY <1>1, CacheStep

LEMMA AskInv == ASSUME CInv, NEW c \in Callers, NEW key \in C!Keys, C!Ask(c, key) PROVE CInv'
<1>1. now' = now /\ now \in Nat /\ TTL \in Nat
  BY TTLType DEF C!Ask, CInv
<1>2. CASE C!Exact(c, key)
  <2>1. PICK a \in C!Fetch(memory, key) : C!Serve(c, key, a)
    BY <1>2 DEF C!Exact
  <2>2. key \in DOMAIN memory /\ now - memory[key].at <= TTL /\ a = memory[key].answer
    BY <2>1 DEF C!Fetch
  <2>3. EntryInv(key, memory[key])
    BY <2>2 DEF CInv
  <2>4. Answers(key, a) /\ now - a.born < 2 * TTL
    BY <1>1, <2>2, <2>3 DEF EntryInv
  <2>5. /\ asked' = [asked EXCEPT ![c] = C!Rest] /\ memory' = memory /\ rows' = rows
        /\ served' = {[key |-> key, answer |-> a]}
    BY <1>2, <2>1 DEF C!Exact, C!Serve
  <2>6. \A s \in served' : s.key = key /\ s.answer = a
    BY <2>5
  <2> QED
    BY <1>1, <2>4, <2>5, <2>6, RestStep DEF CInv
<1>3. CASE C!Semantic(c, key)
  <2>1. PICK k \in C!Best(key) :
           /\ memory' \in C!Sets(C!Dropped(memory, key), key, rows[k].answer)
           /\ C!Serve(c, key, rows[k].answer) /\ rows' = rows /\ key.prompt \notin Pictures
    BY <1>3 DEF C!Semantic
  <2> DEFINE a == rows[k].answer
  <2>2. /\ k \in DOMAIN rows /\ k.model = key.model /\ rows[k].expires > now
        /\ <<key.prompt, k.prompt>> \in Similar
    BY <2>1 DEF C!Best, C!Candidates
  <2>3. RowInv(k, rows[k])
    BY <2>2 DEF CInv
  <2>4. Answers(key, a) /\ now - a.born < TTL /\ a.born \in Int
    BY <1>1, <2>1, <2>2, <2>3 DEF RowInv, Answers
  <2>5. /\ asked' = [asked EXCEPT ![c] = C!Rest]
        /\ served' = {[key |-> key, answer |-> a]}
    BY <2>1 DEF C!Serve
  <2> HIDE DEF a
  <2>6. \A s \in served' : s.key = key /\ s.answer = a
    BY <2>5
  <2>7. ASSUME NEW j \in DOMAIN memory'
        PROVE  EntryInv(j, memory'[j])
    <3>1. \/ j = key /\ memory'[j] = [answer |-> a, at |-> now]
          \/ j \in DOMAIN C!Dropped(memory, key) /\ memory'[j] = C!Dropped(memory, key)[j]
      BY <2>1, SetsFacts DEF a
    <3>2. CASE j = key /\ memory'[j] = [answer |-> a, at |-> now]
      BY <1>1, <2>4, <3>2 DEF EntryInv
    <3>3. CASE j \in DOMAIN C!Dropped(memory, key) /\ memory'[j] = C!Dropped(memory, key)[j]
      BY <3>3, DroppedFacts DEF CInv
    <3> QED
      BY <3>1, <3>2, <3>3
  <2>8. now - a.born < 2 * TTL
    BY <1>1, <2>4
  <2> QED
    BY <1>1, <2>1, <2>4, <2>5, <2>6, <2>7, <2>8, RestStep DEF CInv
<1>4. CASE C!Missed(c, key)
  <2> DEFINE p == [C!Rest EXCEPT !.step = "call", !.key = key]
  <2>1. /\ asked' = [asked EXCEPT ![c] = p] /\ memory' = C!Dropped(memory, key)
        /\ rows' = rows /\ served' = {}
    BY <1>4 DEF C!Missed, C!Miss
  <2>2. p.step = "call" /\ p.key = key
    BY DEF C!Rest
  <2> HIDE DEF p
  <2>3. \A j \in DOMAIN memory' : EntryInv(j, memory'[j])
    BY <2>1, DroppedFacts DEF CInv
  <2> QED
    BY <1>1, <2>1, <2>2, <2>3, CacheStep DEF CInv
<1> QED
  BY <1>2, <1>3, <1>4 DEF C!Ask

\* An answer to the prompt asked, kept under the key of a prompt and a model.
LEMMA KeptAnswer ==
    ASSUME CInv, NEW key, NEW answer, NEW m2 \in C!Sets(memory, key, answer),
           Answers(key, answer), answer.born = now
    PROVE  \A j \in DOMAIN m2 : EntryInv(j, m2[j])
<1> SUFFICES ASSUME NEW j \in DOMAIN m2 PROVE EntryInv(j, m2[j])
  OBVIOUS
<1>1. \/ j = key /\ m2[j] = [answer |-> answer, at |-> now]
      \/ j \in DOMAIN memory /\ m2[j] = memory[j]
  BY SetsFacts
<1>2. CASE j = key /\ m2[j] = [answer |-> answer, at |-> now]
  BY <1>2, TTLType DEF EntryInv, CInv
<1>3. CASE j \in DOMAIN memory /\ m2[j] = memory[j]
  BY <1>3 DEF CInv
<1> QED
  BY <1>1, <1>2, <1>3

LEMMA CallInv ==
    ASSUME CInv, NEW c \in Callers,
           (\E m \in Models : C!Store(c, m) \/ C!StorePicture(c, m)) \/ C!Unanswered(c)
    PROVE  CInv'
<1>1. CASE C!Unanswered(c)
  BY <1>1, RestStep DEF C!Unanswered, CInv
<1>2. ASSUME NEW m \in Models, C!Store(c, m)
      PROVE  CInv'
  <2> DEFINE answer == C!Answered(c, m)
             key == [asked[c].key EXCEPT !.model = m]
             p == [step |-> "persist", key |-> key, answer |-> answer]
  <2>1. /\ asked[c].step = "call" /\ memory' \in C!Sets(memory, key, answer)
        /\ asked[c].key.prompt \notin Pictures
        /\ asked' = [asked EXCEPT ![c] = p] /\ served' = {} /\ rows' = rows /\ now' = now
    BY <1>2 DEF C!Store
  <2>2. asked[c].key \in C!Keys
    BY <2>1 DEF CInv
  <2>3. /\ key.prompt = asked[c].key.prompt /\ key.model = m /\ key.prompt \in Prompts
        /\ answer.prompt = key.prompt /\ answer.model = m /\ answer.born = now
    BY <2>2 DEF C!Keys, C!Answered
  <2>4. p.step = "persist" /\ p.key = key /\ p.answer = answer
    OBVIOUS
  <2> HIDE DEF p, key, answer
  <2>5. Answers(key, answer)
    BY <2>1, <2>3, TTLType DEF Answers
  <2>6. \A j \in DOMAIN memory' : EntryInv(j, memory'[j])
    BY <2>1, <2>3, <2>5, KeptAnswer
  <2> QED
    BY <2>1, <2>3, <2>4, <2>6, CacheStep DEF CInv
<1>3. ASSUME NEW m \in Models, C!StorePicture(c, m)
      PROVE  CInv'
  <2> DEFINE answer == C!Answered(c, m)
  <2>1. PICK under \in {asked[c].key.model, m} :
           memory' \in C!Sets(memory, [asked[c].key EXCEPT !.model = under], answer)
    BY <1>3 DEF C!StorePicture
  <2> DEFINE key == [asked[c].key EXCEPT !.model = under]
  <2>2. /\ asked[c].step = "call" /\ asked[c].key.prompt \in Pictures
        /\ asked' = [asked EXCEPT ![c] = C!Rest] /\ served' = {} /\ rows' = rows /\ now' = now
    BY <1>3 DEF C!StorePicture
  <2>3. asked[c].key \in C!Keys
    BY <2>2 DEF CInv
  <2>4. /\ key.prompt = asked[c].key.prompt /\ key.prompt \in Prompts
        /\ answer.prompt = key.prompt /\ answer.born = now
    BY <2>3 DEF C!Keys, C!Answered
  <2>5. memory' \in C!Sets(memory, key, answer)
    BY <2>1
  <2> HIDE DEF key, answer
  <2>6. Answers(key, answer)
    BY <2>2, <2>4, TTLType DEF Answers
  <2>7. \A j \in DOMAIN memory' : EntryInv(j, memory'[j])
    BY <2>4, <2>5, <2>6, KeptAnswer
  <2> QED
    BY <2>2, <2>7, RestStep DEF CInv
<1> QED
  BY <1>1, <1>2, <1>3

LEMMA PersistInv == ASSUME CInv, NEW c \in Callers, C!Persist(c) PROVE CInv'
<1> DEFINE key == asked[c].key
           e == [answer |-> asked[c].answer, expires |-> now + TTL]
<1>1. /\ asked[c].step = "persist" /\ asked' = [asked EXCEPT ![c] = C!Rest]
      /\ served' = {} /\ memory' = memory /\ now' = now
      /\ rows' = C!With(rows, key, e) \/ rows' = rows
  BY DEF C!Persist
<1>2. RowInv(key, e)
  BY <1>1 DEF CInv, RowInv
<1> HIDE DEF e
<1>3. \A k \in DOMAIN rows' : RowInv(k, rows'[k])
  BY <1>1, <1>2 DEF C!With, CInv
<1> QED
  BY <1>1, <1>3, RestStep DEF CInv

LEMMA CacheNext == ASSUME CInv, [C!Next]_C!vars PROVE CInv'
<1>1. CASE UNCHANGED C!vars
  BY <1>1 DEF C!vars, CInv, C!NoDrift, C!StaleAtMostTwice, EntryInv, RowInv
<1>2. CASE C!Tick
  BY <1>2 DEF C!Tick, CInv, C!NoDrift, C!StaleAtMostTwice, EntryInv, RowInv
<1>3. CASE C!Restart
  BY <1>3 DEF C!Restart, C!Empty, C!Rest, CInv, C!NoDrift, C!StaleAtMostTwice, EntryInv, RowInv
<1> QED
  BY <1>1, <1>2, <1>3, AskInv, CallInv, PersistInv DEF C!Next

LEMMA ServicesAreCache == ServicesSpec => C!Spec
<1>1. ServicesInit => C!Init
  BY DEF ServicesInit
<1>2. [ServicesNext]_allVars => [C!Next]_C!vars
  <2>1. CASE UNCHANGED allVars
    BY <2>1 DEF allVars, cacheVars, C!vars
  <2>2. CASE ServicesNext
    BY <2>2 DEF ServicesNext, OnlyOf, cacheVars, C!vars
  <2> QED
    BY <2>1, <2>2
<1> QED
  BY <1>1, <1>2, PTL DEF ServicesSpec, C!Spec

LEMMA CacheInvariance == ServicesSpec => []CInv
  BY CacheInit, CacheNext, ServicesAreCache, PTL DEF C!Spec

(* However often a semantic hit is set in the memory again under another   *)
(* prompt, an answer served was made for a prompt similar to the one asked *)
(* and by the model asked for; with images for the very prompt, by the     *)
(* model asked for or by one that stood in (llm_gateway/cache.py: get,     *)
(* set; llm_gateway/__init__.py:545).                                      *)
THEOREM AnswersDoNotDrift == ServicesSpec => []NoDrift
<1>1. CInv => NoDrift
  BY DEF CInv, NoDrift
<1> QED
  BY <1>1, CacheInvariance, PTL

(* However often it is set again, an answer served is not two TTLs old     *)
(* (llm_gateway/cache.py: the expiry of the table and of the memory).      *)
THEOREM AnswersAreYoung == ServicesSpec => []StaleAtMostTwice
<1>1. CInv => StaleAtMostTwice
  BY DEF CInv, StaleAtMostTwice
<1> QED
  BY <1>1, CacheInvariance, PTL

-------------------------------------------------------------------------------
(* Embeddings. *)
VectorRow == [of : Embeds, by : {source \in E!Sources : E!Fitting(source)}]
EmbedCall == [for : {"row", "search", "order"}, by : {"none"} \union E!Sources,
              step : {"new", "api", "local", "settle", "vector", "raised", "failed", "done"},
              found : SUBSET VectorRow]

\* The model whose vectors fit the column, as long as none has been left.
Standard == IF E!Fitting(remote) THEN remote ELSE "local"
Pure(rs) == \A w \in rs : w.by \in {Standard, "zero"}

\* Only a row is given the zero vector, and what a search has found fits.  While
\* no model that fits has been left, what fits is of one model.
Sound(r) ==
    /\ r.step = "new" => r.by = "none" /\ r.found = {}
    /\ r.step \in {"settle", "vector"} => r.by # "none"
    /\ r.by = "zero" => r.for = "row"
    /\ r.found # {} => r.step = "done" /\ r.by \in E!Sources \ {"zero"} /\ E!Fitting(r.by)
                       /\ r.for = "search"
PureCall(r) ==
    /\ r.step \in {"local", "raised"} /\ r.for # "order" => Standard = "local"
    /\ r.by \in E!Sources /\ r.for # "order" /\ E!Fitting(r.by) => r.by \in {Standard, "zero"}
    /\ Pure(r.found)

EInv ==
    /\ embedding \in [Embeds -> EmbedCall]
    /\ vectors \subseteq VectorRow
    /\ remote \in Remotes /\ swayed \in BOOLEAN
    /\ \A c \in Embeds : Sound(embedding[c])
    /\ ~swayed => Pure(vectors) /\ \A c \in Embeds : PureCall(embedding[c])

LEMMA SourcesDiffer ==
    ASSUME remote \in Remotes
    PROVE  /\ Remotes \subseteq E!Sources /\ {"local", "zero", "limited"} \subseteq E!Sources
           /\ "none" \notin E!Sources
           /\ ~E!Fitting("limited") /\ E!Fitting("zero")
           /\ Standard \in Remotes \union {"local"} /\ "zero" \notin Remotes
<1>1. Remotes \intersect {"local", "zero", "limited", "none"} = {}
  BY EmbeddingBounds DEF E!EmbeddingsAssumption
<1>2. Dimension["zero"] = Column /\ Dimension["limited"] # Column
  BY EmbeddingBounds DEF E!EmbeddingsAssumption
<1>3. "zero" \notin Remotes /\ "none" \notin Remotes
  BY <1>1
<1>4. Standard \in Remotes \union {"local"}
  BY DEF Standard
<1> QED
  BY <1>2, <1>3, <1>4 DEF E!Sources, E!Fitting

LEMMA EmbeddingsInit == E!Init => EInv
<1>0. SUFFICES ASSUME E!Init PROVE EInv
  OBVIOUS
<1>1. vectors = {} /\ remote \in Remotes /\ swayed = FALSE
      /\ embedding = [c \in Embeds |-> E!NoAnswer]
  BY <1>0 DEF E!Init
<1>2. E!NoAnswer \in EmbedCall /\ Sound(E!NoAnswer) /\ PureCall(E!NoAnswer)
  BY <1>1, SourcesDiffer DEF E!NoAnswer, EmbedCall, Sound, PureCall, Pure
<1> QED
  BY <1>1, <1>2 DEF EInv, Pure

LEMMA EmbedStep ==
    ASSUME EInv, NEW c \in Embeds, NEW r \in EmbedCall, Sound(r), ~swayed' => PureCall(r),
           embedding' = [embedding EXCEPT ![c] = r],
           vectors' \subseteq VectorRow, ~swayed' => Pure(vectors'),
           remote' = remote, swayed' \in BOOLEAN, swayed => swayed'
    PROVE  EInv'
<1>1. Standard' = Standard
  BY DEF Standard, E!Fitting
<1>2. (~swayed => Pure(vectors))'
  BY <1>1 DEF Pure
<1>3. ASSUME NEW d \in Embeds PROVE /\ Sound(embedding[d])'
                                   /\ ~swayed' => PureCall(embedding[d])'
  <2>1. embedding'[d] = (IF d = c THEN r ELSE embedding[d])
    BY DEF EInv
  <2> DEFINE x == embedding'[d]
  <2>2. Sound(x) /\ (~swayed' => PureCall(x))
    BY <2>1 DEF EInv
  <2> QED
    BY <1>1, <2>2 DEF Sound, PureCall, Pure, E!Fitting, E!Sources
<1>4. embedding' \in [Embeds -> EmbedCall]
  BY DEF EInv
<1> QED
  BY <1>2, <1>3, <1>4 DEF EInv, VectorRow, EmbedCall, E!Sources, E!Fitting

LEMMA ReserveEInv == ASSUME EInv, NEW c \in Embeds, E!Reserve(c) PROVE EInv'
<1> DEFINE r == embedding[c]
<1>1. /\ r \in EmbedCall /\ Sound(r) /\ r.step = "new"
      /\ vectors' = vectors /\ remote' = remote /\ swayed' = swayed /\ remote \in Remotes
  BY DEF EInv, E!Reserve, E!At, E!modelVars
<1>2. PICK for \in {"row", "search", "order"} :
         \/ embedding' = [embedding EXCEPT ![c].for = for, ![c].step = "api"]
         \/ embedding' = [embedding EXCEPT ![c].for = for, ![c].by = "limited",
                                           ![c].step = IF for = "order" THEN "done" ELSE "vector"]
  BY DEF E!Reserve
<1>3. CASE embedding' = [embedding EXCEPT ![c].for = for, ![c].step = "api"]
  <2> DEFINE t == [r EXCEPT !.for = for, !.step = "api"]
  <2>1. embedding' = [embedding EXCEPT ![c] = t]
    BY <1>3
  <2>2. t \in EmbedCall /\ Sound(t) /\ PureCall(t)
    BY <1>1, SourcesDiffer DEF EmbedCall, Sound, PureCall, Pure
  <2> QED
    BY <1>1, <2>1, <2>2, EmbedStep DEF EInv
<1>4. CASE embedding' = [embedding EXCEPT ![c].for = for, ![c].by = "limited",
                                          ![c].step = IF for = "order" THEN "done" ELSE "vector"]
  <2> DEFINE t == [r EXCEPT !.for = for, !.by = "limited", !.step = IF for = "order" THEN "done" ELSE "vector"]
  <2>1. embedding' = [embedding EXCEPT ![c] = t]
    BY <1>4
  <2>2. t \in EmbedCall /\ Sound(t) /\ PureCall(t)
    BY <1>1, SourcesDiffer DEF EmbedCall, Sound, PureCall, Pure
  <2> QED
    BY <1>1, <2>1, <2>2, EmbedStep DEF EInv
<1> QED
  BY <1>2, <1>3, <1>4

\* An answer of the remote model configured, of the local one, or the zero vector.
LEMMA AnswerEInv ==
    ASSUME EInv, NEW c \in Embeds, NEW source \in {remote, "local", "zero"}, NEW s \in {"settle", "vector"},
           E!Answered(c, source, s), embedding[c].step \in {"api", "local", "raised"},
           source = "zero" => embedding[c].for = "row",
           source = "local" => embedding[c].step \in {"local", "raised"},
           UNCHANGED <<vectors, remote, swayed>>
    PROVE  EInv'
<1> DEFINE r == embedding[c]
           t == [r EXCEPT !.step = s, !.by = source]
<1>1. r \in EmbedCall /\ Sound(r) /\ (~swayed => PureCall(r)) /\ remote \in Remotes
  BY DEF EInv
<1>2. embedding' = [embedding EXCEPT ![c] = t]
  BY DEF E!Answered
<1>3. t \in EmbedCall /\ Sound(t)
  BY <1>1, SourcesDiffer DEF EmbedCall, Sound
<1>4. ~swayed => PureCall(t)
  <2>1. source = remote /\ E!Fitting(source) => Standard = source
    BY DEF Standard
  <2> QED
    BY <1>1, <2>1, SourcesDiffer DEF EmbedCall, PureCall
<1> HIDE DEF t
<1> QED
  BY <1>2, <1>3, <1>4, EmbedStep DEF EInv

\* A step that leaves the answer as it is.
LEMMA GoesEInv ==
    ASSUME EInv, NEW c \in Embeds, NEW s \in {"local", "raised", "done", "vector"}, E!Goes(c, s),
           embedding[c].step \notin {"new", "done"}, s = "vector" => embedding[c].step = "settle",
           UNCHANGED <<vectors, remote>>, swayed' \in BOOLEAN, swayed => swayed',
           s \in {"local", "raised"} /\ embedding[c].for # "order" /\ ~swayed' =>
               Standard = "local"
    PROVE  EInv'
<1> DEFINE r == embedding[c]
           t == [r EXCEPT !.step = s]
<1>1. r \in EmbedCall /\ Sound(r) /\ (~swayed' => PureCall(r) /\ Pure(vectors'))
  BY DEF EInv
<1>2. embedding' = [embedding EXCEPT ![c] = t]
  BY DEF E!Goes
<1>3. t \in EmbedCall /\ Sound(t)
  BY <1>1 DEF EmbedCall, Sound
<1>4. ~swayed' => PureCall(t)
  BY <1>1 DEF EmbedCall, PureCall
<1> HIDE DEF t
<1> QED
  BY <1>1, <1>2, <1>3, <1>4, EmbedStep DEF EInv

LEMMA ApiEInv == ASSUME EInv, NEW c \in Embeds, E!ApiEmbed(c) \/ E!ApiRerank(c) PROVE EInv'
<1>1. embedding[c].step = "api" /\ UNCHANGED <<vectors, remote>>
  BY DEF E!ApiEmbed, E!ApiRerank, E!At, E!modelVars
<1>2. CASE E!Answered(c, remote, "settle") /\ UNCHANGED swayed
  <2>1. "zero" # remote /\ "local" # remote
    BY EmbeddingBounds DEF EInv, E!EmbeddingsAssumption
  <2> QED
    BY <1>1, <1>2, <2>1, AnswerEInv
<1>3. CASE E!Goes(c, "local") /\ embedding[c].for # "order" /\ swayed' = (swayed \/ E!Fitting(remote))
  <2>1. ~swayed' => Standard = "local"
    BY <1>3 DEF Standard
  <2>2. swayed' \in BOOLEAN /\ (swayed => swayed')
    BY <1>3 DEF EInv, E!Fitting
  <2> QED
    BY <1>1, <1>3, <2>1, <2>2, GoesEInv
<1>4. CASE E!Goes(c, "local") /\ embedding[c].for = "order" /\ UNCHANGED swayed
  BY <1>1, <1>4, GoesEInv DEF EInv
<1> QED
  BY <1>2, <1>3, <1>4 DEF E!ApiEmbed, E!ApiRerank, E!modelVars

LEMMA LocalEInv ==
    ASSUME EInv, NEW c \in Embeds,
           \/ E!LocalEmbed(c) \/ E!LocalRerank(c) \/ E!FallBack(c) \/ E!FullText(c) \/ E!Settle(c)
    PROVE  EInv'
<1>1. UNCHANGED <<vectors, remote, swayed>> /\ swayed \in BOOLEAN
  BY DEF EInv, E!LocalEmbed, E!LocalRerank, E!FallBack, E!FullText, E!Settle, E!modelVars
<1>2. ~swayed => PureCall(embedding[c])
  BY DEF EInv
<1>3. CASE E!LocalEmbed(c)
  <2>1. embedding[c].step = "local" /\ embedding[c].for # "order"
    BY <1>3 DEF E!LocalEmbed, E!At
  <2>2. ~swayed => Standard = "local"
    BY <1>2, <2>1 DEF PureCall
  <2>3. CASE E!Answered(c, "local", "settle")
    BY <1>1, <2>1, <2>3, AnswerEInv
  <2>4. CASE E!Goes(c, "raised")
    BY <1>1, <2>1, <2>2, <2>4, GoesEInv
  <2> QED
    BY <1>3, <2>3, <2>4 DEF E!LocalEmbed
<1>4. CASE E!LocalRerank(c)
  BY <1>1, <1>4, AnswerEInv DEF E!LocalRerank, E!At
<1>5. CASE E!FallBack(c)
  <2>1. PICK source \in {"local", "zero"} : E!Answered(c, source, "vector")
    BY <1>5 DEF E!FallBack
  <2>2. embedding[c].step = "raised" /\ embedding[c].for = "row"
    BY <1>5 DEF E!FallBack, E!At
  <2> QED
    BY <1>1, <2>1, <2>2, AnswerEInv
<1>6. CASE E!FullText(c)
  BY <1>1, <1>6, GoesEInv DEF E!FullText, E!At
<1>7. CASE E!Settle(c)
  <2>1. PICK s \in {"done", "vector"} : E!Goes(c, s)
    BY <1>7 DEF E!Settle
  <2>2. embedding[c].step = "settle"
    BY <1>7 DEF E!Settle, E!At
  <2> QED
    BY <1>1, <2>1, <2>2, GoesEInv
<1> QED
  BY <1>3, <1>4, <1>5, <1>6, <1>7

LEMMA InsertEInv == ASSUME EInv, NEW c \in Embeds, E!Insert(c) PROVE EInv'
<1> DEFINE r == embedding[c]
<1>1. /\ r \in EmbedCall /\ Sound(r) /\ r.step = "vector" /\ r.by \in E!Sources /\ r.for = "row"
      /\ remote' = remote /\ swayed' = swayed /\ (~swayed => PureCall(r) /\ Pure(vectors))
  BY DEF EInv, EmbedCall, E!Insert, E!At, Sound, E!modelVars
<1>2. PICK s \in {"done", "failed"} : E!Goes(c, s)
  BY DEF E!Insert
<1> DEFINE t == [r EXCEPT !.step = s]
<1>3. embedding' = [embedding EXCEPT ![c] = t]
  BY <1>2 DEF E!Goes
<1>4. t \in EmbedCall /\ Sound(t) /\ (~swayed' => PureCall(t))
  BY <1>1 DEF EmbedCall, Sound, PureCall
<1>5. vectors' \subseteq VectorRow /\ (~swayed' => Pure(vectors'))
  <2>1. CASE E!Fits(c)
    <3> DEFINE w == [of |-> c, by |-> r.by]
    <3>1. E!Fitting(r.by) /\ vectors' = vectors \union {w}
      BY <2>1 DEF E!Insert, E!Fits
    <3>2. w \in VectorRow /\ (~swayed => w.by \in {Standard, "zero"})
      BY <1>1, <3>1 DEF VectorRow, PureCall
    <3> QED
      BY <1>1, <3>1, <3>2 DEF EInv, Pure
  <2>2. CASE ~ E!Fits(c)
    BY <1>1, <2>2 DEF E!Insert, EInv
  <2> QED
    BY <2>1, <2>2
<1> HIDE DEF t
<1> QED
  BY <1>1, <1>3, <1>4, <1>5, EmbedStep DEF EInv

LEMMA SearchEInv == ASSUME EInv, NEW c \in Embeds, E!Search(c) PROVE EInv'
<1> DEFINE r == embedding[c]
           rs == IF E!Fits(c) THEN vectors ELSE {}
           t == [r EXCEPT !.step = "done", !.found = rs]
<1>1. /\ r \in EmbedCall /\ Sound(r) /\ r.step = "vector" /\ r.by \in E!Sources /\ r.for = "search"
      /\ vectors \subseteq VectorRow /\ vectors' = vectors /\ remote' = remote /\ swayed' = swayed
      /\ ~swayed => PureCall(r) /\ Pure(vectors)
  BY DEF EInv, EmbedCall, E!Search, E!At, Sound, E!modelVars
<1>2. embedding' = [embedding EXCEPT ![c] = t]
  BY DEF E!Search
<1>3. rs \subseteq VectorRow /\ (rs # {} => E!Fitting(r.by)) /\ (~swayed => Pure(rs))
  BY <1>1 DEF E!Fits, Pure
<1> HIDE DEF rs
<1>4. t \in EmbedCall /\ Sound(t)
  BY <1>1, <1>3 DEF EmbedCall, Sound
<1>5. ~swayed => PureCall(t)
  BY <1>1, <1>3 DEF EmbedCall, PureCall
<1> HIDE DEF t
<1> QED
  BY <1>1, <1>2, <1>4, <1>5, EmbedStep DEF EInv

LEMMA ConfigureEInv == ASSUME EInv, E!Configure PROVE EInv'
<1>1. /\ embedding' = embedding /\ vectors' = vectors /\ remote' \in Remotes /\ swayed' \in BOOLEAN
      /\ ~swayed' => ~swayed /\ Standard' = "local" /\ Standard = "local"
  BY DEF EInv, E!Configure, E!Fitting, Standard
<1>2. \A c \in Embeds : Sound(embedding[c])' /\ (~swayed' => PureCall(embedding[c])')
  BY <1>1 DEF EInv, Sound, PureCall, Pure, E!Sources, E!Fitting
<1>3. ~swayed' => Pure(vectors)'
  BY <1>1 DEF EInv, Pure
<1> QED
  BY <1>1, <1>2, <1>3 DEF EInv, EmbedCall, VectorRow, E!Sources, E!Fitting

LEMMA EmbeddingsNext == ASSUME EInv, [E!Next]_E!vars PROVE EInv'
<1>1. CASE UNCHANGED E!vars
  BY <1>1 DEF E!vars, EInv, Sound, PureCall, Pure, Standard, EmbedCall, VectorRow, E!Sources, E!Fitting
<1>2. ASSUME NEW c \in Embeds, E!Expire(c) PROVE EInv'
  BY <1>2 DEF E!Expire, E!modelVars, EInv, Sound, PureCall, Pure, Standard, EmbedCall, VectorRow, E!Sources,
              E!Fitting
<1> QED
  BY <1>1, <1>2, ReserveEInv, ApiEInv, LocalEInv, InsertEInv, SearchEInv, ConfigureEInv DEF E!Next

LEMMA ServicesAreEmbeddings == ServicesSpec => E!Spec
<1>1. ServicesInit => E!Init
  BY DEF ServicesInit
<1>2. [ServicesNext]_allVars => [E!Next]_E!vars
  <2>1. CASE UNCHANGED allVars
    BY <2>1 DEF allVars, embeddingVars, E!vars
  <2>2. CASE ServicesNext
    BY <2>2 DEF ServicesNext, OnlyOf, embeddingVars, E!vars
  <2> QED
    BY <2>1, <2>2
<1> QED
  BY <1>1, <1>2, PTL DEF ServicesSpec, E!Spec

(* A search compares its vector with vectors of its own model, or with     *)
(* zero vectors, until a remote model whose vectors fit the column has     *)
(* failed or been replaced; whatever fell back on what before, and however *)
(* many models there are (knowledge_layer/vector_store.py:                 *)
(* similarity_search).                                                     *)
THEOREM SearchesCompareLikeWithLike == ServicesSpec => []ComparesLikeWithLike
<1>1. ASSUME EInv, ~swayed, NEW c \in Embeds, NEW w \in embedding[c].found
      PROVE  w.by \in {embedding[c].by, "zero"}
  <2>1. embedding[c].by = Standard
    BY <1>1 DEF EInv, Sound, PureCall
  <2> QED
    BY <1>1, <2>1 DEF EInv, PureCall, Pure
<1>3. EInv => ComparesLikeWithLike
  BY <1>1 DEF ComparesLikeWithLike, E!ComparesLikeWithLike
<1>2. EInv /\ [E!Next]_E!vars => EInv'
  BY EmbeddingsNext
<1> QED
  BY <1>2, <1>3, EmbeddingsInit, ServicesAreEmbeddings, PTL DEF E!Spec

-------------------------------------------------------------------------------
(* Compressor. *)
LEMMA CompressorSizes ==
    /\ MaxTokens \in Nat /\ Spare \in Nat /\ Longest \in Nat /\ Largest \in Nat /\ Spare <= MaxTokens
    /\ \A T : Z!Cardinality(T) = Cardinality(T)
<1>1. ASSUME NEW T PROVE Z!Cardinality(T) = Cardinality(T)
  BY DEF Z!Cardinality, Cardinality
<1> QED
  BY <1>1, CompressorBounds DEF Z!CompressorAssumption

\* The messages at the positions P come in their order, each once.
Order(at, P) ==
    /\ at \in [1 .. Cardinality(P) -> P]
    /\ \A k, m \in 1 .. Cardinality(P) : k < m => at[k] < at[m]
    /\ \A i \in P : \E k \in 1 .. Cardinality(P) : at[k] = i

LEMMA ItemsFacts ==
    ASSUME NEW ts, NEW P \in SUBSET (Nat \ {0}), IsFiniteSet(P)
    PROVE  /\ Cardinality(P) \in Nat
           /\ \E at : Order(at, P) /\ Z!Items(ts, P) = [k \in 1 .. Cardinality(P) |-> Z!Message(ts, at[k])]
<1> DEFINE size == Cardinality(P)
           Below(i) == {j \in P : j <= i}
           Rank(i) == Cardinality(Below(i))
           at == [k \in 1 .. size |-> CHOOSE i \in P : Rank(i) = k]
<1>0. \A i \in P : i \in Nat /\ i # 0
  OBVIOUS
<1>1. size \in Nat /\ \A i \in P : IsFiniteSet(Below(i)) /\ Rank(i) \in Nat /\ Rank(i) <= size
  BY FS_Subset, FS_CardinalityType
<1>2. ASSUME NEW i \in P, NEW j \in P, i < j PROVE Rank(i) < Rank(j)
  <2>1. Below(i) \in SUBSET Below(j) /\ j \in Below(j) /\ j \notin Below(i)
    <3>1. /\ i \in Nat /\ j \in Nat /\ i < j
          /\ \A k \in P : k \in Nat
      BY <1>2
    <3>2. \A k \in P : (k <= i => k <= j) /\ j <= j /\ ~(j <= i)
      BY <3>1
    <3> QED
      BY <3>2
  <2> HIDE DEF Below
  <2>2. Rank(i) <= Rank(j) /\ Rank(i) # Rank(j)
    BY <1>1, <2>1, FS_Subset
  <2> QED
    BY <1>1, <2>2
<1>3. ASSUME NEW i \in P PROVE Rank(i) \in 1 .. size
  <2>1. i \in Below(i)
    OBVIOUS
  <2> HIDE DEF Below
  <2>2. Rank(i) # 0
    BY <1>1, <2>1, FS_EmptySet
  <2> QED
    BY <1>1, <2>2
<1>4. \A k \in 1 .. size : \E i \in P : Rank(i) = k
  <2> DEFINE rank == [i \in P |-> Rank(i)]
  <2> HIDE DEF Rank
  <2>1. rank \in Injection(P, 1 .. size)
    <3>1. rank \in [P -> 1 .. size]
      BY <1>3
    <3>2. ASSUME NEW i \in P, NEW j \in P, i # j PROVE rank[i] # rank[j]
      <4>0. rank[i] = Rank(i) /\ rank[j] = Rank(j) /\ Rank(i) \in Nat /\ Rank(j) \in Nat
        BY <1>1
      <4> HIDE DEF rank
      <4>1. i < j \/ j < i
        BY <1>0, <3>2
      <4> QED
        BY <1>2, <4>0, <4>1
    <3> QED
      BY <3>1, <3>2 DEF Injection, IsInjective
  <2>2. IsFiniteSet(1 .. size) /\ Cardinality(1 .. size) = size
    BY <1>1, FS_Interval
  <2>3. rank \in Surjection(P, 1 .. size)
    <3> HIDE DEF rank
    <3> QED
      BY <2>1, <2>2, FS_Injection
  <2> QED
    BY <2>3 DEF Surjection
<1>5. \A k \in 1 .. size : at[k] \in P /\ Rank(at[k]) = k
  BY <1>4
<1>6. Z!Items(ts, P) = [k \in 1 .. size |-> Z!Message(ts, at[k])]
  <2>1. Z!Items(ts, P) = [k \in 1 .. size |-> Z!Message(ts, CHOOSE i \in P : Rank(i) = k)]
    BY DEF Z!Items, Z!Cardinality, Cardinality
  <2> QED
    BY <2>1
<1>7. at \in [1 .. size -> P]
  BY <1>5
<1> HIDE DEF at, Rank
<1>8. ASSUME NEW k \in 1 .. size, NEW m \in 1 .. size, k < m PROVE at[k] < at[m]
  <2>1. at[k] # at[m] /\ ~(at[m] < at[k])
    <3>1. at[k] \in P /\ at[m] \in P /\ Rank(at[k]) = k /\ Rank(at[m]) = m
      BY <1>5
    <3>2. at[m] < at[k] => m < k
      BY <1>2, <3>1
    <3> QED
      BY <1>1, <1>8, <3>1, <3>2
  <2>2. at[k] \in Nat /\ at[m] \in Nat
    BY <1>0, <1>5
  <2> QED
    BY <2>1, <2>2
<1>9. ASSUME NEW i \in P PROVE \E k \in 1 .. size : at[k] = i
  <2>1. at[Rank(i)] \in P /\ Rank(at[Rank(i)]) = Rank(i) /\ Rank(i) \in 1 .. size
    BY <1>3, <1>5
  <2>2. at[Rank(i)] = i
    <3>1. at[Rank(i)] < i \/ at[Rank(i)] = i \/ i < at[Rank(i)]
      <4>1. at[Rank(i)] \in Nat /\ i \in Nat
        BY <1>0, <2>1
      <4> QED
        BY <4>1
    <3>2. at[Rank(i)] < i => Rank(i) < Rank(i)
      BY <1>2, <2>1
    <3>3. i < at[Rank(i)] => Rank(i) < Rank(i)
      BY <1>2, <2>1
    <3>4. ~(Rank(i) < Rank(i))
      BY <2>1
    <3> QED
      BY <3>1, <3>2, <3>3, <3>4
  <2> QED
    BY <2>1, <2>2
<1>10. Order(at, P)
  BY <1>7, <1>8, <1>9 DEF Order
<1> QED
  BY <1>1, <1>6, <1>10

\* The tokens of a context are a sum, and it does not matter how they are counted.
Item == [position : Nat, tokens : Nat]

LEMMA TotalIsSum ==
    ASSUME NEW s \in Seq(Item)
    PROVE  Z!Total(s) = Sum([k \in DOMAIN s |-> s[k].tokens], DOMAIN s)
<1> DEFINE w == [k \in DOMAIN s |-> s[k].tokens]
           IsIt(G) == G = [T \in SUBSET (DOMAIN s) |-> IF T = {} THEN 0
                             ELSE s[CHOOSE x \in T : TRUE].tokens + G[T \ {CHOOSE x \in T : TRUE}]]
           H == CHOOSE G : IsIt(G)
<1>1. \A T \in SUBSET (DOMAIN s) : T # {} => w[Pick(T)] = s[CHOOSE x \in T : TRUE].tokens
  BY Picked DEF Pick
<1>2. \A G : IsIt(G) <=> IsSum(G, w, DOMAIN s)
  BY <1>1 DEF IsSum, Pick
<1>3. Terms(w, DOMAIN s) /\ IsFiniteSet(DOMAIN s)
  <2>1. DOMAIN s = 1 .. Len(s) /\ Len(s) \in Nat
    OBVIOUS
  <2>2. ASSUME NEW k \in DOMAIN s PROVE s[k].tokens \in Nat
    <3>1. s[k] \in Item
      BY <2>1, <2>2
    <3> QED
      BY <3>1 DEF Item
  <2>3. \A k \in DOMAIN s : w[k] \in Int
    BY <2>2
  <2> QED
    BY <2>1, <2>3, FS_Interval DEF Terms
<1>4. Z!Total(s) = H[DOMAIN s]
  BY DEF Z!Total, Z!FoldSeq, Z!FoldFunction, Z!FoldFunctionOnSet, Z!MapThenFoldSet
<1> HIDE DEF IsIt, w
<1>5. IsIt(H)
  <2>1. \E G : IsIt(G)
    BY <1>2, <1>3, SumExists
  <2> QED
    BY <2>1
<1> HIDE DEF H
<1>6. Additive(H, w, DOMAIN s)
  BY <1>2, <1>3, <1>5, SumIsAdditive
<1> QED
  BY <1>3, <1>4, <1>6, SumIs DEF w

LEMMA TotalIsNatural ==
    ASSUME NEW s \in Seq(Item)
    PROVE  Z!Total(s) \in Nat
<1> DEFINE w == [k \in DOMAIN s |-> s[k].tokens]
<1>1. DOMAIN s = 1 .. Len(s) /\ Len(s) \in Nat
  OBVIOUS
<1>2. ASSUME NEW k \in DOMAIN s PROVE w[k] \in Nat
  <2>1. s[k] \in Item
    BY <1>1
  <2> QED
    BY <2>1 DEF Item
<1>3. IsFiniteSet(DOMAIN s)
  BY <1>1, FS_Interval
<1>4. Z!Total(s) = Sum(w, DOMAIN s)
  BY TotalIsSum
<1> HIDE DEF w
<1> QED
  BY <1>2, <1>3, <1>4, SumIsNatural

LEMMA TotalOfJoined ==
    ASSUME NEW s \in Seq(Item), NEW t \in Seq(Item)
    PROVE  s \o t \in Seq(Item) /\ Z!Total(s \o t) = Z!Total(s) + Z!Total(t)
<1> DEFINE both == s \o t
           n == Len(s)
           m == Len(t)
           w == [k \in DOMAIN both |-> both[k].tokens]
           v == [k \in DOMAIN s |-> s[k].tokens]
           u == [k \in DOMAIN t |-> t[k].tokens]
           after == [k \in 1 .. m |-> n + k]
           Front == 1 .. n
           Places == 1 .. m
           Back == {after[k] : k \in Places}
<1>1. /\ n \in Nat /\ m \in Nat /\ DOMAIN s = 1 .. n /\ DOMAIN t = 1 .. m
      /\ both \in Seq(Item) /\ DOMAIN both = 1 .. n + m
      /\ \A k \in 1 .. n : both[k] = s[k]
      /\ \A k \in 1 .. m : both[n + k] = t[k]
  OBVIOUS
<1>2. Front \union Back = 1 .. n + m /\ Front \intersect Back = {}
  <2>1. ASSUME NEW k \in 1 .. n + m, k \notin Front PROVE k \in Back
    <3>1. k - n \in 1 .. m /\ after[k - n] = k
      BY <1>1, <2>1
    <3> QED
      BY <3>1
  <2>2. \A k \in 1 .. m : after[k] \in 1 .. n + m /\ after[k] \notin Front
    BY <1>1
  <2>3. Front \subseteq 1 .. n + m
    BY <1>1
  <2> HIDE DEF Front, after
  <2> QED
    BY <2>1, <2>2, <2>3
<1>3. IsFiniteSet(Front) /\ IsFiniteSet(Back) /\ IsFiniteSet(Places)
  <2>1. n + m \in Int /\ IsFiniteSet(1 .. n + m)
    BY <1>1, FS_Interval
  <2>2. Back \subseteq 1 .. n + m
    BY <1>2
  <2> QED
    BY <1>1, <2>1, <2>2, FS_Interval, FS_Subset
<1>4. Terms(w, Front \union Back) /\ Terms(w, Front) /\ Terms(w, Back) /\ Terms(u, Places)
  <2>1. \A k \in 1 .. n + m : both[k] \in Item
    BY <1>1
  <2>2. \A k \in 1 .. n + m : w[k] \in Int
    BY <1>1, <2>1 DEF Item
  <2>3. \A k \in 1 .. m : t[k] \in Item
    BY <1>1
  <2>4. \A k \in 1 .. m : u[k] \in Int
    BY <1>1, <2>3 DEF Item
  <2> HIDE DEF w, u, Front, Back
  <2> QED
    BY <1>2, <2>2, <2>4 DEF Terms
<1>5. \A k \in Front : w[k] = v[k]
  BY <1>1
<1>6. \A k \in Places : u[k] = w[after[k]]
  BY <1>1
<1>7. after \in [Places -> Nat] /\ \A j, k \in Places : after[j] = after[k] => j = k
  BY <1>1
<1>8. Z!Total(both) = Sum(w, 1 .. n + m) /\ Z!Total(s) = Sum(v, Front) /\ Z!Total(t) = Sum(u, Places)
  BY <1>1, TotalIsSum
<1> HIDE DEF w, v, u, after, Front, Places, both, n, m
<1>9. Sum(w, Front) = Sum(v, Front)
  BY <1>3, <1>4, <1>5, SumOfSameTerms
<1>10. Sum(w, Back) = Sum(u, Places)
  <2>1. after \in [Places -> Back] /\ \A y \in Back : \E k \in Places : after[k] = y
    BY <1>7
  <2> HIDE DEF Back
  <2> QED
    <3>1. IsFiniteSet(Places) /\ Terms(w, Back)
      BY <1>3, <1>4
    <3>2. \A j, k \in Places : after[j] = after[k] => j = k
      BY <1>7
    <3> QED
      BY <1>6, <2>1, <3>1, <3>2, SumUnderOtherNames
<1> HIDE DEF Back
<1>11. Sum(w, Front \union Back) = Sum(w, Front) + Sum(w, Back)
  BY <1>2, <1>3, <1>4, SumOfUnion
<1>12. Sum(w, Front \union Back) = Sum(w, 1 .. n + m)
  BY <1>2
<1> QED
  BY <1>1, <1>8, <1>9, <1>10, <1>11, <1>12 DEF both

LEMMA TotalOfItems ==
    ASSUME NEW ts \in Seq(Nat), NEW P \in SUBSET (DOMAIN ts)
    PROVE  /\ IsFiniteSet(P) /\ P \subseteq Nat \ {0}
           /\ Z!Items(ts, P) \in Seq(Item) /\ Len(Z!Items(ts, P)) = Cardinality(P)
           /\ Z!Total(Z!Items(ts, P)) = Sum(ts, P)
<1> DEFINE s == Z!Items(ts, P)
           n == Cardinality(P)
           Places == 1 .. n
<1>1. IsFiniteSet(P) /\ P \subseteq Nat \ {0} /\ \A i \in P : ts[i] \in Nat
  <2>1. DOMAIN ts = 1 .. Len(ts) /\ Len(ts) \in Nat
    OBVIOUS
  <2>2. IsFiniteSet(1 .. Len(ts))
    BY <2>1, FS_Interval
  <2> QED
    BY <2>1, <2>2, FS_Subset
<1>2. n \in Nat
  BY <1>1, FS_CardinalityType
<1>3. PICK at : Order(at, P) /\ s = [k \in 1 .. n |-> Z!Message(ts, at[k])]
  <2>1. P \in SUBSET (Nat \ {0}) /\ IsFiniteSet(P)
    BY <1>1
  <2>2. \E at : Order(at, P) /\ Z!Items(ts, P) = [k \in 1 .. Cardinality(P) |-> Z!Message(ts, at[k])]
    BY <2>1, ItemsFacts
  <2> QED
    BY <2>2
<1>4. at \in [Places -> P] /\ \A j, k \in Places : at[j] = at[k] => j = k
  <2>1. at \in [Places -> P] /\ \A j, k \in Places : j < k => at[j] < at[k]
    BY <1>3 DEF Order
  <2>2. ASSUME NEW j \in Places, NEW k \in Places, j # k PROVE at[j] # at[k]
    <3>1. at[j] \in Nat /\ at[k] \in Nat
      BY <1>1, <2>1
    <3>2. j < k \/ k < j
      BY <1>2, <2>2
    <3> QED
      BY <2>1, <3>1, <3>2
  <2> QED
    BY <2>1, <2>2
<1>5. \A i \in P : \E k \in Places : at[k] = i
  BY <1>3, <1>4 DEF Order
<1>6. \A k \in Places : s[k] = [position |-> at[k], tokens |-> ts[at[k]]] /\ s[k] \in Item
  <2>1. \A k \in Places : s[k] = [position |-> at[k], tokens |-> ts[at[k]]]
    BY <1>3 DEF Z!Message
  <2>2. \A k \in Places : at[k] \in Nat /\ ts[at[k]] \in Nat
    BY <1>1, <1>4
  <2> HIDE DEF s, n, Places
  <2>3. \A i, x \in Nat : [position |-> i, tokens |-> x] \in Item
    BY DEF Item
  <2> QED
    BY <2>1, <2>2, <2>3
<1>7. s \in Seq(Item) /\ Len(s) = n /\ DOMAIN s = Places
  <2>1. s \in [Places -> Item]
    BY <1>3, <1>6
  <2> HIDE DEF s, n
  <2> QED
    BY <1>2, <2>1
<1> DEFINE w == [k \in DOMAIN s |-> s[k].tokens]
<1>8. \A k \in Places : w[k] = ts[at[k]]
  BY <1>6, <1>7
<1>9. Terms(ts, P) /\ IsFiniteSet(Places)
  BY <1>1, <1>2, FS_Interval DEF Terms
<1>10. Z!Total(s) = Sum(w, Places)
  BY <1>7, TotalIsSum
<1> HIDE DEF w, s, n, Places
<1>11. Sum(ts, P) = Sum(w, Places)
  <2>1. at \in [Places -> P] /\ \A j, k \in Places : at[j] = at[k] => j = k
    BY <1>4
  <2>2. \A k \in Places : w[k] = ts[at[k]]
    BY <1>8
  <2> QED
    BY <1>1, <1>5, <1>9, <2>1, <2>2, SumUnderOtherNames
<1> QED
  BY <1>1, <1>7, <1>10, <1>11 DEF s, n

LEMMA TotalOfSummary ==
    ASSUME NEW n \in Nat
    PROVE  <<Z!Summary(n)>> \in Seq(Item) /\ Z!Total(<<Z!Summary(n)>>) = n
<1> DEFINE s == <<Z!Summary(n)>>
           w == [k \in DOMAIN s |-> s[k].tokens]
<1>1. Z!Summary(n) \in Item /\ Z!Summary(n).tokens = n
  BY DEF Item, Z!Summary
<1>2. s \in Seq(Item) /\ DOMAIN s = {1} /\ s[1] = Z!Summary(n)
  BY <1>1
<1>3. w[1] = n
  BY <1>1, <1>2
<1>4. Z!Total(s) = Sum(w, {1})
  BY <1>2, TotalIsSum
<1> HIDE DEF w, s
<1>5. Terms(w, {1}) /\ IsFiniteSet({1}) /\ {1} \ {1} = {}
  <2>1. \A x \in {1} : w[x] \in Int
    BY <1>3
  <2> QED
    BY <2>1, FS_Singleton DEF Terms
<1>6. Sum(w, {1}) = w[1] + Sum(w, {}) /\ Sum(w, {}) = 0
  BY <1>5, SumFacts
<1> QED
  BY <1>2, <1>3, <1>4, <1>6 DEF s

-------------------------------------------------------------------------------
\* What the messages from each position on reserve, by the code's loop.
Reserves(G, ts) ==
    /\ DOMAIN G = 1 .. Len(ts) + 1 /\ G[Len(ts) + 1] = 0
    /\ \A i \in 1 .. Len(ts) :
          G[i] = IF G[i + 1] + ts[i] <= Spare THEN G[i + 1] + ts[i] ELSE G[i + 1]
    /\ \A i \in 1 .. Len(ts) + 1 : G[i] \in 0 .. Spare

LEMMA SafeFacts ==
    ASSUME NEW ts \in Seq(Nat)
    PROVE  Reserves(Z!Safe(ts), ts)
<1> DEFINE past == Len(ts) + 1
           Chosen(G, i) == IF G[i + 1] + ts[i] <= Spare THEN G[i + 1] + ts[i] ELSE G[i + 1]
           IsIt(G) == G = [i \in 1 .. Len(ts) + 1 |->
                             IF i > Len(ts) THEN 0
                             ELSE IF G[i + 1] + ts[i] <= Spare THEN G[i + 1] + ts[i] ELSE G[i + 1]]
           From(n) == past - n .. past
           UpTo(G, n) == G = [i \in From(n) |-> IF i > Len(ts) THEN 0 ELSE Chosen(G, i)]
           Levels == {n \in Nat : n <= Len(ts) => \E G : UpTo(G, n)}
           H == CHOOSE G : IsIt(G)
<1>1. past \in Nat /\ Len(ts) \in Nat /\ Spare \in Nat /\ \A i \in 1 .. Len(ts) : ts[i] \in Nat
  BY CompressorSizes
<1>2. 0 \in Levels
  <2> DEFINE G == [i \in From(0) |-> 0]
  <2>1. \A i \in From(0) : i > Len(ts)
    BY <1>1
  <2>2. UpTo(G, 0)
    BY <2>1
  <2> QED
    BY <2>2
<1>3. ASSUME NEW n \in Levels PROVE n + 1 \in Levels
  <2> SUFFICES ASSUME n + 1 <= Len(ts) PROVE \E G : UpTo(G, n + 1)
    OBVIOUS
  <2>1. n \in Nat /\ n <= Len(ts)
    BY <1>1
  <2>2. PICK G : UpTo(G, n)
    BY <2>1
  <2> DEFINE K == [i \in From(n + 1) |-> IF i > Len(ts) THEN 0 ELSE Chosen(G, i)]
  <2>3. ASSUME NEW i \in From(n) PROVE K[i] = G[i]
    <3>1. i \in From(n + 1)
      BY <1>1, <2>1
    <3> QED
      BY <2>2, <3>1
  <2>4. ASSUME NEW i \in From(n + 1), ~(i > Len(ts)) PROVE Chosen(K, i) = Chosen(G, i)
    <3>1. i + 1 \in From(n)
      BY <1>1, <2>1, <2>4
    <3>2. K[i + 1] = G[i + 1]
      BY <2>3, <3>1
    <3> HIDE DEF K
    <3> QED
      BY <3>2
  <2>5. UpTo(K, n + 1)
    <3> HIDE DEF Chosen
    <3> QED
      BY <2>4
  <2> QED
    BY <2>5
<1>4. Nat \subseteq Levels
  <2> HIDE DEF Levels
  <2> QED
    BY <1>2, <1>3, CountingInduction
<1>5. \E G : IsIt(G)
  <2>1. Len(ts) \in Levels
    BY <1>1, <1>4
  <2>2. PICK G : UpTo(G, Len(ts))
    BY <1>1, <2>1
  <2>3. From(Len(ts)) = 1 .. Len(ts) + 1
    BY <1>1
  <2>4. IsIt(G)
    BY <2>2, <2>3
  <2> QED
    BY <2>4
<1>6. IsIt(H)
  <2> HIDE DEF IsIt
  <2> QED
    BY <1>5
<1>7. Z!Safe(ts) = H
  BY DEF Z!Safe
<1> HIDE DEF H
<1>8. /\ DOMAIN H = 1 .. Len(ts) + 1 /\ H[Len(ts) + 1] = 0
      /\ \A i \in 1 .. Len(ts) : H[i] = Chosen(H, i)
  <2>1. H = [i \in 1 .. Len(ts) + 1 |-> IF i > Len(ts) THEN 0 ELSE Chosen(H, i)]
    BY <1>6
  <2> HIDE DEF Chosen, IsIt
  <2>2. DOMAIN H = 1 .. Len(ts) + 1
    BY <2>1
  <2>3. \A i \in 1 .. Len(ts) + 1 : H[i] = IF i > Len(ts) THEN 0 ELSE Chosen(H, i)
    BY <2>1
  <2>4. /\ Len(ts) + 1 \in 1 .. Len(ts) + 1 /\ Len(ts) + 1 > Len(ts)
        /\ \A i \in 1 .. Len(ts) : i \in 1 .. Len(ts) + 1 /\ ~(i > Len(ts))
    BY <1>1
  <2> QED
    BY <2>2, <2>3, <2>4
<1> DEFINE Bounded == {n \in Nat : n <= Len(ts) => H[past - n] \in 0 .. Spare}
<1> HIDE DEF IsIt
<1>9. 0 \in Bounded
  BY <1>1, <1>8
<1>10. ASSUME NEW n \in Bounded PROVE n + 1 \in Bounded
  <2> SUFFICES ASSUME n + 1 <= Len(ts) PROVE H[past - (n + 1)] \in 0 .. Spare
    OBVIOUS
  <2>1. n \in Nat /\ H[past - n] \in 0 .. Spare
    BY <1>1
  <2> DEFINE i == past - (n + 1)
  <2>2. i \in 1 .. Len(ts) /\ i + 1 = past - n
    BY <1>1, <2>1
  <2> HIDE DEF i
  <2>3. H[i] = Chosen(H, i) /\ ts[i] \in Nat /\ H[i + 1] \in 0 .. Spare
    BY <1>1, <1>8, <2>1, <2>2
  <2>4. H[i] \in 0 .. Spare
    BY <1>1, <2>3
  <2> QED
    BY <2>4 DEF i
<1>11. Nat \subseteq Bounded
  <2> HIDE DEF Bounded
  <2> QED
    BY <1>9, <1>10, CountingInduction
<1>12. ASSUME NEW i \in 1 .. Len(ts) + 1 PROVE H[i] \in 0 .. Spare
  <2>1. past - i \in Bounded /\ past - i <= Len(ts) /\ past - (past - i) = i
    BY <1>1, <1>11
  <2> QED
    BY <2>1
<1> QED
  BY <1>7, <1>8, <1>12 DEF Reserves

LEMMA ProtectedSum ==
    ASSUME NEW ts \in Seq(Nat)
    PROVE  Sum(ts, Z!Protected(ts)) = Z!Safe(ts)[1]
<1> DEFINE G == Z!Safe(ts)
           P == Z!Protected(ts)
           past == Len(ts) + 1
           Part(i) == {j \in P : j >= i}
           Levels == {n \in Nat : n <= Len(ts) => Sum(ts, Part(past - n)) = G[past - n]}
<1>1. Reserves(G, ts)
  BY SafeFacts
<1> HIDE DEF G
<1>2. /\ Len(ts) \in Nat /\ past \in Nat /\ DOMAIN ts = 1 .. Len(ts) /\ \A i \in 1 .. Len(ts) : ts[i] \in Nat
      /\ P = {i \in DOMAIN ts : G[i + 1] + ts[i] <= Spare}
  BY DEF Z!Protected, G
<1> HIDE DEF P
<1>3. IsFiniteSet(P) /\ \A T \in SUBSET P : IsFiniteSet(T) /\ Terms(ts, T)
  <2>1. IsFiniteSet(1 .. Len(ts)) /\ P \subseteq 1 .. Len(ts)
    BY <1>2, FS_Interval
  <2>2. \A T \in SUBSET P : Terms(ts, T)
    BY <1>2, <2>1 DEF Terms
  <2> QED
    BY <2>1, <2>2, FS_Subset
<1>4. 0 \in Levels
  <2>1. Part(past) = {}
    BY <1>2
  <2>2. Sum(ts, {}) = 0
    BY <1>3, SumFacts
  <2>3. past - 0 = past /\ G[past] = 0
    BY <1>1, <1>2 DEF Reserves
  <2> HIDE DEF Part, past
  <2> QED
    BY <2>1, <2>2, <2>3
<1>5. ASSUME NEW n \in Levels PROVE n + 1 \in Levels
  <2> SUFFICES ASSUME n + 1 <= Len(ts) PROVE Sum(ts, Part(past - (n + 1))) = G[past - (n + 1)]
    OBVIOUS
  <2> DEFINE i == past - (n + 1)
  <2>1. n \in Nat /\ n <= Len(ts) /\ i \in 1 .. Len(ts) /\ i + 1 = past - n
    BY <1>2
  <2>2. Sum(ts, Part(i + 1)) = G[i + 1]
    BY <2>1
  <2> HIDE DEF i
  <2>3. G[i] = IF G[i + 1] + ts[i] <= Spare THEN G[i + 1] + ts[i] ELSE G[i + 1]
    BY <1>1, <2>1 DEF Reserves
  <2>4. ts[i] \in Nat /\ G[i + 1] \in Int
    <3>1. i + 1 \in 1 .. Len(ts) + 1
      BY <1>2, <2>1
    <3> QED
      BY <1>1, <1>2, <2>1, <3>1 DEF Reserves
  <2>5. CASE i \in P
    <3>1. Part(i) = Part(i + 1) \union {i} /\ i \notin Part(i + 1)
      BY <1>2, <2>1, <2>5
    <3>2. G[i] = G[i + 1] + ts[i]
      BY <1>2, <2>3, <2>5
    <3>3. Part(i + 1) \in SUBSET P /\ Part(i + 1) \union {i} \in SUBSET P
      BY <2>5
    <3> HIDE DEF Part
    <3>4. Sum(ts, Part(i + 1) \union {i}) = ts[i] + Sum(ts, Part(i + 1))
      BY <1>3, <3>1, <3>3, SumWithOneMore
    <3>5. Sum(ts, Part(i)) = G[i]
      BY <2>2, <2>4, <3>1, <3>2, <3>4
    <3> QED
      BY <3>5 DEF i
  <2>6. CASE i \notin P
    <3>1. Part(i) = Part(i + 1)
      BY <1>2, <2>1, <2>6
    <3>2. G[i] = G[i + 1]
      BY <1>2, <2>1, <2>3, <2>6
    <3> HIDE DEF Part
    <3>3. Sum(ts, Part(i)) = G[i]
      BY <2>2, <3>1, <3>2
    <3> QED
      BY <3>3 DEF i
  <2> QED
    BY <2>5, <2>6
<1>6. Nat \subseteq Levels
  <2> HIDE DEF Levels
  <2> QED
    BY <1>4, <1>5, CountingInduction
<1>7. Sum(ts, Part(1)) = G[1]
  <2>1. Len(ts) \in Levels /\ past - Len(ts) = 1
    BY <1>2, <1>6
  <2> QED
    BY <2>1
<1>8. Part(1) = P
  BY <1>2
<1> QED
  BY <1>7, <1>8 DEF G, P

\* What is kept of the rest fits what is left.
LEMMA RollingFits ==
    ASSUME NEW ts \in Seq(Nat)
    PROVE  /\ Z!Budget(ts) \in Nat /\ MaxTokens = Z!Budget(ts) + Sum(ts, Z!Protected(ts))
           /\ Z!Rolling(ts) \in SUBSET (DOMAIN ts) /\ Z!Protected(ts) \in SUBSET (DOMAIN ts)
           /\ Z!Rolling(ts) \intersect Z!Protected(ts) = {}
           /\ Sum(ts, Z!Rolling(ts)) <= Z!Budget(ts)
           /\ Sum(ts, Z!Rolling(ts)) \in Nat /\ Sum(ts, Z!Protected(ts)) \in Nat
<1> DEFINE K == Z!Rolling(ts)
           P == Z!Protected(ts)
           Fits == Z!Budget(ts)
<1>1. K \in SUBSET (DOMAIN ts) /\ P \in SUBSET (DOMAIN ts) /\ K \intersect P = {}
  BY DEF Z!Rolling, Z!Protected, Z!Compressible
<1>2. Fits \in Nat /\ MaxTokens = Fits + Sum(ts, P)
  <2>1. Z!Safe(ts)[1] \in 0 .. Spare
    <3>1. Reserves(Z!Safe(ts), ts) /\ 1 \in 1 .. Len(ts) + 1
      BY SafeFacts
    <3> QED
      BY <3>1 DEF Reserves
  <2>2. Fits = MaxTokens - Z!Safe(ts)[1] /\ Sum(ts, P) = Z!Safe(ts)[1]
    BY ProtectedSum DEF Z!Budget
  <2> HIDE DEF Fits, P
  <2> QED
    BY <2>1, <2>2, CompressorSizes
<1>3. ASSUME NEW T \in SUBSET (DOMAIN ts)
      PROVE  IsFiniteSet(T) /\ (\A i \in T : ts[i] \in Nat) /\ Sum(ts, T) \in Nat
  <2>1. IsFiniteSet(T) /\ \A i \in T : ts[i] \in Nat
    BY TotalOfItems
  <2> QED
    BY <2>1, SumIsNatural
<1>4. Sum(ts, K) <= Fits
  <2>1. CASE K = {}
    <3>1. Sum(ts, {}) = 0
      <4>1. IsFiniteSet({}) /\ Terms(ts, {})
        BY FS_EmptySet DEF Terms
      <4> QED
        BY <4>1, SumFacts
    <3> HIDE DEF K, Fits
    <3> QED
      BY <1>2, <2>1, <3>1
  <2>2. CASE K # {}
    <3>1. K \in SUBSET Nat
      BY <1>1
    <3>2. PICK m \in K : \A k \in K : m <= k
      <4> HIDE DEF K
      <4> QED
        BY <2>2, <3>1, LeastNatural
    <3> DEFINE Newer == Z!Since(ts, m)
    <3>3. K \in SUBSET Newer /\ Newer \in SUBSET (DOMAIN ts)
      BY <3>2 DEF Z!Rolling, Z!Since, Z!Compressible
    <3>4. Z!Total(Z!Items(ts, Newer)) <= Fits
      BY <3>2 DEF Z!Rolling
    <3> HIDE DEF Newer, K, Fits
    <3>5. Z!Total(Z!Items(ts, Newer)) = Sum(ts, Newer)
      BY <3>3, TotalOfItems
    <3>6. Sum(ts, K) <= Sum(ts, Newer) /\ Sum(ts, K) \in Nat /\ Sum(ts, Newer) \in Nat
      BY <1>3, <3>3, SumGrows
    <3> QED
      BY <1>2, <3>4, <3>5, <3>6
  <2> QED
    BY <2>1, <2>2
<1>5. Sum(ts, K) \in Nat /\ Sum(ts, P) \in Nat
  BY <1>1, <1>3
<1> QED
  BY <1>1, <1>2, <1>4, <1>5

\* What the property says of a context made of messages of ts.
Ordered(s) == \A j, k \in DOMAIN s : j < k => s[j].position < s[k].position
Distinct(s) == \A j, k \in DOMAIN s : j # k => s[j].position # s[k].position
At(s, P) == \A k \in DOMAIN s : s[k].position \in P

LEMMA PositionsOfItems ==
    ASSUME NEW ts \in Seq(Nat), NEW P \in SUBSET (DOMAIN ts)
    PROVE  LET s == Z!Items(ts, P)
           IN  /\ Ordered(s) /\ Distinct(s) /\ At(s, P) /\ DOMAIN s = 1 .. Cardinality(P)
               /\ Cardinality(P) \in Nat
               /\ \A i \in P : (\A j \in P : j <= i) =>
                     Cardinality(P) # 0 /\ s[Cardinality(P)] = Z!Message(ts, i)
<1> DEFINE s == Z!Items(ts, P)
           n == Cardinality(P)
           Places == 1 .. n
<1>1. IsFiniteSet(P) /\ P \subseteq Nat \ {0}
  BY TotalOfItems
<1>2. n \in Nat
  BY <1>1, FS_CardinalityType
<1>3. PICK at : Order(at, P) /\ s = [k \in 1 .. n |-> Z!Message(ts, at[k])]
  <2>1. P \in SUBSET (Nat \ {0}) /\ IsFiniteSet(P)
    BY <1>1
  <2>2. \E at : Order(at, P) /\ Z!Items(ts, P) = [k \in 1 .. Cardinality(P) |-> Z!Message(ts, at[k])]
    BY <2>1, ItemsFacts
  <2> QED
    BY <2>2
<1>4. /\ at \in [1 .. n -> P] /\ \A j, k \in 1 .. n : j < k => at[j] < at[k]
      /\ \A i \in P : \E k \in 1 .. n : at[k] = i
  BY <1>3 DEF Order
<1>5. DOMAIN s = 1 .. n /\ \A k \in 1 .. n : s[k] = Z!Message(ts, at[k]) /\ s[k].position = at[k]
  BY <1>3 DEF Z!Message
<1> HIDE DEF s, n
<1>6. ASSUME NEW j \in 1 .. n, NEW k \in 1 .. n, j # k PROVE at[j] # at[k]
  <2>1. at[j] \in Nat /\ at[k] \in Nat
    BY <1>1, <1>4
  <2>2. j < k \/ k < j
    BY <1>2, <1>6
  <2> QED
    BY <1>4, <2>1, <2>2
<1>7. ASSUME NEW i \in P, \A j \in P : j <= i PROVE n # 0 /\ s[n] = Z!Message(ts, i)
  <2>1. PICK k \in 1 .. n : at[k] = i
    BY <1>4
  <2>2. n \in 1 .. n /\ n # 0
    BY <1>2, <2>1
  <2>3. k = n
    <3>1. CASE k < n
      <4>1. at[k] < at[n] /\ at[n] \in P /\ at[n] <= i
        BY <1>4, <1>7, <2>2, <3>1
      <4>2. at[n] \in Nat /\ i \in Nat
        BY <1>1, <4>1
      <4> QED
        BY <2>1, <4>1, <4>2
    <3> QED
      BY <1>2, <3>1
  <2> QED
    BY <1>5, <2>1, <2>2, <2>3
<1>8. Ordered(s) /\ Distinct(s) /\ At(s, P)
  BY <1>4, <1>5, <1>6 DEF Ordered, Distinct, At
<1> QED
  BY <1>2, <1>5, <1>7, <1>8 DEF s, n

LEMMA PositionsOfJoined ==
    ASSUME NEW s \in Seq(Item), NEW t \in Seq(Item), NEW A, NEW T, A \intersect T = {},
           Ordered(s), Ordered(t), Distinct(s), Distinct(t), At(s, A), At(t, T)
    PROVE  /\ Distinct(s \o t)
           /\ Ordered(s \o t) \/ \E i \in A, j \in T : j < i
           /\ t # <<>> => (s \o t)[Len(s \o t)] = t[Len(t)]
<1> DEFINE both == s \o t
           n == Len(s)
           m == Len(t)
<1>1. /\ n \in Nat /\ m \in Nat /\ DOMAIN s = 1 .. n /\ DOMAIN t = 1 .. m
      /\ DOMAIN both = 1 .. n + m
      /\ \A k \in 1 .. n : both[k] = s[k] /\ s[k] \in Item
      /\ \A k \in 1 .. m : both[n + k] = t[k] /\ t[k] \in Item
      /\ Len(both) = n + m /\ (t # <<>> => m # 0)
  OBVIOUS
<1> HIDE DEF both, n, m
<1>2. \A k \in 1 .. n + m : k \in 1 .. n \/ \E x \in 1 .. m : k = n + x
  <2>1. ASSUME NEW k \in 1 .. n + m, k \notin 1 .. n PROVE \E x \in 1 .. m : k = n + x
    <3>1. k - n \in 1 .. m /\ k = n + (k - n)
      BY <1>1, <2>1
    <3> QED
      BY <3>1
  <2> QED
    BY <2>1
<1>3. /\ \A j \in 1 .. n : s[j].position \in A /\ s[j].position \in Nat
      /\ \A j \in 1 .. m : t[j].position \in T /\ t[j].position \in Nat
  BY <1>1 DEF At, Item
<1>4. ASSUME NEW j \in 1 .. n, NEW k \in 1 .. m PROVE s[j].position # t[k].position
  BY <1>3
<1>5. Distinct(both)
  <2> SUFFICES ASSUME NEW j \in 1 .. n + m, NEW k \in 1 .. n + m, j # k
               PROVE  both[j].position # both[k].position
    BY <1>1 DEF Distinct
  <2>1. CASE j \in 1 .. n /\ k \in 1 .. n
    BY <1>1, <2>1 DEF Distinct
  <2>2. ASSUME NEW x \in 1 .. m, k = n + x, j \in 1 .. n PROVE both[j].position # both[k].position
    BY <1>1, <1>4, <2>2
  <2>3. ASSUME NEW x \in 1 .. m, j = n + x, k \in 1 .. n PROVE both[j].position # both[k].position
    BY <1>1, <1>4, <2>3
  <2>4. ASSUME NEW x \in 1 .. m, NEW y \in 1 .. m, j = n + x, k = n + y
        PROVE  both[j].position # both[k].position
    <3>1. x # y /\ both[j] = t[x] /\ both[k] = t[y] /\ x \in DOMAIN t /\ y \in DOMAIN t
      BY <1>1, <2>4
    <3> QED
      BY <3>1 DEF Distinct
  <2> QED
    BY <1>2, <2>1, <2>2, <2>3, <2>4
<1>6. ASSUME \A i \in A, j \in T : ~(j < i) PROVE Ordered(both)
  <2> SUFFICES ASSUME NEW j \in 1 .. n + m, NEW k \in 1 .. n + m, j < k
               PROVE  both[j].position < both[k].position
    BY <1>1 DEF Ordered
  <2>1. CASE j \in 1 .. n /\ k \in 1 .. n
    BY <1>1, <2>1 DEF Ordered
  <2>2. ASSUME NEW x \in 1 .. m, k = n + x, j \in 1 .. n PROVE both[j].position < both[k].position
    <3>1. s[j].position # t[x].position /\ ~(t[x].position < s[j].position)
      BY <1>3, <1>4, <1>6, <2>2
    <3>2. s[j].position < t[x].position
      BY <1>3, <2>2, <3>1
    <3> QED
      BY <1>1, <2>2, <3>2
  <2>3. ASSUME NEW x \in 1 .. m, NEW y \in 1 .. m, j = n + x, k = n + y
        PROVE  both[j].position < both[k].position
    <3>1. x < y
      BY <1>1, <2>3
    <3> QED
      BY <1>1, <2>3, <3>1 DEF Ordered
  <2>4. ASSUME NEW x \in 1 .. m, j = n + x PROVE k \notin 1 .. n
    BY <1>1, <2>4
  <2> QED
    BY <1>2, <2>1, <2>2, <2>3, <2>4
<1>7. t # <<>> => both[Len(both)] = t[m]
  <2>1. m # 0 => m \in 1 .. m
    BY <1>1
  <2> QED
    BY <1>1, <2>1
<1> QED
  BY <1>5, <1>6, <1>7 DEF both, m

Fit(s, ts) ==
    /\ Z!Total(s) <= MaxTokens /\ Distinct(s)
    /\ ts[Len(ts)] <= Spare => s[Len(s)] = Z!Message(ts, Len(ts))
    /\ Ordered(s) \/ \E i \in Z!Protected(ts), j \in Z!Compressible(ts) : i < j

\* The protected messages are the end of what comes before them.
LEMMA EndsInTheProtected ==
    ASSUME NEW ts \in Seq(Nat), ts # <<>>, NEW s \in Seq(Item), NEW A,
           Ordered(s), Distinct(s), At(s, A), A \intersect Z!Protected(ts) = {},
           \A i \in A, j \in Z!Protected(ts) : j < i => i \in Z!Compressible(ts),
           Z!Total(s) <= Z!Budget(ts)
    PROVE  Fit(s \o Z!Items(ts, Z!Protected(ts)), ts)
<1> DEFINE P == Z!Protected(ts)
           t == Z!Items(ts, P)
           n == Len(ts)
<1>1. /\ P \in SUBSET (DOMAIN ts) /\ Z!Budget(ts) \in Nat
      /\ MaxTokens = Z!Budget(ts) + Sum(ts, P) /\ Sum(ts, P) \in Nat
  BY RollingFits
<1>2. n \in DOMAIN ts /\ n \in Nat /\ \A j \in DOMAIN ts : j <= n
  OBVIOUS
<1>3. P = {i \in DOMAIN ts : Z!Safe(ts)[i + 1] + ts[i] <= Spare} /\ Z!Safe(ts)[n + 1] = 0 /\ ts[n] \in Nat
  BY <1>2, SafeFacts DEF Z!Protected, Reserves
<1>4. ts[n] <= Spare => n \in P /\ \A j \in P : j <= n
  BY <1>2, <1>3
<1> HIDE DEF P
<1>5. t \in Seq(Item) /\ Len(t) = Cardinality(P) /\ Z!Total(t) = Sum(ts, P)
  BY <1>1, TotalOfItems
<1>6. /\ Ordered(t) /\ Distinct(t) /\ At(t, P) /\ Cardinality(P) \in Nat
      /\ n \in P /\ (\A j \in P : j <= n) => Cardinality(P) # 0 /\ t[Cardinality(P)] = Z!Message(ts, n)
  BY <1>1, PositionsOfItems
<1> HIDE DEF t, n
<1>7. Z!Total(s \o t) = Z!Total(s) + Z!Total(t) /\ Z!Total(s) \in Nat
  BY <1>5, TotalOfJoined, TotalIsNatural
<1>8. A \intersect P = {}
  BY DEF P
<1>9. /\ Distinct(s \o t)
      /\ Ordered(s \o t) \/ \E i \in A, j \in P : j < i
      /\ t # <<>> => (s \o t)[Len(s \o t)] = t[Len(t)]
  BY <1>5, <1>6, <1>8, PositionsOfJoined
<1>10. Z!Total(s \o t) <= MaxTokens
  BY <1>1, <1>5, <1>7
<1>11. ts[n] <= Spare => (s \o t)[Len(s \o t)] = Z!Message(ts, n)
  <2>1. Cardinality(P) # 0 => t # <<>>
    BY <1>5
  <2> QED
    BY <1>4, <1>5, <1>6, <1>9, <2>1
<1>12. Ordered(s \o t) \/ \E i \in P, j \in Z!Compressible(ts) : i < j
  BY <1>9 DEF P
<1> QED
  BY <1>9, <1>10, <1>11, <1>12 DEF Fit, P, t, n

LEMMA CompressedFits ==
    ASSUME NEW ts \in Seq(Nat), ts # <<>>, NEW gateway, NEW s \in Z!Compressed(ts, gateway)
    PROVE  Fit(s, ts)
<1> DEFINE protected == Z!Items(ts, Z!Protected(ts))
           recent == Z!Items(ts, Z!Rolling(ts))
           all == Z!Items(ts, DOMAIN ts)
<1>1. Fit(recent \o protected, ts)
  <2>1. /\ Z!Rolling(ts) \in SUBSET (DOMAIN ts) /\ Z!Rolling(ts) \intersect Z!Protected(ts) = {}
        /\ Sum(ts, Z!Rolling(ts)) <= Z!Budget(ts)
    BY RollingFits
  <2>2. recent \in Seq(Item) /\ Z!Total(recent) = Sum(ts, Z!Rolling(ts))
    BY <2>1, TotalOfItems
  <2>3. Ordered(recent) /\ Distinct(recent) /\ At(recent, Z!Rolling(ts))
    BY <2>1, PositionsOfItems
  <2>4. \A i \in Z!Rolling(ts) : i \in Z!Compressible(ts)
    BY DEF Z!Rolling
  <2> HIDE DEF recent
  <2> QED
    BY <2>1, <2>2, <2>3, <2>4, EndsInTheProtected
<1>2. ASSUME NEW n \in 0 .. Largest, n <= Z!Budget(ts) PROVE Fit(<<Z!Summary(n)>> \o protected, ts)
  <2> DEFINE one == <<Z!Summary(n)>>
  <2>0. n \in Nat
    BY CompressorSizes
  <2>1. one \in Seq(Item) /\ Z!Total(one) = n
    BY <2>0, TotalOfSummary
  <2>2. Ordered(one) /\ Distinct(one) /\ At(one, {0})
    BY DEF Ordered, Distinct, At, Z!Summary
  <2>3. {0} \intersect Z!Protected(ts) = {} /\ \A j \in Z!Protected(ts) : ~(j < 0)
    BY DEF Z!Protected
  <2> HIDE DEF one
  <2>4. \A i \in {0}, j \in Z!Protected(ts) : j < i => i \in Z!Compressible(ts)
    BY <2>3
  <2>5. Z!Total(one) <= Z!Budget(ts)
    BY <1>2, <2>1
  <2>6. Fit(one \o protected, ts)
    BY <2>1, <2>2, <2>3, <2>4, <2>5, EndsInTheProtected
  <2> QED
    BY <2>6 DEF one
<1>3. ASSUME Z!Total(all) <= MaxTokens PROVE Fit(all, ts)
  <2>1. all \in Seq(Item) /\ Len(all) = Cardinality(DOMAIN ts)
    BY TotalOfItems
  <2>2. Len(ts) \in DOMAIN ts /\ \A j \in DOMAIN ts : j <= Len(ts)
    OBVIOUS
  <2>3. Ordered(all) /\ Distinct(all) /\ all[Cardinality(DOMAIN ts)] = Z!Message(ts, Len(ts))
    BY <2>2, PositionsOfItems
  <2> HIDE DEF all
  <2> QED
    BY <1>3, <2>1, <2>3 DEF Fit
<1>4. \/ s = all /\ Z!Total(all) <= MaxTokens
      \/ s = recent \o protected
      \/ \E n \in 0 .. Largest : n <= Z!Budget(ts) /\ s = <<Z!Summary(n)>> \o protected
  BY DEF Z!Compressed
<1> HIDE DEF all, recent, protected
<1> QED
  BY <1>1, <1>2, <1>3, <1>4

-------------------------------------------------------------------------------
(* A context that is done is one of those the strategies come to.          *)
ZInv ==
    /\ tokens \in Seq(Nat)
    /\ compression \in {"compress", "done"} => tokens # <<>>
    /\ compression = "done" => context \in Z!Compressed(tokens, summarizes)

LEMMA CompressorInit == Z!Init => ZInv
<1> SUFFICES ASSUME Z!Init PROVE ZInv
  OBVIOUS
<1>1. PICK n \in 0 .. Longest : tokens \in [1 .. n -> 0 .. Largest]
  BY DEF Z!Init
<1>2. tokens \in Seq(Nat)
  <2>1. n \in Nat /\ 0 .. Largest \subseteq Nat
    BY CompressorSizes
  <2>2. tokens \in [1 .. n -> Nat]
    BY <1>1, <2>1
  <2> QED
    BY <2>1, <2>2
<1> QED
  BY <1>2 DEF Z!Init, ZInv

LEMMA CompressorNext == ZInv /\ [Z!Next]_Z!vars => ZInv'
<1> SUFFICES ASSUME ZInv, [Z!Next]_Z!vars PROVE ZInv'
  OBVIOUS
<1>1. CASE UNCHANGED Z!vars
  BY <1>1 DEF Z!vars, ZInv, Z!Compressed
<1>2. CASE Z!Load
  BY <1>2 DEF Z!Load, ZInv
<1>3. CASE Z!Compress
  BY <1>3 DEF Z!Compress, ZInv
<1> QED
  BY <1>1, <1>2, <1>3 DEF Z!Next

LEMMA ServicesAreCompressor == ServicesSpec => Z!Spec
<1>1. ServicesInit => Z!Init
  BY DEF ServicesInit
<1>2. [ServicesNext]_allVars => [Z!Next]_Z!vars
  <2>1. CASE UNCHANGED allVars
    BY <2>1 DEF allVars, compressorVars, Z!vars
  <2>2. CASE ServicesNext
    BY <2>2 DEF ServicesNext, OnlyOf, compressorVars, Z!vars
  <2> QED
    BY <2>1, <2>2
<1> QED
  BY <1>1, <1>2, PTL DEF ServicesSpec, Z!Spec

(* The context fits whatever the sizes, says nothing twice, ends with the  *)
(* newest message unless it alone exceeds the reserve, and is out of order *)
(* only when a message was protected behind one that was not               *)
(* (session_history/compressor.py).                                        *)
THEOREM AnyContextFits == ServicesSpec => []ContextFits
<1>1. ZInv => ContextFits
  <2> SUFFICES ASSUME ZInv, compression = "done" PROVE ContextFits
    BY DEF ContextFits, Z!ContextFits
  <2>1. Fit(context, tokens)
    BY CompressedFits DEF ZInv
  <2> QED
    BY <2>1 DEF ContextFits, Z!ContextFits, Fit, Ordered, Distinct
<1>2. ZInv /\ [Z!Next]_Z!vars => ZInv'
  BY CompressorNext
<1> QED
  BY <1>1, <1>2, CompressorInit, ServicesAreCompressor, PTL DEF Z!Spec

-------------------------------------------------------------------------------
(* Model routing. *)
\* What a request on a task does to the routing of that task and of the tasks
\* that follow it.
PutEffect ==
    \A task \in TaskNames : puts' # puts /\ put'.task = task /\ Normal[task] = task =>
          /\ \A f \in {"provider", "model", "fallbacks"} :
                M!Routed(task)'[f] = IF f \in DOMAIN put'.fields THEN put'.fields[f]
                                                                 ELSE M!Routed(task)[f]
          /\ \A t \in TaskNames : Layer[t] = task /\ Normal[t] \notin DOMAIN runtime' =>
                M!Routed(t)' = M!Routed(task)'

\* Nothing that a request stores or the code has is empty.
LEMMA RoutedFields ==
    ASSUME NEW task \in TaskNames
    PROVE  /\ M!DefaultRule(task).provider \in Providers /\ M!DefaultRule(task).model \in ModelNames
           /\ M!Routed(task).provider # "" /\ M!Routed(task).model # ""
           /\ DOMAIN M!Routed(task) = {"provider", "model", "fallbacks"}
<1>1. M!DefaultRule(task) \in [provider : Providers, model : ModelNames, fallbacks : Chains]
  BY RoutingBounds DEF M!RoutingAssumption, M!DefaultRule
<1>2. "" \notin Providers /\ "" \notin ModelNames
  BY RoutingBounds DEF M!RoutingAssumption
<1> QED
  BY <1>1, <1>2 DEF M!Routed, M!Resolve, M!Or

LEMMA PutRoutingEffect ==
    ASSUME NEW name \in TaskNames, NEW fields, DOMAIN fields \subseteq {"provider", "model", "fallbacks"},
           "provider" \in DOMAIN fields => fields.provider \in Providers,
           "model" \in DOMAIN fields => fields.model \in ModelNames,
           M!PutRouting(name, fields)
    PROVE  PutEffect
<1> SUFFICES ASSUME Normal[name] = name
             PROVE  /\ \A f \in {"provider", "model", "fallbacks"} :
                        M!Routed(name)'[f] = IF f \in DOMAIN fields THEN fields[f] ELSE M!Routed(name)[f]
                    /\ \A t \in TaskNames : Layer[t] = name /\ Normal[t] \notin DOMAIN runtime' =>
                        M!Routed(t)' = M!Routed(name)'
  BY DEF PutEffect, M!PutRouting
<1> DEFINE rule == M!Overlay(fields, M!Routed(name))
           routed == [provider |-> rule.provider, model |-> rule.model, fallbacks |-> rule.fallbacks]
<1>1. /\ \A f \in {"provider", "model", "fallbacks"} :
            rule[f] = IF f \in DOMAIN fields THEN fields[f] ELSE M!Routed(name)[f]
      /\ rule.provider # "" /\ rule.model # ""
  <2>1. "" \notin Providers /\ "" \notin ModelNames
    BY RoutingBounds DEF M!RoutingAssumption
  <2> QED
    BY <2>1, RoutedFields DEF M!Overlay
<1>2. name \in DOMAIN runtime' /\ runtime'[name] = rule
  BY DEF M!PutRouting, M!Overlay
<1> HIDE DEF rule
<1>3. ASSUME NEW t \in TaskNames, M!Candidate(t, runtime') = {name} PROVE M!Routed(t)' = routed
  <2>1. M!RuleFor(t)' = rule
    BY <1>2, <1>3 DEF M!RuleFor
  <2>2. M!Routed(t)' = [provider |-> M!Or(rule.provider, M!DefaultRule(t).provider),
                        model |-> M!Or(rule.model, M!DefaultRule(t).model),
                        fallbacks |-> rule.fallbacks]
    BY <1>3, <2>1 DEF M!Routed, M!Resolve, M!Or
  <2> QED
    BY <1>1, <2>2 DEF M!Or
<1>4. M!Routed(name)' = routed
  BY <1>2, <1>3 DEF M!Candidate
<1>5. ASSUME NEW t \in TaskNames, Layer[t] = name, Normal[t] \notin DOMAIN runtime'
      PROVE  M!Routed(t)' = routed
  BY <1>2, <1>3, <1>5 DEF M!Candidate
<1>6. \A f \in {"provider", "model", "fallbacks"} : routed[f] = rule[f]
  OBVIOUS
<1> HIDE DEF routed
<1> QED
  BY <1>1, <1>4, <1>5, <1>6

LEMMA RoutingStep == ASSUME [M!Next]_M!vars PROVE PutEffect \/ UNCHANGED M!vars
<1>1. CASE \E task \in TaskNames, given \in SUBSET {"provider", "model", "fallbacks"} :
           \E rule \in [provider : Providers, model : ModelNames, fallbacks : Chains] :
              M!PutRouting(task, [f \in given |-> rule[f]])
  <2>1. PICK task \in TaskNames, given \in SUBSET {"provider", "model", "fallbacks"},
             rule \in [provider : Providers, model : ModelNames, fallbacks : Chains] :
              M!PutRouting(task, [f \in given |-> rule[f]])
    BY <1>1
  <2> DEFINE fields == [f \in given |-> rule[f]]
  <2>2. /\ DOMAIN fields \subseteq {"provider", "model", "fallbacks"}
        /\ "provider" \in DOMAIN fields => fields.provider \in Providers
        /\ "model" \in DOMAIN fields => fields.model \in ModelNames
    OBVIOUS
  <2>3. M!PutRouting(task, fields)
    BY <2>1
  <2> HIDE DEF fields
  <2> QED
    BY <2>2, <2>3, PutRoutingEffect
<1>2. ASSUME put' = M!NoRequest PROVE PutEffect
  BY <1>2, RoutingBounds DEF PutEffect, M!NoRequest, M!RoutingAssumption
<1>3. ASSUME NEW provider \in Providers, NEW model \in ModelNames \union {""}, M!PutConfig(provider, model)
      PROVE  PutEffect
  BY <1>2, <1>3 DEF M!PutConfig
<1>4. CASE M!Reset
  BY <1>2, <1>4 DEF M!Reset
<1> QED
  BY <1>1, <1>3, <1>4 DEF M!Next

(* A request changes the fields it gives of the task it names and no other *)
(* one, and the tasks that have no rule of their own follow their layer    *)
(* (api/routes/model_config.py: update_routing_rule).                      *)
THEOREM RequestsChangeWhatTheyName == ServicesSpec => PutChangesWhatItNames
<1>1. [ServicesNext]_allVars => [PutEffect]_M!vars
  <2>1. CASE UNCHANGED allVars
    BY <2>1 DEF allVars, routingVars, M!vars
  <2>2. CASE ServicesNext
    <3>1. [M!Next]_M!vars
      BY <2>2 DEF ServicesNext, OnlyOf, routingVars, M!vars
    <3> QED
      BY <3>1, RoutingStep
  <2> QED
    BY <2>1, <2>2
<1>2. [][PutEffect]_M!vars => PutChangesWhatItNames
  BY DEF PutEffect, PutChangesWhatItNames, M!PutChangesWhatItNames
<1> QED
  BY <1>1, <1>2, PTL DEF ServicesSpec
===============================================================================
