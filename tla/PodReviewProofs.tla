-------------------------- MODULE PodReviewProofs --------------------------
(***************************************************************************)
(* What the webhooks do to any pod, with any number of labels,             *)
(* tolerations, containers and variables.                                  *)
(*                                                                         *)
(* The induction theorems of the library take a predicate as a parameter,  *)
(* which the provers cannot instantiate.  That every set of natural        *)
(* numbers has a least element (WFMin) is a fact about sets, and gives an  *)
(* induction principle for the set of the numbers that have a property.    *)
(***************************************************************************)
EXTENDS PodReview, SequenceTheorems, WellFoundedInduction, TLAPS

Less == {p \in Nat \X Nat : p[1] < p[2]}

LEMMA LeastElement ==
    ASSUME NEW T, T \subseteq Nat, T # {}
    PROVE  \E x \in T : \A y \in T : x <= y
  <1>1. IsWellFoundedOn(Less, Nat)
    BY NatLessThanWellFounded DEF OpToRel, Less
  <1>2. PICK x \in T : \A y \in T : ~ (<<y, x>> \in Less)
    BY WFMin, <1>1
  <1>3. ASSUME NEW y \in T PROVE x <= y
    <2>1. ~ (<<y, x>> \in Less) /\ x \in Nat /\ y \in Nat
      BY <1>2
    <2>2. ~ (y < x)
      BY <2>1 DEF Less
    <2> QED BY <2>1, <2>2
  <1> QED BY <1>2, <1>3

LEMMA Induction ==
    ASSUME NEW G, 0 \in G, \A n \in Nat : n \in G => n + 1 \in G
    PROVE  Nat \subseteq G
  <1> DEFINE T == Nat \ G
  <1>1. SUFFICES ASSUME T # {} PROVE FALSE
    OBVIOUS
  <1>2. PICK x \in T : \A y \in T : x <= y
    BY <1>1, LeastElement
  <1>3. x # 0 /\ x - 1 \in Nat /\ x - 1 \notin T
    BY <1>2
  <1> QED BY <1>2, <1>3
----------------------------------------------------------------------------
(* The loop of appendTolerations.                                          *)

LoopStep(new, existing, f, i) ==
    IF i = 0 THEN <<>>
    ELSE IF new[i] \in Range(existing) THEN f[i - 1]
    ELSE Append(f[i - 1], new[i])

(* The recursive definition defines something.                             *)
LEMMA LoopIsDefined ==
    ASSUME NEW new, NEW existing, NEW N \in Nat
    PROVE  \E f : f = [i \in 0..N |-> LoopStep(new, existing, f, i)]
  <1> DEFINE G == {n \in Nat : \E f : f = [i \in 0..n |-> LoopStep(new, existing, f, i)]}
  <1>1. 0 \in G
    <2> DEFINE f == [i \in 0..0 |-> <<>>]
    <2>1. f = [i \in 0..0 |-> LoopStep(new, existing, f, i)]
      BY DEF LoopStep
    <2> HIDE DEF f
    <2> QED BY <2>1
  <1>2. ASSUME NEW n \in Nat, n \in G PROVE n + 1 \in G
    <2>1. PICK f : f = [i \in 0..n |-> LoopStep(new, existing, f, i)]
      BY <1>2
    <2> DEFINE g == [i \in 0..(n + 1) |->
                       IF i = n + 1 THEN LoopStep(new, existing, f, i) ELSE f[i]]
    <2>2. \A i \in 0..n : g[i] = f[i]
      OBVIOUS
    <2>3. \A i \in 0..(n + 1) : LoopStep(new, existing, g, i) = LoopStep(new, existing, f, i)
      <3> HIDE DEF g
      <3> QED BY <2>2 DEF LoopStep
    <2>4. \A i \in 0..(n + 1) : g[i] = LoopStep(new, existing, g, i)
      BY <2>1, <2>3
    <2>5. g = [i \in 0..(n + 1) |-> LoopStep(new, existing, g, i)]
      <3>1. g = [i \in 0..(n + 1) |-> g[i]]
        OBVIOUS
      <3> HIDE DEF g
      <3> QED BY <3>1, <2>4
    <2> HIDE DEF g
    <2> QED BY <2>5
  <1>3. Nat \subseteq G
    <2> HIDE DEF G
    <2> QED BY <1>1, <1>2, Induction
  <1> QED BY <1>3

LEMMA LoopUnfolds ==
    ASSUME NEW T, NEW new \in Seq(T), NEW existing
    PROVE  \E f : /\ \A i \in 0..Len(new) : f[i] = LoopStep(new, existing, f, i)
                  /\ NotIn(new, existing) = f[Len(new)]
  <1> DEFINE loop == CHOOSE f : f = [i \in 0..Len(new) |-> LoopStep(new, existing, f, i)]
  <1>1. Len(new) \in Nat
    OBVIOUS
  <1>2. loop = [i \in 0..Len(new) |-> LoopStep(new, existing, loop, i)]
    BY <1>1, LoopIsDefined
  <1>3. NotIn(new, existing) = loop[Len(new)]
    BY DEF NotIn, LoopStep
  <1> HIDE DEF loop
  <1>4. \A i \in 0..Len(new) : loop[i] = LoopStep(new, existing, loop, i)
    BY <1>2
  <1> QED BY <1>3, <1>4

(* What is appended: those of the new ones that are not there yet, and     *)
(* none more often than it was among the new ones.                         *)
LEMMA NotInFacts ==
    ASSUME NEW T, NEW new \in Seq(T), NEW existing
    PROVE  /\ NotIn(new, existing) \in Seq(T)
           /\ Range(NotIn(new, existing)) = Range(new) \ Range(existing)
           /\ IsInjective(new) => IsInjective(NotIn(new, existing))
  <1>1. PICK f : /\ \A i \in 0..Len(new) : f[i] = LoopStep(new, existing, f, i)
                 /\ NotIn(new, existing) = f[Len(new)]
    BY LoopUnfolds
  <1> DEFINE Ok(i) ==
        /\ f[i] \in Seq(T)
        /\ \A k \in 1..Len(f[i]) :
             f[i][k] \notin Range(existing) /\ \E j \in 1..i : new[j] = f[i][k]
        /\ \A j \in 1..i : new[j] \notin Range(existing) =>
             \E k \in 1..Len(f[i]) : f[i][k] = new[j]
        /\ IsInjective(new) => \A k, l \in 1..Len(f[i]) : f[i][k] = f[i][l] => k = l
      G == {i \in Nat : i <= Len(new) => Ok(i)}
  <1>2. Len(new) \in Nat /\ DOMAIN new = 1..Len(new) /\ \A j \in 1..Len(new) : new[j] \in T
    OBVIOUS
  <1>3. 0 \in G
    <2>1. f[0] = <<>>
      BY <1>1, <1>2 DEF LoopStep
    <2>2. f[0] \in Seq(T) /\ 1..Len(f[0]) = {} /\ 1..0 = {}
      BY <2>1
    <2>3. Ok(0)
      BY <2>2
    <2> QED BY <2>3
  <1>4. ASSUME NEW i \in Nat, i \in G PROVE i + 1 \in G
    <2>1. SUFFICES ASSUME i + 1 <= Len(new) PROVE Ok(i + 1)
      OBVIOUS
    <2>2. Ok(i) /\ i + 1 \in 0..Len(new) /\ i + 1 \in 1..Len(new) /\ i + 1 # 0
      BY <1>2, <1>4, <2>1
    <2>3. f[i + 1] = IF new[i + 1] \in Range(existing) THEN f[i] ELSE Append(f[i], new[i + 1])
      BY <1>1, <2>2 DEF LoopStep
    <2>4. CASE new[i + 1] \in Range(existing)
      <3>1. f[i + 1] = f[i]
        BY <2>3, <2>4
      <3>2. \A j \in 1..(i + 1) : new[j] \notin Range(existing) => j \in 1..i
        BY <2>4
      <3> QED BY <2>2, <3>1, <3>2
    <2>5. CASE new[i + 1] \notin Range(existing)
      <3> DEFINE s == f[i]
                 t == Append(s, new[i + 1])
      <3>1. s \in Seq(T) /\ new[i + 1] \in T
        BY <1>2, <2>2
      <3> HIDE DEF s
      <3>2. /\ t \in Seq(T) /\ Len(t) = Len(s) + 1
            /\ t[Len(s) + 1] = new[i + 1] /\ \A k \in 1..Len(s) : t[k] = s[k]
        BY <3>1
      <3>3. \A k \in 1..Len(t) : k \in 1..Len(s) \/ k = Len(s) + 1
        BY <3>1, <3>2
      <3>4. f[i + 1] = t
        BY <2>3, <2>5 DEF s
      <3> HIDE DEF t
      <3>5. \A k \in 1..Len(t) : t[k] \notin Range(existing) /\ \E j \in 1..(i + 1) : new[j] = t[k]
        <4> TAKE k \in 1..Len(t)
        <4>1. CASE k = Len(s) + 1
          BY <2>2, <2>5, <3>2, <4>1
        <4>2. CASE k \in 1..Len(s)
          <5>1. t[k] = s[k] /\ s[k] \notin Range(existing)
            BY <2>2, <3>2, <4>2 DEF s
          <5>2. PICK j \in 1..i : new[j] = s[k]
            BY <2>2, <4>2 DEF s
          <5>3. j \in 1..(i + 1)
            BY <5>2
          <5> QED BY <5>1, <5>2, <5>3
        <4> QED BY <3>3, <4>1, <4>2
      <3>6. \A j \in 1..(i + 1) : new[j] \notin Range(existing) =>
              \E k \in 1..Len(t) : t[k] = new[j]
        <4> TAKE j \in 1..(i + 1)
        <4>1. CASE j = i + 1
          BY <3>1, <3>2, <4>1
        <4>2. CASE j \in 1..i
          BY <2>2, <3>1, <3>2, <4>2 DEF s
        <4> QED BY <4>1, <4>2
      <3>7. ASSUME IsInjective(new) PROVE \A k, l \in 1..Len(t) : t[k] = t[l] => k = l
        <4>1. \A k \in 1..Len(s) : s[k] # new[i + 1]
          <5> TAKE k \in 1..Len(s)
          <5>1. PICK j \in 1..i : new[j] = s[k]
            BY <2>2 DEF s
          <5>2. j \in DOMAIN new /\ i + 1 \in DOMAIN new /\ j # i + 1
            BY <1>2, <2>2
          <5> QED BY <3>7, <5>1, <5>2 DEF IsInjective
        <4>2. \A k, l \in 1..Len(s) : s[k] = s[l] => k = l
          BY <2>2, <3>7 DEF s
        <4> QED BY <3>2, <3>3, <4>1, <4>2
      <3> QED BY <3>2, <3>4, <3>5, <3>6, <3>7
    <2> QED BY <2>4, <2>5
  <1>5. Ok(Len(new))
    <2>1. Nat \subseteq G
      <3> HIDE DEF G
      <3> QED BY <1>3, <1>4, Induction
    <2> HIDE DEF Ok
    <2>2. Len(new) \in G /\ Len(new) <= Len(new)
      <3> HIDE DEF G
      <3> QED BY <1>2, <2>1
    <2> QED BY <2>2
  <1> DEFINE s == f[Len(new)]
  <1>6. s \in Seq(T) /\ DOMAIN s = 1..Len(s)
    BY <1>5
  <1>7. Range(s) = Range(new) \ Range(existing)
    <2>1. \A k \in DOMAIN s : s[k] \notin Range(existing) /\ \E j \in DOMAIN new : new[j] = s[k]
      BY <1>2, <1>5, <1>6
    <2>2. \A j \in DOMAIN new : new[j] \notin Range(existing) => \E k \in DOMAIN s : s[k] = new[j]
      BY <1>2, <1>5, <1>6
    <2>3. Range(s) = {s[k] : k \in DOMAIN s} /\ Range(new) = {new[j] : j \in DOMAIN new}
      BY DEF Range
    <2> HIDE DEF s
    <2> QED BY <2>1, <2>2, <2>3
  <1>8. IsInjective(new) => IsInjective(s)
    BY <1>5, <1>6 DEF IsInjective
  <1> QED BY <1>1, <1>6, <1>7, <1>8
----------------------------------------------------------------------------
(* Sequences that grow at the end.                                         *)

LEMMA Appended ==
    ASSUME NEW T, NEW s \in Seq(T), NEW t \in Seq(T)
    PROVE  /\ s \o t \in Seq(T) /\ IsPrefix(s, s \o t)
           /\ Range(s \o t) = Range(s) \cup Range(t)
           /\ IsInjective(s) /\ IsInjective(t) /\ Range(s) \cap Range(t) = {} => IsInjective(s \o t)
  <1> DEFINE u == s \o t
  <1>1. /\ u \in Seq(T) /\ Len(u) = Len(s) + Len(t) /\ Len(s) \in Nat /\ Len(t) \in Nat
        /\ \A i \in 1..Len(s) : u[i] = s[i]
        /\ \A i \in 1..Len(t) : u[Len(s) + i] = t[i]
        /\ DOMAIN s = 1..Len(s) /\ DOMAIN t = 1..Len(t) /\ DOMAIN u = 1..Len(u)
    BY ConcatProperties
  <1> HIDE DEF u
  <1>2. \A i \in 1..Len(u) : i \in 1..Len(s) \/ (i - Len(s) \in 1..Len(t) /\ u[i] = t[i - Len(s)])
    <2> TAKE i \in 1..Len(u)
    <2>1. CASE i <= Len(s)
      BY <1>1, <2>1
    <2>2. CASE ~ (i <= Len(s))
      <3>1. i - Len(s) \in 1..Len(t) /\ Len(s) + (i - Len(s)) = i
        BY <1>1, <2>2
      <3> QED BY <1>1, <3>1
    <2> QED BY <2>1, <2>2
  <1>3. \A i \in 1..Len(s) : i \in 1..Len(u)
    BY <1>1
  <1>4. \A i \in 1..Len(t) : Len(s) + i \in 1..Len(u)
    BY <1>1
  <1>5. Range(u) = Range(s) \cup Range(t)
    <2>1. /\ Range(u) = {u[i] : i \in 1..Len(u)} /\ Range(s) = {s[i] : i \in 1..Len(s)}
          /\ Range(t) = {t[i] : i \in 1..Len(t)}
      BY <1>1 DEF Range
    <2>2. Range(u) \subseteq Range(s) \cup Range(t)
      BY <1>1, <1>2, <2>1
    <2>3. Range(s) \subseteq Range(u) /\ Range(t) \subseteq Range(u)
      BY <1>1, <1>3, <1>4, <2>1
    <2> QED BY <2>2, <2>3
  <1>6. IsPrefix(s, u)
    <2>1. SubSeq(s, 1, Len(s)) = s
      BY <1>1
    <2>2. SubSeq(u, 1, Len(s)) = s
      <3>1. SubSeq(u, 1, Len(s)) = [i \in 1..Len(s) |-> u[i]]
        BY <1>1
      <3>2. s = [i \in 1..Len(s) |-> s[i]]
        BY <1>1
      <3> QED BY <1>1, <3>1, <3>2
    <2> QED BY <1>1, <2>1, <2>2 DEF IsPrefix
  <1>7. ASSUME IsInjective(s), IsInjective(t), Range(s) \cap Range(t) = {}
        PROVE  IsInjective(u)
    <2>1. SUFFICES ASSUME NEW i \in 1..Len(u), NEW j \in 1..Len(u), u[i] = u[j] PROVE i = j
      BY <1>1 DEF IsInjective
    <2>2. \A k \in 1..Len(s), l \in 1..Len(t) : s[k] # t[l]
      BY <1>1, <1>7 DEF Range
    <2>3. CASE i \in 1..Len(s) /\ j \in 1..Len(s)
      BY <1>1, <1>7, <2>1, <2>3 DEF IsInjective
    <2>4. CASE i \notin 1..Len(s) /\ j \notin 1..Len(s)
      <3>1. /\ i - Len(s) \in 1..Len(t) /\ j - Len(s) \in 1..Len(t)
            /\ t[i - Len(s)] = t[j - Len(s)]
        BY <1>2, <2>1, <2>4
      <3>2. i - Len(s) = j - Len(s)
        BY <1>1, <1>7, <3>1 DEF IsInjective
      <3> QED BY <1>1, <3>2
    <2> QED BY <1>1, <1>2, <2>1, <2>2, <2>3, <2>4
  <1> QED BY <1>1, <1>5, <1>6, <1>7 DEF u

LEMMA PrefixOfItself ==
    ASSUME NEW T, NEW s \in Seq(T)
    PROVE  IsPrefix(s, s)
  BY DEF IsPrefix
----------------------------------------------------------------------------
(* min_lifespan.                                                           *)

LEMMA LifespanTolerationsFacts ==
    ASSUME NEW p, IsPod(p), CanMutate(p)
    PROVE  /\ LifespanTolerations(p) \in Seq(Toleration)
           /\ IsInjective(LifespanTolerations(p))
           /\ Range(LifespanTolerations(p)) =
                IF HasLabel(p, Lifespan)
                THEN {Remaining(n) : n \in p.labels[Lifespan]..TaintMaxAge} ELSE {AnyLifespan}
  <1> DEFINE s == LifespanTolerations(p)
  <1>1. AnyLifespan \in Toleration /\ \A n \in Int : Remaining(n) \in Toleration
    BY DEF AnyLifespan, Remaining, Toleration
  <1>2. CASE ~ HasLabel(p, Lifespan)
    <2>1. s = <<AnyLifespan>>
      BY <1>2 DEF LifespanTolerations
    <2> HIDE DEF s
    <2>2. s \in Seq(Toleration) /\ DOMAIN s = {1} /\ s[1] = AnyLifespan
      BY <1>1, <2>1
    <2>3. IsInjective(s) /\ Range(s) = {AnyLifespan}
      BY <2>2 DEF IsInjective, Range
    <2> QED BY <1>2, <2>2, <2>3 DEF s
  <1>3. CASE HasLabel(p, Lifespan)
    <2> DEFINE m == p.labels[Lifespan]
               L == TaintMaxAge - m + 1
    <2>1. m \in Int /\ TaintMaxAge \in Int
      BY <1>3, MaxAgeAssumption DEF IsPod, CanMutate
    <2>2. s = [k \in 1..L |-> Remaining(TaintMaxAge + 1 - k)]
      BY <1>3 DEF LifespanTolerations, LifespansFrom
    <2> HIDE DEF s, m
    <2>3. DOMAIN s = 1..L /\ \A k \in 1..L : s[k] = Remaining(TaintMaxAge + 1 - k)
      BY <2>2
    <2>4. \A k \in 1..L : TaintMaxAge + 1 - k \in m..TaintMaxAge
      BY <2>1
    <2>5. \A n \in m..TaintMaxAge : TaintMaxAge + 1 - n \in 1..L /\ s[TaintMaxAge + 1 - n] = Remaining(n)
      <3> TAKE n \in m..TaintMaxAge
      <3>1. TaintMaxAge + 1 - n \in 1..L /\ TaintMaxAge + 1 - (TaintMaxAge + 1 - n) = n
        BY <2>1
      <3> QED BY <2>3, <3>1
    <2>6. s \in Seq(Toleration)
      <3>1. \A k \in 1..L : s[k] \in Toleration
        BY <1>1, <2>1, <2>3, <2>4
      <3>2. CASE L \in Nat
        BY <2>2, <3>1, <3>2, IsASeq
      <3>3. CASE L \notin Nat
        <4>1. 1..L = {}
          BY <2>1, <3>3
        <4>2. s = <<>>
          BY <2>2, <4>1
        <4> QED BY <4>2
      <3> QED BY <3>2, <3>3
    <2>7. IsInjective(s)
      BY <2>1, <2>3 DEF IsInjective, Remaining
    <2>8. Range(s) = {Remaining(n) : n \in m..TaintMaxAge}
      BY <2>3, <2>4, <2>5 DEF Range
    <2> QED BY <1>3, <2>6, <2>7, <2>8 DEF s, m
  <1> QED BY <1>2, <1>3
----------------------------------------------------------------------------
(* The webhooks.                                                           *)

(* What mutate-pods sees to: the pod has the tolerations it asks for, and  *)
(* every container has the variable.                                       *)
Provided(p) ==
    /\ Range(LifespanTolerations(p)) \subseteq Range(p.tolerations)
    /\ \A c \in DOMAIN p.env : HasEnvVar(p.env[c], Kube)

LEMMA InjectKube ==
    ASSUME NEW env, IsSeq(env)
    PROVE  LET new == IF HasEnvVar(env, Kube) THEN env ELSE Append(env, Kube)
           IN  /\ IsSeq(new) /\ HasEnvVar(new, Kube) /\ IsPrefix(env, new)
               /\ \A i, j \in DOMAIN new :
                    new[i].name = Kube.name /\ new[j].name = Kube.name =>
                      i = j \/ (i \in DOMAIN env /\ j \in DOMAIN env)
  <1>1. CASE HasEnvVar(env, Kube)
    BY <1>1, PrefixOfItself DEF IsSeq
  <1>2. CASE ~ HasEnvVar(env, Kube)
    <2> DEFINE new == Append(env, Kube)
      T   == Range(env) \cup {Kube}
    <2>1. env \in Seq(T) /\ Kube \in T
      BY SeqMonotonic DEF IsSeq
    <2> HIDE DEF T
    <2>2. /\ new \in Seq(T) /\ Len(new) = Len(env) + 1 /\ new[Len(env) + 1] = Kube
          /\ \A i \in 1..Len(env) : new[i] = env[i]
          /\ DOMAIN new = 1..Len(new) /\ DOMAIN env = 1..Len(env) /\ Len(env) \in Nat
      BY <2>1, AppendProperties
    <2>3. new = env \o <<Kube>> /\ <<Kube>> \in Seq(T)
      BY <2>1, AppendIsConcat
    <2>4. IsPrefix(env, new)
      BY <2>1, <2>3, Appended
    <2> HIDE DEF new
    <2>5. HasEnvVar(new, Kube)
      BY <2>2 DEF HasEnvVar
    <2>6. \A i \in DOMAIN new : new[i].name = Kube.name => i = Len(env) + 1
      BY <1>2, <2>2 DEF HasEnvVar
    <2>7. IsSeq(new)
      BY <2>2, SeqOfRange DEF IsSeq
    <2> QED BY <1>2, <2>2, <2>4, <2>5, <2>6, <2>7 DEF new
  <1> QED BY <1>1, <1>2

(* The environments of the containers, each with the variable. *)
WithEnvVar(env, var) ==
    [c \in DOMAIN env |-> IF HasEnvVar(env[c], var) THEN env[c] ELSE Append(env[c], var)]

LEMMA MutatePodFields ==
    ASSUME NEW p, IsPod(p)
    PROVE  MutatePod(p) =
             [badName |-> p.badName, labels |-> p.labels,
              tolerations |-> AppendTolerations(LifespanTolerations(p), p.tolerations),
              env |-> [c \in DOMAIN p.env |->
                         IF HasEnvVar(p.env[c], Kube) THEN p.env[c] ELSE Append(p.env[c], Kube)]]
  <1>1. p = [badName |-> p.badName, labels |-> p.labels,
             tolerations |-> p.tolerations, env |-> p.env]
    BY DEF IsPod
  <1>2. TolerateLifespan(p) =
          [badName |-> p.badName, labels |-> p.labels,
           tolerations |-> AppendTolerations(LifespanTolerations(p), p.tolerations),
           env |-> p.env]
    BY <1>1 DEF TolerateLifespan
  <1>3. ASSUME NEW q, q = TolerateLifespan(p), NEW e, e = WithEnvVar(q.env, Kube)
        PROVE  [q EXCEPT !.env = e] =
                 [badName |-> p.badName, labels |-> p.labels,
                  tolerations |-> AppendTolerations(LifespanTolerations(p), p.tolerations),
                  env |-> WithEnvVar(p.env, Kube)]
    <2>1. e = WithEnvVar(p.env, Kube)
      BY <1>2, <1>3
    <2> QED BY <1>2, <1>3, <2>1
  <1>4. MutatePod(p) =
          [TolerateLifespan(p) EXCEPT !.env = WithEnvVar(TolerateLifespan(p).env, Kube)]
    BY DEF MutatePod, InjectEnvVar, WithEnvVar
  <1>5. MutatePod(p) =
          [badName |-> p.badName, labels |-> p.labels,
           tolerations |-> AppendTolerations(LifespanTolerations(p), p.tolerations),
           env |-> WithEnvVar(p.env, Kube)]
    BY <1>3, <1>4
  <1> QED BY <1>5 DEF WithEnvVar

(* A pod that was mutated has all it had, in its place, and what it asks   *)
(* for behind it; nothing is added that it had.                            *)
LEMMA MutatePodFacts ==
    ASSUME NEW p, IsPod(p), CanMutate(p)
    PROVE  LET new == MutatePod(p)
           IN  /\ IsPod(new) /\ CanMutate(new) /\ Provided(new)
               /\ new.labels = p.labels /\ new.badName = p.badName
               /\ IsPrefix(p.tolerations, new.tolerations)
               /\ Range(new.tolerations) = Range(p.tolerations) \cup Range(LifespanTolerations(p))
               /\ IsInjective(p.tolerations) => IsInjective(new.tolerations)
               /\ DOMAIN new.env = DOMAIN p.env
               /\ \A c \in DOMAIN p.env :
                    /\ IsPrefix(p.env[c], new.env[c])
                    /\ \A i, j \in DOMAIN new.env[c] :
                         new.env[c][i].name = Kube.name /\ new.env[c][j].name = Kube.name =>
                           i = j \/ (i \in DOMAIN p.env[c] /\ j \in DOMAIN p.env[c])
  <1> DEFINE new == MutatePod(p)
             tolerations == AppendTolerations(LifespanTolerations(p), p.tolerations)
             env == [c \in DOMAIN p.env |->
                       IF HasEnvVar(p.env[c], Kube) THEN p.env[c] ELSE Append(p.env[c], Kube)]
  <1>1. new = [badName |-> p.badName, labels |-> p.labels,
               tolerations |-> tolerations, env |-> env]
    BY MutatePodFields
  <1>2. p.tolerations \in Seq(Toleration) /\ \A c \in DOMAIN p.env : IsSeq(p.env[c])
    BY DEF IsPod
  <1>3. /\ tolerations \in Seq(Toleration) /\ IsPrefix(p.tolerations, tolerations)
        /\ Range(tolerations) = Range(p.tolerations) \cup Range(LifespanTolerations(p))
        /\ IsInjective(p.tolerations) => IsInjective(tolerations)
    <2> DEFINE added == NotIn(LifespanTolerations(p), p.tolerations)
    <2>1. /\ added \in Seq(Toleration) /\ IsInjective(added)
          /\ Range(added) = Range(LifespanTolerations(p)) \ Range(p.tolerations)
      BY <1>2, LifespanTolerationsFacts, NotInFacts
    <2>2. tolerations = p.tolerations \o added
      BY DEF AppendTolerations
    <2> HIDE DEF added, tolerations
    <2> QED BY <1>2, <2>1, <2>2, Appended
  <1>4. \A c \in DOMAIN p.env :
          /\ IsSeq(env[c]) /\ HasEnvVar(env[c], Kube) /\ IsPrefix(p.env[c], env[c])
          /\ \A i, j \in DOMAIN env[c] :
               env[c][i].name = Kube.name /\ env[c][j].name = Kube.name =>
                 i = j \/ (i \in DOMAIN p.env[c] /\ j \in DOMAIN p.env[c])
    BY <1>2, InjectKube
  <1>5. env = [c \in DOMAIN env |-> env[c]] /\ DOMAIN env = DOMAIN p.env
    OBVIOUS
  <1> HIDE DEF tolerations, env, new
  <1>6. /\ new.badName = p.badName /\ new.labels = p.labels
        /\ new.tolerations = tolerations /\ new.env = env
    BY <1>1
  <1>7. IsPod(new) /\ CanMutate(new)
    BY <1>1, <1>3, <1>4, <1>5, <1>6 DEF IsPod, CanMutate, HasLabel
  <1>8. LifespanTolerations(new) = LifespanTolerations(p)
    BY <1>6 DEF LifespanTolerations, HasLabel
  <1>9. Provided(new)
    BY <1>3, <1>4, <1>5, <1>6, <1>8 DEF Provided
  <1> QED BY <1>3, <1>4, <1>5, <1>6, <1>7, <1>9 DEF new

(* There is nothing left to do for a pod that is provided for: mutate-pods *)
(* may be called any number of times.                                      *)
LEMMA MutatePodOnce ==
    ASSUME NEW p, IsPod(p), CanMutate(p), Provided(p)
    PROVE  MutatePod(p) = p
  <1> DEFINE added == NotIn(LifespanTolerations(p), p.tolerations)
  <1>1. p.tolerations \in Seq(Toleration) /\ p.env = [c \in DOMAIN p.env |-> p.env[c]]
    BY DEF IsPod
  <1>2. added \in Seq(Toleration) /\ Range(added) = {}
    BY LifespanTolerationsFacts, NotInFacts DEF Provided
  <1>3. added = <<>>
    <2> HIDE DEF added
    <2>1. Range(added) = {added[i] : i \in 1..Len(added)} /\ Len(added) \in Nat
      BY <1>2, RangeEquality
    <2>2. Len(added) = 0
      <3>1. SUFFICES ASSUME Len(added) # 0 PROVE FALSE
        OBVIOUS
      <3>2. 1 \in 1..Len(added)
        BY <2>1, <3>1
      <3> QED BY <1>2, <2>1, <3>2
    <2> QED BY <1>2, <2>2, EmptySeq
  <1>4. AppendTolerations(LifespanTolerations(p), p.tolerations) = p.tolerations
    <2>1. AppendTolerations(LifespanTolerations(p), p.tolerations) = p.tolerations \o added
      BY DEF AppendTolerations
    <2> HIDE DEF added
    <2> QED BY <1>1, <1>3, <2>1, ConcatEmptySeq
  <1>5. [c \in DOMAIN p.env |-> IF HasEnvVar(p.env[c], Kube) THEN p.env[c]
                                ELSE Append(p.env[c], Kube)] = p.env
    BY <1>1 DEF Provided
  <1> QED BY <1>4, <1>5, MutatePodFields DEF IsPod

(* The patch of mutate-pods is idempotent: a pod that is reviewed again, by *)
(* a retry or because it was copied, is left as it is.                     *)
THEOREM MutatingAgainChangesNothing ==
    ASSUME NEW p, IsPod(p), CanMutate(p)
    PROVE  CanMutate(MutatePod(p)) /\ MutatePod(MutatePod(p)) = MutatePod(p)
  BY MutatePodFacts, MutatePodOnce

(* mutatingwebhook touches one label, which nobody else reads.             *)
LEMMA LabelPodFacts ==
    ASSUME NEW p, IsPod(p)
    PROVE  LET new == LabelPod(p)
           IN  /\ IsPod(new) /\ HasLabel(new, "myExtraLabel")
               /\ new.labels["myExtraLabel"] = "webhook-was-here"
               /\ CanMutate(new) <=> CanMutate(p)
               /\ CanMutate(p) /\ Provided(p) => Provided(new)
               /\ new.tolerations = p.tolerations /\ new.env = p.env
               /\ \A label : label # "myExtraLabel" =>
                    /\ HasLabel(new, label) <=> HasLabel(p, label)
                    /\ HasLabel(p, label) => new.labels[label] = p.labels[label]
  <1> DEFINE new == LabelPod(p)
             labels == [label \in DOMAIN p.labels \cup {"myExtraLabel"} |->
                          IF label = "myExtraLabel" THEN "webhook-was-here" ELSE p.labels[label]]
  <1>1. p = [badName |-> p.badName, labels |-> p.labels,
             tolerations |-> p.tolerations, env |-> p.env]
    BY DEF IsPod
  <1>2. new = [badName |-> p.badName, labels |-> labels,
               tolerations |-> p.tolerations, env |-> p.env]
    BY <1>1 DEF LabelPod
  <1> HIDE DEF new
  <1>3. /\ new.badName = p.badName /\ new.labels = labels
        /\ new.tolerations = p.tolerations /\ new.env = p.env
    BY <1>2
  <1>4. \A label : label # "myExtraLabel" =>
          /\ HasLabel(new, label) <=> HasLabel(p, label)
          /\ HasLabel(p, label) => new.labels[label] = p.labels[label]
    BY <1>3 DEF HasLabel
  <1>5. /\ HasLabel(new, Lifespan) <=> HasLabel(p, Lifespan)
        /\ HasLabel(p, Lifespan) => new.labels[Lifespan] = p.labels[Lifespan]
    BY <1>4 DEF Lifespan
  <1>6. HasLabel(new, "myExtraLabel") /\ new.labels["myExtraLabel"] = "webhook-was-here"
    BY <1>3 DEF HasLabel
  <1>7. new.labels = [label \in DOMAIN new.labels |-> new.labels[label]]
    BY <1>3
  <1> HIDE DEF labels
  <1>8. IsPod(new)
    BY <1>2, <1>3, <1>5, <1>7 DEF IsPod
  <1>9. CanMutate(new) <=> CanMutate(p)
    BY <1>5 DEF CanMutate
  <1>10. LifespanTolerations(new) = LifespanTolerations(p)
    BY <1>5 DEF LifespanTolerations
  <1> QED BY <1>3, <1>4, <1>6, <1>8, <1>9, <1>10 DEF new, Provided

(* A copy of a pod with the labels of another is a pod.                    *)
LEMMA Relabelled ==
    ASSUME NEW p, IsPod(p), NEW q, IsPod(q)
    PROVE  IsPod([p EXCEPT !.labels = q.labels])
  <1> DEFINE new == [p EXCEPT !.labels = q.labels]
  <1>1. p = [badName |-> p.badName, labels |-> p.labels,
             tolerations |-> p.tolerations, env |-> p.env]
    BY DEF IsPod
  <1>2. new = [badName |-> p.badName, labels |-> q.labels,
               tolerations |-> p.tolerations, env |-> p.env]
    BY <1>1
  <1> HIDE DEF new
  <1>3. /\ new.badName = p.badName /\ new.labels = q.labels
        /\ new.tolerations = p.tolerations /\ new.env = p.env
    BY <1>2
  <1>4. IsPod(new)
    BY <1>2, <1>3 DEF IsPod, HasLabel
  <1> QED BY <1>4 DEF new
============================================================================
