------------------------ MODULE ReducerLayoutProofs -------------------------
(***************************************************************************)
(* Theorems on the layout of the reducers, for all sizes, balancers and    *)
(* numbers of threads.  How work is divided: balance211 cuts a range into  *)
(* parts that follow one another, and the groups a reduce_balancer_t forms *)
(* have threads, jobs and room for them.  Where it is put: the balancer's  *)
(* assertions hold, and no two threads' partial results meet.  Who sums it *)
(* up: each element of the jobs of a group goes to one of its threads,     *)
(* whichever way reduce_nolock cuts the result into blocks and the blocks  *)
(* into rows.  Together this is all that the running reducer has to know   *)
(* of a use of it: every thread has terms of the reduction and a place for *)
(* them that is no other's, and the reduction driver finds them there.     *)
(***************************************************************************)
EXTENDS ReducerLayout, WellFoundedInduction, TLAPS

-----------------------------------------------------------------------------
(* Arithmetic.                                                              *)

\* What a quotient and a remainder are.
LEMMA DivFacts ==
    ASSUME NEW a \in Nat, NEW d \in Nat \ {0}
    PROVE  /\ a \div d \in Nat
           /\ d * (a \div d) <= a
           /\ a < d * (a \div d) + d
           /\ a % d \in Nat
           /\ a % d < d
           /\ a = d * (a \div d) + (a % d)
BY SMT

\* div_up is the least number of pieces of size d that hold a.
LEMMA DivUpFacts ==
    ASSUME NEW a \in Nat, NEW d \in Nat \ {0}
    PROVE  /\ DivUp(a, d) \in Nat
           /\ a <= d * DivUp(a, d)
           /\ d * DivUp(a, d) < a + d
BY SMT DEF DivUp

\* Products are monotonic.
LEMMA MulMono ==
    ASSUME NEW x \in Nat, NEW y \in Nat, NEW z \in Nat, x <= y
    PROVE  x * z <= y * z
BY SMT

\* A quotient is at least whatever times the divisor is at most the dividend.
LEMMA DivLower ==
    ASSUME NEW a \in Nat, NEW d \in Nat \ {0}, NEW q \in Nat, q * d <= a
    PROVE  q <= a \div d
<1>1. a < d * (a \div d) + d /\ a \div d \in Nat
  BY DivFacts, Zenon
<1>2. SUFFICES ASSUME (a \div d) + 1 <= q PROVE FALSE
  BY <1>1
<1>3. ((a \div d) + 1) * d <= q * d
  BY <1>1, <1>2, MulMono
<1> QED
  BY <1>1, <1>3

-----------------------------------------------------------------------------
(* balance211.                                                              *)

\* The numbers balance211 computes for a team: n1 and n2 are the two sizes of
\* a part and T1 is how many threads have the larger one.
LEMMA Balance211Numbers ==
    ASSUME NEW n \in Nat \ {0}, NEW team \in Nat \ {0},
           NEW n1, n1 = DivUp(n, team), NEW T1, T1 = n - (n1 - 1) * team
    PROVE  /\ n1 \in Nat \ {0}
           /\ T1 \in 1..team
           /\ n = T1 + (n1 - 1) * team
<1>1. n1 \in Nat /\ n <= team * n1 /\ team * n1 < n + team
  BY DivUpFacts, Zenon
<1>2. n1 # 0
  BY <1>1
<1> QED
  BY <1>1, <1>2

\* balance211, for every n and every team: the first thread starts at 0, the
\* last ends at n, each begins where the one before it ends, no part overlaps a
\* later one, and nobody is left without work when there is enough of it.
THEOREM Balance211Partition ==
    ASSUME NEW n \in Nat, NEW team \in Nat \ {0}
    PROVE  /\ Balance211(n, team, 0)[1] = 0
           /\ Balance211(n, team, team - 1)[2] = n
           /\ \A t \in 0..(team - 2) :
                Balance211(n, team, t)[2] = Balance211(n, team, t + 1)[1]
           /\ \A t \in 0..(team - 1) : \A u \in 0..(t - 1) :
                Balance211(n, team, u)[2] <= Balance211(n, team, t)[1]
           /\ \A t \in 0..(team - 1) :
                /\ Balance211(n, team, t)[1] \in Nat
                /\ Balance211(n, team, t)[1] <= Balance211(n, team, t)[2]
                /\ n >= team => Balance211(n, team, t)[1] < Balance211(n, team, t)[2]
<1>1. CASE team <= 1 \/ n = 0
  <2>1. \A t \in Nat : Balance211(n, team, t) = <<0, n>>
    BY <1>1, Zenon DEF Balance211
  <2>2. \A t \in Nat : Balance211(n, team, t)[1] = 0 /\ Balance211(n, team, t)[2] = n
    BY <2>1
  <2> QED
    BY <1>1, <2>2
<1>2. CASE team > 1 /\ n # 0
  <2> DEFINE n1 == DivUp(n, team)
             T1 == n - (n1 - 1) * team
             start(t) == IF t <= T1 THEN t * n1 ELSE T1 * n1 + (t - T1) * (n1 - 1)
             mine(t) == IF t < T1 THEN n1 ELSE n1 - 1
  <2>1. /\ n1 \in Nat \ {0}
        /\ T1 \in 1..team
        /\ n = T1 + (n1 - 1) * team
    BY <1>2, Balance211Numbers
  <2>2. \A t \in Nat : Balance211(n, team, t) = <<start(t), start(t) + mine(t)>>
    BY <1>2 DEF Balance211
  <2>3. \A t \in Nat :
            Balance211(n, team, t)[1] = start(t) /\ Balance211(n, team, t)[2] = start(t) + mine(t)
    BY <2>2
  <2> HIDE DEF n1, T1
  <2>4. \A t \in 0..team : start(t) \in Nat /\ mine(t) \in Nat
    <3> TAKE t \in 0..team
    <3>1. CASE t <= T1
      BY <2>1, <3>1
    <3>2. CASE t > T1
      <4>1. (t - T1) * (n1 - 1) \in Nat /\ T1 * n1 \in Nat
        BY <2>1, <3>2
      <4> QED
        BY <2>1, <3>2, <4>1
    <3> QED
      BY <2>1, <3>1, <3>2
  <2>5. \A t \in 0..(team - 1) : start(t) + mine(t) = start(t + 1)
    <3> TAKE t \in 0..(team - 1)
    <3>1. CASE t < T1
      BY <2>1, <3>1
    <3>2. CASE t = T1
      BY <2>1, <3>2
    <3>3. CASE t > T1
      BY <2>1, <3>3
    <3> QED
      BY <2>1, <3>1, <3>2, <3>3
  <2>6. start(team) = n
    <3>1. CASE T1 = team
      BY <2>1, <3>1
    <3>2. CASE T1 < team
      BY <2>1, <3>2
    <3> QED
      BY <2>1, <3>1, <3>2
  <2>7. \A t, u \in 0..team : u <= t => start(u) <= start(t)
    <3> SUFFICES ASSUME NEW t \in 0..team, NEW u \in 0..team, u <= t
                 PROVE  start(u) <= start(t)
      BY Zenon
    <3>1. CASE t <= T1
      BY <2>1, <3>1, MulMono
    <3>2. CASE u > T1
      <4>1. (u - T1) * (n1 - 1) <= (t - T1) * (n1 - 1)
        BY <2>1, <3>2, MulMono
      <4> QED
        BY <2>1, <3>2, <4>1
    <3>3. CASE u <= T1 /\ t > T1
      <4>1. u * n1 <= T1 * n1
        BY <2>1, <3>3, MulMono
      <4>2. (t - T1) * (n1 - 1) \in Nat
        BY <2>1, <3>3
      <4> QED
        BY <2>1, <3>3, <4>1, <4>2
    <3> QED
      BY <2>1, <3>1, <3>2, <3>3
  <2>8. ASSUME n >= team, NEW t \in 0..(team - 1)
        PROVE  mine(t) > 0
    <3>1. CASE n1 = 1
      BY <2>1, <2>8, <3>1
    <3>2. CASE n1 > 1
      BY <2>1, <3>2
    <3> QED
      BY <2>1, <3>1, <3>2
  <2>9. start(0) = 0
    BY <2>1
  <2> HIDE DEF start, mine
  <2>10. /\ Balance211(n, team, 0)[1] = 0
         /\ Balance211(n, team, team - 1)[2] = n
    BY <1>2, <2>3, <2>5, <2>6, <2>9
  <2>11. \A t \in 0..(team - 2) :
            Balance211(n, team, t)[2] = Balance211(n, team, t + 1)[1]
    BY <1>2, <2>3, <2>5
  <2>12. \A t \in 0..(team - 1) : \A u \in 0..(t - 1) :
            Balance211(n, team, u)[2] <= Balance211(n, team, t)[1]
    <3> SUFFICES ASSUME NEW t \in 0..(team - 1), NEW u \in 0..(t - 1)
                 PROVE  start(u) + mine(u) <= start(t)
      BY <2>3
    <3>1. u \in 0..(team - 1) /\ u + 1 \in 0..team /\ t \in 0..team /\ u + 1 <= t
      OBVIOUS
    <3> QED
      BY <2>5, <2>7, <3>1, Zenon
  <2>13. \A t \in 0..(team - 1) :
            /\ Balance211(n, team, t)[1] \in Nat
            /\ Balance211(n, team, t)[1] <= Balance211(n, team, t)[2]
            /\ n >= team => Balance211(n, team, t)[1] < Balance211(n, team, t)[2]
    BY <2>3, <2>4, <2>8
  <2> QED
    BY <2>10, <2>11, <2>12, <2>13, Zenon
<1> QED
  BY <1>1, <1>2

-----------------------------------------------------------------------------
(* The balancer.                                                            *)

\* What the assertion at the beginning of balance asks for.
Sensible(b) ==
    /\ b.nthr \in Nat \ {0}
    /\ b.job_size \in Nat \ {0}
    /\ b.njobs \in Nat \ {0}
    /\ b.reduction_size \in Nat \ {0}
    /\ b.max_buffer_size \in Nat

\* What the loop relies on: with 1..njobs jobs per group there is a group, the
\* groups have a thread and together no more threads than there are.
LEMMA AssumptionFacts ==
    ASSUME NEW b, Sensible(b), NEW c \in 1..b.njobs
    PROVE  /\ Assumption(b, c).ngroups = Least(b.njobs \div c, b.nthr)
           /\ Assumption(b, c).ngroups \in 1..b.nthr
           /\ Assumption(b, c).ngroups <= b.njobs
           /\ Assumption(b, c).nthr_per_group \in Nat \ {0}
           /\ Assumption(b, c).nthr_per_group <= b.nthr \div Assumption(b, c).ngroups
           /\ Assumption(b, c).ngroups * Assumption(b, c).nthr_per_group <= b.nthr
           /\ Assumption(b, c).njobs_per_group_ub
                = DivUp(b.njobs, Assumption(b, c).ngroups)
<1> DEFINE g == Assumption(b, c)
           G == Least(b.njobs \div c, b.nthr)
           P == IF b.allow THEN Least(b.nthr \div G, b.reduction_size) ELSE 1
<1>1. /\ g.ngroups = G
      /\ g.nthr_per_group = P
      /\ g.njobs_per_group_ub = DivUp(b.njobs, G)
  BY Zenon DEF Assumption
<1>2. G \in 1..b.nthr /\ G <= b.njobs
  <2>1. b.njobs \div c \in Nat /\ c * (b.njobs \div c) <= b.njobs
    BY DivFacts DEF Sensible
  <2>2. 1 <= b.njobs \div c
    BY DivLower DEF Sensible
  <2>3. b.njobs \div c <= c * (b.njobs \div c)
    BY <2>1, MulMono
  <2> QED
    BY <2>1, <2>2, <2>3 DEF Least, Sensible
<1> HIDE DEF G
<1>3. b.nthr \div G \in Nat /\ G * (b.nthr \div G) <= b.nthr /\ 1 <= b.nthr \div G
  <2>1. b.nthr \in Nat /\ G \in Nat \ {0} /\ 1 * G <= b.nthr
    BY <1>2 DEF Sensible
  <2>2. b.nthr \div G \in Nat /\ G * (b.nthr \div G) <= b.nthr
    BY <2>1, DivFacts, Zenon
  <2>3. 1 <= b.nthr \div G
    BY <2>1, DivLower, Zenon
  <2> QED
    BY <2>2, <2>3, Zenon
<1>4. P \in Nat \ {0} /\ P <= b.nthr \div G
  BY <1>3 DEF Least, Sensible
<1> HIDE DEF P
<1>5. G * P <= b.nthr
  <2>1. P * G <= (b.nthr \div G) * G
    BY <1>2, <1>3, <1>4, MulMono
  <2> QED
    BY <1>2, <1>3, <1>4, <2>1 DEF Sensible
<1> QED
  BY <1>1, <1>2, <1>4, <1>5, Zenon DEF G

\* The initial guess needs no room for more than one job, or has groups of one
\* thread.
LEMMA InitialGuessFits ==
    ASSUME NEW b, Sensible(b)
    PROVE  MinNjobs(b) \in 1..b.njobs /\ Fits(b, Assumption(b, MinNjobs(b)))
<1> DEFINE q == b.njobs \div b.nthr
           g == Assumption(b, MinNjobs(b))
<1>1. q \in Nat /\ b.nthr * q <= b.njobs
  BY DivFacts, Zenon DEF Sensible
<1>2. q <= b.nthr * q
  BY <1>1, MulMono DEF Sensible
<1>3. MinNjobs(b) \in 1..b.njobs
  BY <1>1, <1>2 DEF MinNjobs, Greatest, Sensible
<1> HIDE DEF q
<1>4. CASE q >= 1
  <2>1. MinNjobs(b) = q
    BY <1>1, <1>4 DEF MinNjobs, Greatest, q
  <2>2. b.nthr <= b.njobs \div q
    BY <1>1, <1>4, DivLower DEF Sensible
  <2>3. b.njobs \div q \in Nat
    BY <1>1, <1>4, DivFacts DEF Sensible
  <2>4. g.ngroups = b.nthr
    BY <1>3, <2>1, <2>2, <2>3, AssumptionFacts DEF Least, Sensible
  <2>5. g.nthr_per_group \in Nat /\ b.nthr * g.nthr_per_group <= b.nthr
    BY <1>3, <2>4, AssumptionFacts, Zenon
  <2>6. ~ g.nthr_per_group > 1
    <3>1. SUFFICES ASSUME 2 <= g.nthr_per_group PROVE FALSE
      BY <2>5
    <3>2. 2 * b.nthr <= g.nthr_per_group * b.nthr
      BY <2>5, <3>1, MulMono, Zenon DEF Sensible
    <3> QED
      BY <2>5, <3>2 DEF Sensible
  <2> QED
    BY <1>3, <2>6, Zenon DEF Fits
<1>5. CASE q = 0
  <2>1. MinNjobs(b) = 1
    BY <1>5 DEF MinNjobs, Greatest, q
  <2>2. b.njobs < b.nthr
    BY <1>5, DivFacts DEF q, Sensible
  <2>3. b.njobs \div 1 = b.njobs
    BY DEF Sensible
  <2>4. g.ngroups = b.njobs
    BY <1>3, <2>1, <2>2, <2>3, AssumptionFacts DEF Least, Sensible
  <2>5. g.njobs_per_group_ub = DivUp(b.njobs, b.njobs)
    BY <1>3, <2>4, AssumptionFacts, Zenon
  <2>6. DivUp(b.njobs, b.njobs) \in Nat /\ b.njobs * DivUp(b.njobs, b.njobs) < b.njobs + b.njobs
    BY DivUpFacts, Zenon DEF Sensible
  <2>7. DivUp(b.njobs, b.njobs) <= 1
    <3>1. SUFFICES ASSUME 2 <= DivUp(b.njobs, b.njobs) PROVE FALSE
      BY <2>6
    <3>2. 2 * b.njobs <= DivUp(b.njobs, b.njobs) * b.njobs
      BY <2>6, <3>1, MulMono, Zenon DEF Sensible
    <3> QED
      BY <2>6, <3>2 DEF Sensible
  <2>8. MaxNjobs(b) \in Nat /\ 1 <= MaxNjobs(b)
    <3>1. b.nthr * b.job_size \in Nat \ {0}
      BY DEF Sensible
    <3>2. b.max_buffer_size \div (b.nthr * b.job_size) \in Nat
      BY <3>1, DivFacts, Zenon DEF Sensible
    <3> QED
      BY <3>2 DEF MaxNjobs, Greatest
  <2> QED
    BY <1>3, <2>5, <2>6, <2>7, <2>8 DEF Fits
<1> QED
  BY <1>1, <1>3, <1>4, <1>5

\* balance returns the balance for some number of jobs per group that fits.
LEMMA BalanceChosen ==
    ASSUME NEW b, Sensible(b)
    PROVE  \E c \in 1..b.njobs : balance(b) = Assumption(b, c) /\ Fits(b, Assumption(b, c))
<1>1. CASE Best(b) = {}
  BY <1>1, InitialGuessFits, Zenon DEF balance
<1>2. CASE Best(b) # {}
  <2> DEFINE c == CHOOSE x \in Best(b) : TRUE
  <2>1. c \in Best(b)
    BY <1>2, Zenon
  <2>2. c \in MinNjobs(b)..(b.njobs - 1) /\ Fits(b, Assumption(b, c))
    BY <2>1, Zenon DEF Best, Better
  <2>3. c \in 1..b.njobs
    BY <2>2, InitialGuessFits DEF Sensible
  <2>4. balance(b) = Assumption(b, c)
    BY <1>2, Zenon DEF balance
  <2> QED
    BY <2>2, <2>3, <2>4, Zenon
<1> QED
  BY <1>1, <1>2, Zenon

\* The groups' jobs follow one another, from the first job to the last, each
\* group has some, and none has more than njobs_per_group_ub.
LEMMA GroupJobs ==
    ASSUME NEW b, NEW g, b.njobs \in Nat \ {0},
           g.ngroups \in 1..b.njobs, g.njobs_per_group_ub = DivUp(b.njobs, g.ngroups)
    PROVE  /\ g.njobs_per_group_ub \in Nat
           /\ grp_job_off(b, g, 0) = 0
           /\ \A grp \in 0..g.ngroups :
                /\ grp_job_off(b, g, grp) \in 0..b.njobs
                /\ \A e \in 0..grp : grp_job_off(b, g, e) <= grp_job_off(b, g, grp)
           /\ \A grp \in 0..(g.ngroups - 1) :
                /\ grp_job_off(b, g, grp + 1)
                    = grp_job_off(b, g, grp) + grp_njobs(b, g, grp)
                /\ grp_njobs(b, g, grp) \in 1..g.njobs_per_group_ub
<1> DEFINE N == b.njobs
           G == g.ngroups
           q == N \div G
           r == N % G
           off(e) == q * e + Least(e, r)
<1>1. N \in Nat \ {0} /\ G \in Nat \ {0} /\ G <= N
  OBVIOUS
<1>2. q \in Nat /\ r \in Nat /\ r < G /\ N = G * q + r
  BY <1>1, DivFacts, Zenon
<1>3. q >= 1
  <2>1. 1 * G <= N
    BY <1>1
  <2> QED
    BY <1>1, <2>1, DivLower, Zenon
<1>4. /\ \A e \in 0..(G - 1) : grp_job_off(b, g, e) = off(e)
      /\ grp_job_off(b, g, G) = N
      /\ \A e \in 0..(G - 1) : grp_njobs(b, g, e) = q + (IF e < r THEN 1 ELSE 0)
  BY <1>1 DEF grp_job_off, grp_njobs
<1>5. /\ g.njobs_per_group_ub \in Nat
      /\ N <= G * g.njobs_per_group_ub
  BY <1>1, DivUpFacts, Zenon
<1> HIDE DEF N, G, q, r
<1>6. off(G) = N
  BY <1>1, <1>2 DEF Least
<1>7. \A e \in 0..G : grp_job_off(b, g, e) = off(e)
  BY <1>1, <1>4, <1>6
<1>8. \A e \in 0..(G - 1) : off(e + 1) = off(e) + q + (IF e < r THEN 1 ELSE 0)
  <2> TAKE e \in 0..(G - 1)
  <2>1. q * (e + 1) = q * e + q
    BY <1>1, <1>2
  <2>2. Least(e + 1, r) = Least(e, r) + (IF e < r THEN 1 ELSE 0)
    BY <1>2 DEF Least
  <2> QED
    BY <1>1, <1>2, <2>1, <2>2 DEF Least
<1>9. \A e, f \in 0..G : e <= f => off(e) <= off(f)
  <2> SUFFICES ASSUME NEW e \in 0..G, NEW f \in 0..G, e <= f
               PROVE  off(e) <= off(f)
    BY Zenon
  <2>1. e * q <= f * q
    BY <1>1, <1>2, MulMono
  <2>2. Least(e, r) <= Least(f, r)
    BY <1>2 DEF Least
  <2>3. e * q = q * e /\ f * q = q * f
    BY <1>1, <1>2
  <2> QED
    BY <1>1, <1>2, <2>1, <2>2, <2>3 DEF Least
<1>10. off(0) = 0
  BY <1>2 DEF Least
<1>11. \A e \in 0..G : off(e) \in 0..N
  <2> TAKE e \in 0..G
  <2>1. off(e) \in Nat
    BY <1>1, <1>2 DEF Least
  <2> QED
    BY <1>1, <1>6, <1>9, <2>1
<1>12. q + (IF r > 0 THEN 1 ELSE 0) <= g.njobs_per_group_ub
  <2>1. SUFFICES ASSUME g.njobs_per_group_ub < q + (IF r > 0 THEN 1 ELSE 0)
                 PROVE  FALSE
    BY <1>2, <1>5
  <2>2. CASE r > 0
    <3>1. g.njobs_per_group_ub * G <= q * G
      BY <1>1, <1>2, <1>5, <2>1, <2>2, MulMono
    <3> QED
      BY <1>1, <1>2, <1>5, <2>2, <3>1
  <2>3. CASE r = 0
    <3>1. (g.njobs_per_group_ub + 1) * G <= q * G
      BY <1>1, <1>2, <1>5, <2>1, <2>3, MulMono
    <3> QED
      BY <1>1, <1>2, <1>5, <2>3, <3>1
  <2> QED
    BY <1>2, <2>2, <2>3
<1> HIDE DEF off
<1>13. \A e \in 0..(G - 1) :
          /\ grp_job_off(b, g, e + 1) = grp_job_off(b, g, e) + grp_njobs(b, g, e)
          /\ grp_njobs(b, g, e) \in 1..g.njobs_per_group_ub
  <2> TAKE e \in 0..(G - 1)
  <2>1. grp_njobs(b, g, e) = q + (IF e < r THEN 1 ELSE 0)
    BY <1>4, Zenon
  <2>2. off(e) \in Nat /\ off(e + 1) = off(e) + q + (IF e < r THEN 1 ELSE 0)
    BY <1>1, <1>8, <1>11
  <2>3. grp_job_off(b, g, e) = off(e) /\ grp_job_off(b, g, e + 1) = off(e + 1)
    BY <1>1, <1>7
  <2> QED
    BY <1>2, <1>3, <1>5, <1>12, <2>1, <2>2, <2>3
<1> QED
  BY <1>1, <1>5, <1>7, <1>9, <1>10, <1>11, <1>13 DEF N, G

-----------------------------------------------------------------------------
(* The layout, for every balance that a balancer finds.                     *)

\* What every reducer in use has: a balance that its balancer has found.
IsBalanced(u) ==
    /\ u.kind \in {"1d", "2d"}
    /\ Sensible(u.b)
    /\ u.g.ngroups \in 1..u.b.njobs
    /\ u.g.nthr_per_group \in Nat \ {0}
    /\ u.g.ngroups * u.g.nthr_per_group <= u.b.nthr
    /\ u.g.njobs_per_group_ub = DivUp(u.b.njobs, u.g.ngroups)
    /\ Fits(u.b, u.g)

\* The assertions at the end of reduce_balancer_t::balance hold, and the
\* groups' jobs are all of the jobs.
LEMMA BalancedIsSound ==
    ASSUME NEW u, IsBalanced(u)
    PROVE  SoundBalance(u.b, u.g)
<1> DEFINE b == u.b
           g == u.g
           G == g.ngroups
           P == g.nthr_per_group
           ub == g.njobs_per_group_ub
<1> SUFFICES /\ P > 1 =>
                   /\ ub <= MaxNjobs(b)
                   /\ b.max_buffer_size >= b.nthr * b.job_size =>
                         ub * b.job_size * G * P <= b.max_buffer_size
             /\ G * P <= b.nthr
             /\ grp_job_off(b, g, 0) = 0
             /\ \A grp \in 0..(G - 1) :
                   /\ grp_job_off(b, g, grp + 1)
                       = grp_job_off(b, g, grp) + grp_njobs(b, g, grp)
                   /\ grp_njobs(b, g, grp) \in 1..ub
  BY Zenon DEF SoundBalance
<1>1. IsBalanced(u)
  BY Zenon
<1>2. /\ ub \in Nat
      /\ grp_job_off(b, g, 0) = 0
      /\ \A grp \in 0..(G - 1) :
            /\ grp_job_off(b, g, grp + 1)
                = grp_job_off(b, g, grp) + grp_njobs(b, g, grp)
            /\ grp_njobs(b, g, grp) \in 1..ub
  BY <1>1, GroupJobs, Zenon DEF IsBalanced, Sensible
<1>3. P > 1 => ub <= MaxNjobs(b)
  BY <1>1, Zenon DEF IsBalanced, Fits
<1>4. ASSUME P > 1, b.max_buffer_size >= b.nthr * b.job_size
      PROVE  ub * b.job_size * G * P <= b.max_buffer_size
  <2> DEFINE N == b.nthr
             J == b.job_size
             M == b.max_buffer_size
  <2>1. /\ N \in Nat \ {0} /\ J \in Nat \ {0} /\ M \in Nat
        /\ G \in Nat /\ P \in Nat /\ G * P <= N
    BY <1>1 DEF IsBalanced, Sensible
  <2>2. ub <= MaxNjobs(b) /\ MaxNjobs(b) = Greatest(1, M \div (N * J)) /\ M >= N * J
    BY <1>3, <1>4, Zenon DEF MaxNjobs
  <2> HIDE DEF b, g, G, P, ub, N, J, M
  <2>3. N * J \in Nat \ {0}
    BY <2>1
  <2>4. /\ M \div (N * J) \in Nat
        /\ (N * J) * (M \div (N * J)) <= M
        /\ 1 <= M \div (N * J)
    <3> DEFINE D == N * J
    <3>1. D \in Nat \ {0} /\ 1 * D <= M
      BY <2>1, <2>2, <2>3
    <3> HIDE DEF D
    <3>2. M \div D \in Nat /\ D * (M \div D) <= M
      BY <2>1, <3>1, DivFacts, Zenon
    <3>3. 1 <= M \div D
      BY <2>1, <3>1, DivLower, Zenon
    <3> QED
      BY <3>2, <3>3, Zenon DEF D
  <2>5. ub <= M \div (N * J)
    BY <2>2, <2>4 DEF Greatest
  <2>6. ub * (N * J) <= (M \div (N * J)) * (N * J)
    BY <1>2, <2>3, <2>4, <2>5, MulMono, Zenon
  <2>7. (G * P) * (ub * J) <= N * (ub * J)
    BY <1>2, <2>1, MulMono
  <2>8. ub * J * G * P = (G * P) * (ub * J) /\ N * (ub * J) = ub * (N * J)
    BY <1>2, <2>1
  <2>9. (M \div (N * J)) * (N * J) = (N * J) * (M \div (N * J))
    BY <2>3, <2>4
  <2>10. ub * (N * J) \in Nat /\ (G * P) * (ub * J) \in Nat
    BY <1>2, <2>1
  <2>11. ub * (N * J) <= M
    BY <2>1, <2>4, <2>6, <2>9, <2>10
  <2>12. (G * P) * (ub * J) <= M
    BY <2>1, <2>7, <2>8, <2>10, <2>11
  <2>13. ub * J * G * P <= M
    BY <2>8, <2>12, Zenon
  <2> QED
    BY <2>13, Zenon DEF J, M
<1> QED
  BY <1>1, <1>2, <1>3, <1>4, Zenon DEF IsBalanced
-----------------------------------------------------------------------------
\* The group of a thread that is not idle, and its place in the group.
LEMMA PlaceInGroup ==
    ASSUME NEW u, IsBalanced(u), NEW i \in 0..(u.g.ngroups * u.g.nthr_per_group - 1)
    PROVE  /\ group_id(u, i) \in 0..(u.g.ngroups - 1)
           /\ id_in_group(u, i) \in 0..(u.g.nthr_per_group - 1)
           /\ i = u.g.nthr_per_group * group_id(u, i) + id_in_group(u, i)
<1> DEFINE G == u.g.ngroups
           P == u.g.nthr_per_group
           grp == i \div P
<1>1. G \in Nat \ {0} /\ P \in Nat \ {0}
  BY DEF IsBalanced, Sensible
<1>2. i \in Nat /\ i < G * P
  BY <1>1
<1>3. group_id(u, i) = grp /\ id_in_group(u, i) = i % P
  BY Zenon DEF group_id, id_in_group
<1> HIDE DEF G, P
<1>4. /\ grp \in Nat /\ i % P \in Nat /\ i % P < P
      /\ i = P * grp + (i % P) /\ P * grp <= i
  BY <1>1, <1>2, DivFacts, Zenon
<1> HIDE DEF grp
<1>5. grp < G
  <2>1. SUFFICES ASSUME G <= grp PROVE FALSE
    BY <1>1, <1>4
  <2>2. G * P <= grp * P
    BY <1>1, <1>4, <2>1, MulMono, Zenon
  <2>3. grp * P = P * grp
    BY <1>1, <1>4
  <2> QED
    BY <1>1, <1>2, <1>4, <2>2, <2>3
<1>6. /\ group_id(u, i) \in 0..(G - 1)
      /\ id_in_group(u, i) \in 0..(P - 1)
      /\ i = P * group_id(u, i) + id_in_group(u, i)
  BY <1>1, <1>3, <1>4, <1>5
<1> QED
  BY <1>6, Zenon DEF G, P

\* offset_factor of get_local_ptr: the place of a thread among those that have
\* a part of the scratchpad.
OffsetFactor(u, i) ==
    group_id(u, i) * Owners(u) + id_in_group(u, i) - (IF u.kind = "1d" THEN 1 ELSE 0)

UsesSpace(u, i) == ~(u.kind = "1d" /\ id_in_group(u, i) = 0)

\* Threads that have a part of the scratchpad have different places in it, in
\* their order, and there are no more places than are booked.
LEMMA FactorsApart ==
    ASSUME NEW u, IsBalanced(u), NEW i \in 0..(u.g.ngroups * u.g.nthr_per_group - 1),
           UsesSpace(u, i)
    PROVE  /\ OffsetFactor(u, i) \in Nat
           /\ Owners(u) \in Nat
           /\ OffsetFactor(u, i) + 1 <= u.g.ngroups * Owners(u)
           /\ \A j \in 0..(i - 1) :
                UsesSpace(u, j) => /\ OffsetFactor(u, j) \in Nat
                                   /\ OffsetFactor(u, j) + 1 <= OffsetFactor(u, i)
<1> DEFINE G == u.g.ngroups
           P == u.g.nthr_per_group
           gi == group_id(u, i)
           di == id_in_group(u, i)
<1>1. G \in Nat \ {0} /\ P \in Nat \ {0} /\ u.kind \in {"1d", "2d"}
  BY DEF IsBalanced, Sensible
<1>2. gi \in 0..(G - 1) /\ di \in 0..(P - 1) /\ i = P * gi + di
  BY PlaceInGroup, Zenon
<1>3. ASSUME NEW j \in 0..(i - 1)
      PROVE  /\ group_id(u, j) \in 0..(G - 1)
             /\ id_in_group(u, j) \in 0..(P - 1)
             /\ j = P * group_id(u, j) + id_in_group(u, j)
  <2>1. j \in 0..(u.g.ngroups * u.g.nthr_per_group - 1)
    BY <1>1
  <2> QED
    BY <2>1, PlaceInGroup, Zenon
<1>4. CASE u.kind = "2d"
  <2>1. Owners(u) = P /\ OffsetFactor(u, i) = gi * P + di
    BY <1>1, <1>2, <1>4 DEF Owners, OffsetFactor
  <2>2. OffsetFactor(u, i) = i /\ i + 1 <= G * P
    BY <1>1, <1>2, <2>1
  <2>3. ASSUME NEW j \in 0..(i - 1) PROVE OffsetFactor(u, j) = j
    <3>1. OffsetFactor(u, j) = group_id(u, j) * P + id_in_group(u, j)
      BY <1>1, <1>3, <1>4, <2>1 DEF OffsetFactor
    <3> QED
      BY <1>1, <1>3, <3>1
  <2> QED
    BY <1>1, <2>1, <2>2, <2>3
<1>5. CASE u.kind = "1d"
  <2>1. Owners(u) = P - 1 /\ OffsetFactor(u, i) = gi * (P - 1) + di - 1 /\ di >= 1
    BY <1>1, <1>2, <1>5 DEF Owners, OffsetFactor, UsesSpace
  <2>2. gi * (P - 1) \in Nat /\ (gi + 1) * (P - 1) = gi * (P - 1) + P - 1
    BY <1>1, <1>2
  <2>3. (gi + 1) * (P - 1) <= G * (P - 1)
    <3> HIDE DEF G, P, gi
    <3>1. gi + 1 \in Nat /\ G \in Nat /\ P - 1 \in Nat /\ gi + 1 <= G
      BY <1>1, <1>2
    <3> QED
      BY <3>1, MulMono, Zenon
  <2>4. OffsetFactor(u, i) \in Nat /\ OffsetFactor(u, i) + 1 <= G * (P - 1)
    BY <1>1, <1>2, <2>1, <2>2, <2>3
  <2>5. ASSUME NEW j \in 0..(i - 1), UsesSpace(u, j)
        PROVE  OffsetFactor(u, j) \in Nat /\ OffsetFactor(u, j) + 1 <= OffsetFactor(u, i)
    <3> DEFINE gj == group_id(u, j)
               dj == id_in_group(u, j)
    <3>1. gj \in 0..(G - 1) /\ dj \in 0..(P - 1) /\ j = P * gj + dj
      BY <1>3, Zenon
    <3>2. OffsetFactor(u, j) = gj * (P - 1) + dj - 1 /\ dj >= 1
      BY <1>1, <1>5, <2>1, <2>5, <3>1 DEF OffsetFactor, UsesSpace
    <3> HIDE DEF G, P, gi, di, gj, dj
    <3>3. gj * (P - 1) \in Nat
      BY <1>1, <3>1
    <3>4. CASE gj = gi
      BY <1>1, <1>2, <2>1, <3>1, <3>2, <3>3, <3>4
    <3>5. CASE gj < gi
      <4>1. (gj + 1) * (P - 1) <= gi * (P - 1)
        BY <1>1, <1>2, <3>1, <3>5, MulMono
      <4>2. (gj + 1) * (P - 1) = gj * (P - 1) + P - 1
        BY <1>1, <3>1
      <4> QED
        BY <1>1, <1>2, <2>1, <2>2, <3>1, <3>2, <3>3, <4>1, <4>2
    <3>6. CASE gj > gi
      <4>1. (gi + 1) * P <= gj * P
        BY <1>1, <1>2, <3>1, <3>6, MulMono
      <4>2. (gi + 1) * P = P * gi + P /\ gj * P = P * gj
        BY <1>1, <1>2, <3>1
      <4> QED
        BY <1>1, <1>2, <2>5, <3>1, <4>1, <4>2
    <3> QED
      BY <1>2, <3>1, <3>4, <3>5, <3>6
  <2> QED
    BY <1>1, <2>1, <2>4, <2>5
<1> QED
  BY <1>1, <1>4, <1>5, Zenon

\* What get_local_ptr returns, and that a group's jobs fit where it points.
LEMMA LocalPtr ==
    ASSUME NEW u, IsBalanced(u), NEW i \in 0..(u.g.ngroups * u.g.nthr_per_group - 1)
    PROVE  /\ SpacePerThread(u) \in Nat
           /\ ithr_njobs(u, i) * u.b.job_size \in Nat
           /\ ithr_njobs(u, i) * u.b.job_size <= SpacePerThread(u)
           /\ UsesSpace(u, i) =>
                /\ get_local_ptr(u, i).mem = "space"
                /\ get_local_ptr(u, i).off = OffsetFactor(u, i) * SpacePerThread(u)
           /\ ~UsesSpace(u, i) =>
                /\ get_local_ptr(u, i).mem = "dst"
                /\ get_local_ptr(u, i).off = ithr_job_off(u, i) * u.b.job_size
<1> DEFINE n == grp_njobs(u.b, u.g, group_id(u, i))
           ub == u.g.njobs_per_group_ub
           J == u.b.job_size
<1>1. ub \in Nat /\ n \in 1..ub
  BY PlaceInGroup, GroupJobs, Zenon DEF IsBalanced, Sensible
<1>2. J \in Nat
  BY Zenon DEF IsBalanced, Sensible
<1>3. SpacePerThread(u) = ub * J /\ ithr_njobs(u, i) = n
  BY Zenon DEF SpacePerThread, space_per_thread, ithr_njobs
<1>4. /\ UsesSpace(u, i) =>
            /\ get_local_ptr(u, i).mem = "space"
            /\ get_local_ptr(u, i).off = OffsetFactor(u, i) * SpacePerThread(u)
      /\ ~UsesSpace(u, i) =>
            /\ get_local_ptr(u, i).mem = "dst"
            /\ get_local_ptr(u, i).off = ithr_job_off(u, i) * u.b.job_size
  BY Zenon DEF get_local_ptr, UsesSpace, OffsetFactor
<1> HIDE DEF n, ub
<1>5. n * J <= ub * J
  BY <1>1, <1>2, MulMono
<1> QED
  BY <1>1, <1>2, <1>3, <1>4, <1>5

\* No two threads, of one group or of two, put their partial results in the
\* same place, and what init_scratchpad books is enough.
LEMMA BalancedIsDisjoint ==
    ASSUME NEW u, IsBalanced(u)
    PROVE  DisjointPartials(u)
<1> DEFINE G == u.g.ngroups
           P == u.g.nthr_per_group
           J == u.b.job_size
           S == SpacePerThread(u)
           ptr(i) == get_local_ptr(u, i)
           size(i) == ithr_njobs(u, i) * J
           end(i) == ptr(i).off + size(i)
           room(i) == IF ptr(i).mem = "dst" THEN DstSize(u) ELSE SpaceSize(u)
<1> SUFFICES ASSUME NEW i \in 0..(G * P - 1)
             PROVE  /\ end(i) <= room(i)
                    /\ \A j \in 0..(i - 1) :
                          ptr(i).mem = ptr(j).mem =>
                              end(i) <= ptr(j).off \/ end(j) <= ptr(i).off
  BY Zenon DEF DisjointPartials
<1>1. IsBalanced(u)
  BY Zenon
<1>2. /\ G \in Nat \ {0} /\ P \in Nat \ {0} /\ J \in Nat \ {0}
      /\ u.b.njobs \in Nat /\ u.kind \in {"1d", "2d"}
  BY <1>1 DEF IsBalanced, Sensible
<1>3. ASSUME NEW j \in 0..i PROVE j \in 0..(G * P - 1)
  BY <1>2
<1>4. ASSUME NEW j \in 0..i
      PROVE  /\ S \in Nat /\ size(j) \in Nat /\ size(j) <= S
             /\ UsesSpace(u, j) =>
                  ptr(j).mem = "space" /\ ptr(j).off = OffsetFactor(u, j) * S
             /\ ~UsesSpace(u, j) =>
                  ptr(j).mem = "dst" /\ ptr(j).off = ithr_job_off(u, j) * J
  BY <1>1, <1>3, LocalPtr, Zenon
<1>5. i \in 0..i /\ \A j \in 0..(i - 1) : j \in 0..i
  BY <1>2
<1>6. CASE UsesSpace(u, i)
  <2> DEFINE f == OffsetFactor(u, i)
             F(j) == OffsetFactor(u, j)
  <2>1. /\ f \in Nat /\ Owners(u) \in Nat /\ f + 1 <= G * Owners(u)
        /\ \A j \in 0..(i - 1) : UsesSpace(u, j) => F(j) \in Nat /\ F(j) + 1 <= f
    BY <1>1, <1>6, FactorsApart, Zenon
  <2>2. /\ ptr(i).mem = "space" /\ ptr(i).off = f * S
        /\ S \in Nat /\ size(i) \in Nat /\ size(i) <= S
    BY <1>4, <1>5, <1>6, Zenon
  <2>3. SpaceSize(u) = (G * Owners(u)) * S
    BY Zenon DEF SpaceSize
  <2>4. end(i) <= room(i)
    <3>1. room(i) = (G * Owners(u)) * S /\ end(i) = f * S + size(i)
      BY <2>2, <2>3, Zenon
    <3> HIDE DEF f, S, size, G, end, room
    <3>2. f + 1 \in Nat /\ G * Owners(u) \in Nat
      BY <1>2, <2>1
    <3>3. (f + 1) * S <= (G * Owners(u)) * S
      BY <2>1, <2>2, <3>2, MulMono, Zenon
    <3>4. (f + 1) * S = f * S + S /\ f * S \in Nat /\ (G * Owners(u)) * S \in Nat
      BY <2>1, <2>2, <3>2
    <3> QED
      BY <2>2, <3>1, <3>3, <3>4
  <2>5. ASSUME NEW j \in 0..(i - 1), ptr(i).mem = ptr(j).mem
        PROVE  end(j) <= ptr(i).off
    <3>1. UsesSpace(u, j)
      BY <1>4, <1>5, <2>2, <2>5, Zenon
    <3>2. /\ F(j) \in Nat /\ F(j) + 1 <= f
          /\ ptr(j).off = F(j) * S /\ size(j) \in Nat /\ size(j) <= S
      BY <1>4, <1>5, <2>1, <3>1, Zenon
    <3>3. end(j) = F(j) * S + size(j)
      BY <3>2, Zenon
    <3> HIDE DEF f, F, S, size, end, ptr
    <3>4. (F(j) + 1) * S <= f * S
      BY <2>1, <2>2, <3>2, MulMono
    <3>5. (F(j) + 1) * S = F(j) * S + S /\ F(j) * S \in Nat /\ f * S \in Nat
      BY <2>1, <2>2, <3>2
    <3> QED
      BY <2>2, <3>2, <3>3, <3>4, <3>5
  <2> QED
    BY <2>4, <2>5, Zenon
<1>7. CASE ~UsesSpace(u, i)
  <2> DEFINE off(e) == grp_job_off(u.b, u.g, e)
             gi == group_id(u, i)
  <2>1. u.kind = "1d" /\ id_in_group(u, i) = 0
    BY <1>7, Zenon DEF UsesSpace
  <2>2. ptr(i).mem = "dst" /\ ptr(i).off = off(gi) * J
    BY <1>4, <1>5, <1>7, Zenon DEF ithr_job_off
  <2>3. gi \in 0..(G - 1) /\ i = P * gi
    BY <1>1, <1>2, <2>1, PlaceInGroup
  <2>4. /\ \A e \in 0..G : off(e) \in 0..u.b.njobs /\ \A d \in 0..e : off(d) <= off(e)
        /\ \A e \in 0..(G - 1) : /\ off(e + 1) = off(e) + grp_njobs(u.b, u.g, e)
                                 /\ grp_njobs(u.b, u.g, e) \in Nat
    <3>1. /\ u.b.njobs \in Nat \ {0}
          /\ u.g.ngroups \in 1..u.b.njobs
          /\ u.g.njobs_per_group_ub = DivUp(u.b.njobs, u.g.ngroups)
      BY <1>1, Zenon DEF IsBalanced, Sensible
    <3>2. \A e \in 0..G : off(e) \in 0..u.b.njobs /\ \A d \in 0..e : off(d) <= off(e)
      BY <3>1, GroupJobs, Zenon
    <3>3. /\ u.g.njobs_per_group_ub \in Nat
          /\ \A e \in 0..(G - 1) :
              /\ off(e + 1) = off(e) + grp_njobs(u.b, u.g, e)
              /\ grp_njobs(u.b, u.g, e) \in 1..u.g.njobs_per_group_ub
      BY <3>1, GroupJobs, Zenon
    <3> HIDE DEF off, G
    <3> QED
      BY <3>2, <3>3
  <2>5. ASSUME NEW j \in 0..i, ~UsesSpace(u, j)
        PROVE  /\ group_id(u, j) \in 0..(G - 1)
               /\ j = P * group_id(u, j)
               /\ end(j) = off(group_id(u, j) + 1) * J
    <3> DEFINE gj == group_id(u, j)
               nj == grp_njobs(u.b, u.g, gj)
    <3>1. id_in_group(u, j) = 0
      BY <2>5, Zenon DEF UsesSpace
    <3>2. gj \in 0..(G - 1) /\ j = P * gj
      BY <1>1, <1>2, <1>3, <3>1, PlaceInGroup
    <3>3. end(j) = off(gj) * J + nj * J
      BY <1>4, <2>5, Zenon DEF ithr_job_off, ithr_njobs
    <3>4. off(gj + 1) = off(gj) + nj /\ off(gj) \in Nat /\ nj \in Nat
      BY <1>2, <2>4, <3>2
    <3> HIDE DEF gj, nj, off, J, end
    <3>5. (off(gj) + nj) * J = off(gj) * J + nj * J
      BY <1>2, <3>4
    <3>6. end(j) = off(gj + 1) * J
      BY <3>3, <3>4, <3>5, Zenon
    <3> QED
      BY <3>2, <3>6, Zenon DEF gj
  <2>6. end(i) <= room(i)
    <3>1. room(i) = u.b.njobs * J
      BY <2>1, <2>2, Zenon DEF DstSize
    <3>2. end(i) = off(gi + 1) * J
      BY <1>5, <1>7, <2>5, Zenon
    <3>3. off(gi + 1) \in Nat /\ off(gi + 1) <= u.b.njobs
      BY <1>2, <2>3, <2>4
    <3> HIDE DEF off, gi, J, end, room
    <3>4. off(gi + 1) * J <= u.b.njobs * J
      BY <1>2, <3>3, MulMono, Zenon
    <3> QED
      BY <3>1, <3>2, <3>4, Zenon
  <2>7. ASSUME NEW j \in 0..(i - 1), ptr(i).mem = ptr(j).mem
        PROVE  end(j) <= ptr(i).off
    <3> DEFINE gj == group_id(u, j)
    <3>1. ~UsesSpace(u, j)
      BY <1>4, <1>5, <2>2, <2>7, Zenon
    <3>2. gj \in 0..(G - 1) /\ j = P * gj /\ end(j) = off(gj + 1) * J
      BY <1>5, <2>5, <3>1, Zenon
    <3> HIDE DEF gj, gi, off, J, end, ptr, G, P
    <3>3. gj + 1 <= gi
      <4>1. SUFFICES ASSUME gi <= gj PROVE FALSE
        BY <2>3, <3>2
      <4>2. gi * P <= gj * P
        BY <1>2, <2>3, <3>2, <4>1, MulMono
      <4>3. gi * P = P * gi /\ gj * P = P * gj
        BY <1>2, <2>3, <3>2
      <4> QED
        BY <2>3, <3>2, <4>2, <4>3
    <3>4. off(gj + 1) <= off(gi) /\ off(gj + 1) \in Nat /\ off(gi) \in Nat
      BY <1>2, <2>3, <2>4, <3>2, <3>3
    <3>5. off(gj + 1) * J <= off(gi) * J
      BY <1>2, <3>4, MulMono, Zenon
    <3> QED
      BY <2>2, <3>2, <3>5, Zenon
  <2> QED
    BY <2>6, <2>7, Zenon
<1> QED
  BY <1>6, <1>7, Zenon

-----------------------------------------------------------------------------
(* More on balance211: every element is in one part.                        *)

\* A set of natural numbers has a least one.
LEMMA LeastNumber ==
    ASSUME NEW S \in SUBSET Nat, S # {}
    PROVE  \E m \in S : \A k \in S : m <= k
<1>1. PICK m \in S : \A k \in S : ~(<<k, m>> \in OpToRel(<, Nat))
  BY NatLessThanWellFounded, WFMin, Zenon
<1>2. ASSUME NEW k \in S PROVE m <= k
  <2>1. k \in Nat /\ m \in Nat /\ <<k, m>> \in Nat \X Nat
    BY Zenon
  <2>2. ~(k < m)
    BY <1>1, <2>1, Zenon DEF OpToRel
  <2> QED
    BY <2>1, <2>2
<1> QED
  BY <1>2, Zenon

\* A quotient and a remainder are unique.
LEMMA DivUnique ==
    ASSUME NEW a \in Nat \ {0}, NEW p \in Nat, NEW q \in Nat,
           NEW s \in 0..(a - 1), NEW t \in 0..(a - 1), p * a + s = q * a + t
    PROVE  p = q /\ s = t
<1>1. ASSUME NEW x \in Nat, NEW y \in Nat, NEW v \in 0..(a - 1), NEW w \in 0..(a - 1),
             x * a + v = y * a + w, x < y
      PROVE  FALSE
  <2>1. (x + 1) * a <= y * a
    BY <1>1, MulMono
  <2>2. (x + 1) * a = x * a + a /\ x * a \in Nat /\ y * a \in Nat
    OBVIOUS
  <2> QED
    BY <1>1, <2>1, <2>2
<1>2. p = q
  BY <1>1
<1> QED
  BY <1>2

\* What q pieces of size a and a rest are divided into.
LEMMA DivOf ==
    ASSUME NEW a \in Nat \ {0}, NEW q \in Nat, NEW s \in 0..(a - 1)
    PROVE  (q * a + s) \div a = q /\ (q * a + s) % a = s
<1> DEFINE x == q * a + s
<1>1. x \in Nat
  OBVIOUS
<1>2. /\ x \div a \in Nat /\ x % a \in Nat /\ x % a < a
      /\ x = a * (x \div a) + (x % a)
  BY <1>1, DivFacts, Zenon
<1>3. x % a \in 0..(a - 1) /\ (x \div a) * a + (x % a) = q * a + s
  BY <1>2
<1> HIDE DEF x
<1>4. x \div a = q /\ x % a = s
  BY <1>2, <1>3, DivUnique, ZenonT(30)
<1> QED
  BY <1>4, Zenon DEF x

\* balance211 leaves no work over: everything is in somebody's part.
LEMMA Balance211Covers ==
    ASSUME NEW n \in Nat, NEW team \in Nat \ {0}, NEW x \in 0..(n - 1)
    PROVE  \E t \in 0..(team - 1) :
                x \in Balance211(n, team, t)[1]..(Balance211(n, team, t)[2] - 1)
<1> DEFINE from(t) == Balance211(n, team, t)[1]
           to(t) == Balance211(n, team, t)[2]
           S == {t \in 0..(team - 1) : x < to(t)}
<1>1. /\ from(0) = 0 /\ to(team - 1) = n
      /\ \A t \in 0..(team - 2) : to(t) = from(t + 1)
      /\ \A t \in 0..(team - 1) : from(t) \in Nat /\ from(t) <= to(t)
  BY Balance211Partition, Zenon
<1>t. ASSUME NEW t \in 0..(team - 1) PROVE to(t) \in Int
  <2>1. CASE t = team - 1
    BY <1>1, <2>1
  <2>2. CASE t # team - 1
    <3>1. t \in 0..(team - 2) /\ t + 1 \in 0..(team - 1)
      BY <2>2
    <3> QED
      BY <1>1, <3>1
  <2> QED
    BY <2>1, <2>2, Zenon
<1> HIDE DEF from, to
<1>2. S \in SUBSET Nat /\ S # {}
  <2>1. team - 1 \in S
    BY <1>1
  <2> QED
    BY <2>1
<1>3. PICK t \in S : \A k \in S : t <= k
  BY <1>2, LeastNumber, Zenon
<1>4. from(t) <= x
  <2>1. CASE t = 0
    BY <1>1, <2>1
  <2>2. CASE t # 0
    <3>1. t - 1 \in 0..(team - 2) /\ t - 1 \in 0..(team - 1) /\ (t - 1) + 1 = t
      BY <2>2
    <3>2. t - 1 \notin S
      BY <1>3, <3>1
    <3>3. ~(x < to(t - 1))
      BY <3>1, <3>2, Zenon
    <3>4. to(t - 1) = from(t) /\ from(t) \in Nat
      BY <1>1, <3>1, Zenon
    <3> QED
      BY <3>3, <3>4
  <2> QED
    BY <2>1, <2>2, Zenon
<1>5. t \in 0..(team - 1) /\ x < to(t) /\ to(t) \in Int /\ from(t) \in Nat
  BY <1>1, <1>t, Zenon
<1>6. x \in from(t)..(to(t) - 1)
  BY <1>4, <1>5
<1> QED
  BY <1>5, <1>6, Zenon DEF from, to

\* No two parts that balance211 gives out meet, and none ends after the last.
LEMMA Balance211Parts ==
    ASSUME NEW n \in Nat, NEW team \in Nat \ {0}, NEW t \in 0..(team - 1)
    PROVE  /\ Balance211(n, team, t)[1] \in 0..n
           /\ Balance211(n, team, t)[2] \in 0..n
           /\ Balance211(n, team, t)[1] <= Balance211(n, team, t)[2]
           /\ \A u \in 0..(team - 1), x \in Int :
                /\ x \in Balance211(n, team, t)[1]..(Balance211(n, team, t)[2] - 1)
                /\ x \in Balance211(n, team, u)[1]..(Balance211(n, team, u)[2] - 1)
                => t = u
<1> DEFINE from(v) == Balance211(n, team, v)[1]
           to(v) == Balance211(n, team, v)[2]
<1>1. /\ to(team - 1) = n
      /\ \A v \in 0..(team - 2) : to(v) = from(v + 1)
      /\ \A v \in 0..(team - 1) : \A u \in 0..(v - 1) : to(u) <= from(v)
      /\ \A v \in 0..(team - 1) : from(v) \in Nat /\ from(v) <= to(v)
  BY Balance211Partition, Zenon
<1> HIDE DEF from, to
<1>2. ASSUME NEW v \in 0..(team - 1) PROVE to(v) \in 0..n
  <2>1. CASE v = team - 1
    BY <1>1, <2>1
  <2>2. CASE v # team - 1
    <3>1. v \in 0..(team - 2) /\ v + 1 \in 0..(team - 1) /\ team - 1 \in 0..(team - 1)
          /\ v \in 0..((team - 1) - 1)
      BY <2>2
    <3>2. to(v) = from(v + 1) /\ from(v + 1) \in Nat
      BY <1>1, <3>1, Zenon
    <3>3. to(v) <= from(team - 1) /\ from(team - 1) <= to(team - 1) /\ from(team - 1) \in Nat
      BY <1>1, <3>1, Zenon
    <3> QED
      BY <1>1, <3>2, <3>3
  <2> QED
    BY <2>1, <2>2, Zenon
<1>3. from(t) \in 0..n /\ to(t) \in 0..n /\ from(t) <= to(t)
  BY <1>1, <1>2
<1>4. ASSUME NEW u \in 0..(team - 1), NEW x \in Int,
             x \in from(t)..(to(t) - 1), x \in from(u)..(to(u) - 1)
      PROVE  t = u
  <2>0. /\ to(u) \in Int /\ to(t) \in Int /\ from(u) \in Int /\ from(t) \in Int
        /\ from(t) <= x /\ x < to(t) /\ from(u) <= x /\ x < to(u)
    BY <1>1, <1>2, <1>4
  <2>1. CASE u < t
    <3>1. u \in 0..(t - 1)
      BY <2>1
    <3>2. to(u) <= from(t)
      BY <1>1, <3>1, Zenon
    <3> QED
      BY <2>0, <3>2
  <2>2. CASE t < u
    <3>1. t \in 0..(u - 1)
      BY <2>2
    <3>2. to(t) <= from(u)
      BY <1>1, <3>1, Zenon
    <3> QED
      BY <2>0, <3>2
  <2> QED
    BY <2>1, <2>2
<1> QED
  BY <1>3, <1>4, Zenon DEF from, to

\* The same, for one element.
LEMMA Balance211Apart ==
    ASSUME NEW n \in Nat, NEW team \in Nat \ {0}, NEW t \in 0..(team - 1),
           NEW u \in 0..(team - 1), NEW x \in Int,
           x \in Balance211(n, team, t)[1]..(Balance211(n, team, t)[2] - 1),
           x \in Balance211(n, team, u)[1]..(Balance211(n, team, u)[2] - 1)
    PROVE  t = u
  BY Balance211Parts, Zenon

-----------------------------------------------------------------------------
(* The elements that the threads of a group of a cpu_reducer_t sum up.      *)

\* A quotient is at least q when the dividend is at least q times the divisor.
LEMMA DivAtLeast ==
    ASSUME NEW a \in Nat, NEW d \in Nat \ {0}, NEW q \in Nat
    PROVE  q * d <= a <=> q <= a \div d
<1>1. a \div d \in Nat /\ d * (a \div d) <= a
  BY DivFacts, Zenon
<1>2. ASSUME q <= a \div d PROVE q * d <= a
  <2>1. q * d <= (a \div d) * d
    BY <1>1, <1>2, MulMono, Zenon
  <2>2. (a \div d) * d = d * (a \div d) /\ q * d \in Nat /\ d * (a \div d) \in Nat
    BY <1>1
  <2> QED
    BY <1>1, <2>1, <2>2
<1> QED
  BY <1>2, DivLower, Zenon

\* What reduce_nolock of the reducer's kind sums up in thread i.
SumsOf(r, i) == IF r.kind = "1d" THEN Reduce1d(r, i) ELSE Reduce2d(r, i)

\* The threads of a group share out the elements of the group's jobs: each goes
\* to one thread, whose sum is of that element of the partial results.
SharesOut(r, grp) ==
    LET P == r.g.nthr_per_group
        all == JobElements(r, grp * P)
    IN  /\ \A p, q \in all : p[1] = q[1] => p = q
        /\ \A p \in all : \E d \in 0..(DstSize(r) - 1),
                             e \in 0..(grp_njobs(r.b, r.g, grp) * r.b.job_size - 1) :
                                p = <<d, e>>
        /\ \A t \in 0..(P - 1) : SumsOf(r, grp * P + t) \subseteq all
        /\ \A p \in all : \E t \in 0..(P - 1) : p \in SumsOf(r, grp * P + t)
        /\ \A t, v \in 0..(P - 1) : \A p \in all :
                p \in SumsOf(r, grp * P + t) /\ p \in SumsOf(r, grp * P + v) => t = v

\* Thread t of group grp.
LEMMA GroupMember ==
    ASSUME NEW r, IsBalanced(r), NEW grp \in 0..(r.g.ngroups - 1),
           NEW t \in 0..(r.g.nthr_per_group - 1),
           NEW i, i = grp * r.g.nthr_per_group + t
    PROVE  /\ i \in 0..(r.g.ngroups * r.g.nthr_per_group - 1)
           /\ group_id(r, i) = grp
           /\ id_in_group(r, i) = t
           /\ i - t = grp * r.g.nthr_per_group
           /\ ithr_njobs(r, i) = grp_njobs(r.b, r.g, grp)
           /\ ithr_job_off(r, i) = grp_job_off(r.b, r.g, grp)
<1> DEFINE G == r.g.ngroups
           P == r.g.nthr_per_group
<1>1. G \in Nat \ {0} /\ P \in Nat \ {0}
  BY DEF IsBalanced, Sensible
<1>2. grp \in Nat /\ t \in Nat /\ grp + 1 <= G /\ t < P /\ i = grp * P + t
  BY <1>1
<1> HIDE DEF G, P
<1>3. i \in 0..(G * P - 1) /\ i - t = grp * P
  <2>1. (grp + 1) * P <= G * P
    BY <1>1, <1>2, MulMono
  <2>2. (grp + 1) * P = grp * P + P /\ grp * P \in Nat /\ G * P \in Nat
    BY <1>1, <1>2
  <2> QED
    BY <1>1, <1>2, <2>1, <2>2
<1>4. i \div P = grp /\ i % P = t
  BY <1>1, <1>2, DivOf
<1>5. group_id(r, i) = grp /\ id_in_group(r, i) = t
  BY <1>4, Zenon DEF group_id, id_in_group, P
<1>6. /\ ithr_njobs(r, i) = grp_njobs(r.b, r.g, grp)
      /\ ithr_job_off(r, i) = grp_job_off(r.b, r.g, grp)
  BY <1>5, Zenon DEF ithr_njobs, ithr_job_off
<1> QED
  BY <1>3, <1>5, <1>6, Zenon DEF G, P

\* A group has some of the jobs, in their order.
LEMMA GroupHasJobs ==
    ASSUME NEW r, IsBalanced(r), NEW grp \in 0..(r.g.ngroups - 1)
    PROVE  /\ grp_njobs(r.b, r.g, grp) \in Nat \ {0}
           /\ grp_job_off(r.b, r.g, grp) \in Nat
           /\ grp_job_off(r.b, r.g, grp) + grp_njobs(r.b, r.g, grp) <= r.b.njobs
           /\ r.b.job_size \in Nat \ {0}
           /\ r.b.njobs \in Nat \ {0}
           /\ r.g.nthr_per_group \in Nat \ {0}
<1>1. /\ r.b.njobs \in Nat \ {0} /\ r.b.job_size \in Nat \ {0}
      /\ r.g.ngroups \in 1..r.b.njobs
      /\ r.g.nthr_per_group \in Nat \ {0}
      /\ r.g.njobs_per_group_ub = DivUp(r.b.njobs, r.g.ngroups)
  BY Zenon DEF IsBalanced, Sensible
<1>2. /\ r.g.njobs_per_group_ub \in Nat
      /\ \A e \in 0..r.g.ngroups : grp_job_off(r.b, r.g, e) \in 0..r.b.njobs
      /\ grp_job_off(r.b, r.g, grp + 1)
            = grp_job_off(r.b, r.g, grp) + grp_njobs(r.b, r.g, grp)
      /\ grp_njobs(r.b, r.g, grp) \in 1..r.g.njobs_per_group_ub
  BY <1>1, GroupJobs, Zenon
<1>3. grp \in 0..r.g.ngroups /\ grp + 1 \in 0..r.g.ngroups
  BY <1>1
<1>4. grp_job_off(r.b, r.g, grp) \in 0..r.b.njobs /\ grp_job_off(r.b, r.g, grp + 1) \in 0..r.b.njobs
  BY <1>2, <1>3, Zenon
<1> QED
  BY <1>1, <1>2, <1>4

\* cpu_reducer_t: every element of the group's jobs is in a cache line, and
\* every line is in the part of one thread.
LEMMA SharesOut1d ==
    ASSUME NEW r, IsBalanced(r), r.kind = "1d", NEW grp \in 0..(r.g.ngroups - 1)
    PROVE  SharesOut(r, grp)
<1> DEFINE P == r.g.nthr_per_group
           J == r.b.job_size
           n == grp_njobs(r.b, r.g, grp)
           off == grp_job_off(r.b, r.g, grp)
           size == n * J
           L == DivUp(size, Line)
           lines(t) == Balance211(L, P, t)
           all == JobElements(r, grp * P)
           mine(t) == (lines(t)[1] * Line)..(Least(lines(t)[2] * Line, size) - 1)
           Sums(t) == SumsOf(r, grp * P + t)
<1>1. /\ n \in Nat \ {0} /\ off \in Nat /\ off + n <= r.b.njobs
      /\ J \in Nat \ {0} /\ P \in Nat \ {0} /\ r.b.njobs \in Nat
  BY GroupHasJobs, Zenon
<1>2. size \in Nat /\ off * J \in Nat
  BY <1>1
<1>3. L \in Nat /\ size <= Line * L
  BY <1>2, LineAssumption, DivUpFacts, Zenon
<1>4. all = {<<off * J + e, e>> : e \in 0..(size - 1)}
  <2>1. 0 \in 0..(P - 1) /\ grp * P = grp * P + 0 /\ grp * P \in Nat
    BY <1>1
  <2>2. ithr_njobs(r, grp * P) = n /\ ithr_job_off(r, grp * P) = off
    BY <2>1, GroupMember
  <2> QED
    BY <2>2, Zenon DEF JobElements
<1>5. ASSUME NEW t \in 0..(P - 1)
      PROVE  Sums(t) = {<<off * J + e, e>> : e \in mine(t)}
  <2> DEFINE i == grp * P + t
  <2>1. /\ id_in_group(r, i) = t /\ i - t = grp * P
        /\ ithr_njobs(r, i) = n
    BY GroupMember
  <2>2. 0 \in 0..(P - 1) /\ grp * P = grp * P + 0 /\ grp * P \in Nat
    BY <1>1
  <2>3. id_in_group(r, grp * P) = 0 /\ ithr_job_off(r, grp * P) = off
    BY <2>2, GroupMember
  <2>4. get_local_ptr(r, grp * P).off = off * J
    BY <2>3, Zenon DEF get_local_ptr
  <2> HIDE DEF i
  <2>5. Reduce1d(r, i) = {<<off * J + e, e>> : e \in mine(t)}
    BY <2>1, <2>4, Zenon DEF Reduce1d
  <2> QED
    BY <2>5, Zenon DEF SumsOf, i
<1> HIDE DEF L, size, n, off, J, P, lines, all, Sums
<1>6. ASSUME NEW t \in 0..(P - 1), NEW e \in 0..(size - 1)
      PROVE  e \in mine(t) <=> e \div Line \in lines(t)[1]..(lines(t)[2] - 1)
  <2>1. lines(t)[1] \in Nat /\ lines(t)[2] \in Nat
    BY <1>1, <1>3, Balance211Parts DEF lines
  <2>2. PICK l1 \in Nat, l2 \in Nat : l1 = lines(t)[1] /\ l2 = lines(t)[2]
    BY <2>1, Zenon
  <2>3. e \in Nat /\ e < size /\ Line \in Nat \ {0} /\ e \div Line \in Nat
    BY <1>2, LineAssumption, DivFacts
  <2>4. (l1 * Line <= e <=> l1 <= e \div Line) /\ (l2 * Line <= e <=> l2 <= e \div Line)
    BY <2>3, DivAtLeast, Zenon
  <2>5. l1 * Line \in Nat /\ l2 * Line \in Nat
    BY <2>3
  <2>6. mine(t) = (l1 * Line)..(Least(l2 * Line, size) - 1)
    BY <2>2, Zenon
  <2>7. e \in mine(t) <=> (l1 * Line <= e /\ ~(l2 * Line <= e))
    <3>1. \A x, y, z, w \in Nat : w < z => (w \in x..(Least(y, z) - 1) <=> x <= w /\ ~(y <= w))
      BY DEF Least
    <3> QED
      BY <1>2, <2>3, <2>5, <2>6, <3>1, ZenonT(30)
  <2>8. e \div Line \in l1..(l2 - 1) <=> (l1 <= e \div Line /\ ~(l2 <= e \div Line))
    BY <2>3
  <2> QED
    BY <2>2, <2>4, <2>7, <2>8, Zenon
<1>7. ASSUME NEW t \in 0..(P - 1) PROVE mine(t) \subseteq 0..(size - 1)
  <2>1. lines(t)[1] \in Nat /\ lines(t)[2] \in Nat
    BY <1>1, <1>3, Balance211Parts DEF lines
  <2>2. PICK l1 \in Nat, l2 \in Nat : l1 = lines(t)[1] /\ l2 = lines(t)[2]
    BY <2>1, Zenon
  <2>3. l1 * Line \in Nat /\ l2 * Line \in Nat
    BY LineAssumption
  <2> QED
    BY <1>2, <2>2, <2>3 DEF Least
<1> HIDE DEF mine
<1>8. \A p, q \in all : p[1] = q[1] => p = q
  BY <1>2, <1>4
<1>9. \A p \in all : \E d \in 0..(DstSize(r) - 1), e \in 0..(size - 1) : p = <<d, e>>
  <2>1. DstSize(r) = r.b.njobs * J
    BY Zenon DEF DstSize, J
  <2>2. (off + n) * J <= r.b.njobs * J
    BY <1>1, MulMono
  <2>3. (off + n) * J = off * J + size /\ r.b.njobs * J \in Nat
    BY <1>1 DEF size
  <2>4. ASSUME NEW e \in 0..(size - 1) PROVE off * J + e \in 0..(DstSize(r) - 1)
    BY <1>2, <2>1, <2>2, <2>3
  <2> QED
    BY <1>4, <2>4, Zenon
<1>10. \A t \in 0..(P - 1) : Sums(t) \subseteq all
  BY <1>4, <1>5, <1>7
<1>11. \A p \in all : \E t \in 0..(P - 1) : p \in Sums(t)
  <2> SUFFICES ASSUME NEW e \in 0..(size - 1)
               PROVE  \E t \in 0..(P - 1) : <<off * J + e, e>> \in Sums(t)
    BY <1>4, Zenon
  <2>1. e \in Nat /\ e < size /\ Line \in Nat \ {0}
    BY <1>2, LineAssumption
  <2>2. e \div Line \in 0..(L - 1)
    <3>1. e \div Line \in Nat
      BY <2>1, DivFacts, Zenon
    <3>2. L * Line <= e <=> L <= e \div Line
      BY <1>3, <2>1, DivAtLeast, Zenon
    <3>3. L * Line = Line * L /\ Line * L \in Nat
      BY <1>3, <2>1
    <3> QED
      BY <1>2, <1>3, <2>1, <3>1, <3>2, <3>3
  <2>3. PICK t \in 0..(P - 1) : e \div Line \in lines(t)[1]..(lines(t)[2] - 1)
    BY <1>1, <1>3, <2>2, Balance211Covers, Zenon DEF lines
  <2>4. e \in mine(t)
    BY <1>6, <2>3, Zenon
  <2> QED
    BY <1>5, <2>4, Zenon
<1>12. ASSUME NEW t \in 0..(P - 1), NEW v \in 0..(P - 1), NEW p \in all,
              p \in Sums(t), p \in Sums(v)
       PROVE  t = v
  <2>1. PICK e \in mine(t) : p = <<off * J + e, e>>
    BY <1>5, <1>12, Zenon
  <2>2. PICK f \in mine(v) : p = <<off * J + f, f>>
    BY <1>5, <1>12, Zenon
  <2>3. e = f /\ e \in 0..(size - 1)
    BY <1>7, <2>1, <2>2
  <2>4. /\ e \div Line \in lines(t)[1]..(lines(t)[2] - 1)
        /\ e \div Line \in lines(v)[1]..(lines(v)[2] - 1)
    BY <1>6, <2>3, Zenon
  <2>5. e \div Line \in Int
    BY <1>2, <2>3, LineAssumption, DivFacts
  <2> QED
    BY <1>1, <1>3, <2>4, <2>5, Balance211Parts, Zenon DEF lines
<1> QED
  BY <1>8, <1>9, <1>10, <1>11, <1>12, Zenon DEF SharesOut, P, all, Sums, size, n, J

-----------------------------------------------------------------------------
(* The loop of choose_x_blocking.                                           *)

\* A pass of the loop of choose_x_blocking, g being the result from then on.
ShrinkStep(min, g, n) ==
    IF (n % 2) = 0 /\ n >= min * 2 THEN g[n \div 2]
    ELSE IF (n % 3) = 0 /\ n >= min * 3 THEN g[n \div 3]
    ELSE n

\* The loop makes its number smaller.
LEMMA ShrinkStepSmaller ==
    ASSUME NEW min \in Nat \ {0}, NEW n \in Nat
    PROVE  /\ (n % 2) = 0 /\ n >= min * 2 =>
                n \div 2 \in 0..(n - 1) /\ n \div 2 # 0 /\ n = (n \div 2) * 2
           /\ (n % 3) = 0 /\ n >= min * 3 =>
                n \div 3 \in 0..(n - 1) /\ n \div 3 # 0 /\ n = (n \div 3) * 3
  OBVIOUS

\* It depends on the result for smaller numbers only.
LEMMA ShrinkStepLocal ==
    ASSUME NEW min \in Nat \ {0}, NEW n \in Nat, NEW f, NEW g,
           \A m \in 0..(n - 1) : f[m] = g[m]
    PROVE  ShrinkStep(min, f, n) = ShrinkStep(min, g, n)
  BY ShrinkStepSmaller, Zenon DEF ShrinkStep

\* The results for the numbers up to n.
ShrinkUpTo(min, n) ==
    {f \in [0..n -> Nat] : \A m \in 0..n : f[m] = ShrinkStep(min, f, m)}

\* There are such results, and they are unique.
LEMMA ShrinkUpToExists ==
    ASSUME NEW min \in Nat \ {0}
    PROVE  \A n \in Nat : ShrinkUpTo(min, n) # {}
<1> DEFINE S == {n \in Nat : ShrinkUpTo(min, n) = {}}
<1> SUFFICES ASSUME S # {} PROVE FALSE
  BY Zenon
<1>1. PICK n \in S : \A k \in S : n <= k
  BY LeastNumber, Zenon
<1>2. CASE n = 0
  <2> DEFINE f == [m \in 0..0 |-> 0]
  <2>1. f \in [0..0 -> Nat] /\ \A m \in 0..0 : m = 0
    OBVIOUS
  <2>2. ShrinkStep(min, f, 0) = 0
    BY DEF ShrinkStep
  <2>3. f[0] = 0
    OBVIOUS
  <2>4. \A m \in 0..0 : f[m] = ShrinkStep(min, f, m)
    BY <2>1, <2>2, <2>3, Zenon
  <2>5. f \in ShrinkUpTo(min, 0)
    BY <2>1, <2>4, Zenon DEF ShrinkUpTo
  <2> QED
    BY <1>2, <2>5, Zenon
<1>3. CASE n # 0
  <2>1. n \in Nat /\ n - 1 \in Nat /\ n - 1 \notin S
    BY <1>1, <1>3
  <2>2. PICK g \in ShrinkUpTo(min, n - 1) : TRUE
    BY <2>1, Zenon
  <2>3. g \in [0..(n - 1) -> Nat] /\ \A m \in 0..(n - 1) : g[m] = ShrinkStep(min, g, m)
    BY <2>2, Zenon DEF ShrinkUpTo
  <2> DEFINE f == [m \in 0..n |-> IF m = n THEN ShrinkStep(min, g, n) ELSE g[m]]
  <2>4. ShrinkStep(min, g, n) \in Nat
    BY <2>1, <2>3, ShrinkStepSmaller, Zenon DEF ShrinkStep
  <2>5. f \in [0..n -> Nat]
    BY <2>1, <2>3, <2>4
  <2>6. \A m \in 0..(n - 1) : f[m] = g[m]
    BY <2>1
  <2>7. ASSUME NEW m \in 0..n PROVE f[m] = ShrinkStep(min, f, m)
    <3>0. m \in Nat /\ \A k \in 0..(m - 1) : f[k] = g[k]
      BY <2>1, <2>6
    <3>1. ShrinkStep(min, f, m) = ShrinkStep(min, g, m)
      BY <3>0, ShrinkStepLocal, Zenon
    <3>2. CASE m = n
      BY <3>1, <3>2, Zenon
    <3>3. CASE m # n
      <4>1. m \in 0..(n - 1)
        BY <2>1, <3>3
      <4> QED
        BY <2>3, <2>6, <3>1, <4>1, Zenon
    <3> QED
      BY <3>2, <3>3, Zenon
  <2>8. f \in ShrinkUpTo(min, n)
    BY <2>5, <2>7, Zenon DEF ShrinkUpTo
  <2> QED
    BY <2>8, Zenon
<1> QED
  BY <1>2, <1>3, Zenon

\* There is one such function.
LEMMA ShrinkUpToUnique ==
    ASSUME NEW min \in Nat \ {0}, NEW n \in Nat, NEW k \in 0..n,
           NEW f \in ShrinkUpTo(min, n), NEW g \in ShrinkUpTo(min, k)
    PROVE  \A m \in 0..k : f[m] = g[m]
<1> DEFINE S == {m \in 0..k : f[m] # g[m]}
<1> SUFFICES ASSUME S # {} PROVE FALSE
  BY Zenon
<1>0. S \in SUBSET Nat
  OBVIOUS
<1>1. PICK m \in S : \A j \in S : m <= j
  BY <1>0, LeastNumber, Zenon
<1>2. m \in 0..k /\ m \in 0..n /\ m \in Nat
  OBVIOUS
<1>3. \A j \in 0..(m - 1) : f[j] = g[j]
  BY <1>1, <1>2
<1>4. ShrinkStep(min, f, m) = ShrinkStep(min, g, m)
  BY <1>2, <1>3, ShrinkStepLocal, Zenon
<1>5. f[m] = g[m]
  BY <1>2, <1>4, Zenon DEF ShrinkUpTo
<1> QED
  BY <1>5, Zenon

\* The loop has a result for every number.
LEMMA ShrinkFunction ==
    ASSUME NEW min \in Nat \ {0}
    PROVE  \E f : f = [n \in Nat |-> ShrinkStep(min, f, n)]
<1> DEFINE h(n) == CHOOSE f \in ShrinkUpTo(min, n) : TRUE
           F == [n \in Nat |-> h(n)[n]]
<1>1. \A n \in Nat : h(n) \in ShrinkUpTo(min, n)
  BY ShrinkUpToExists, Zenon
<1> HIDE DEF h
<1>2. ASSUME NEW n \in Nat PROVE F[n] = ShrinkStep(min, F, n)
  <2>1. ASSUME NEW m \in 0..n PROVE F[m] = h(n)[m]
    <3>1. m \in Nat /\ h(m) \in ShrinkUpTo(min, m) /\ h(n) \in ShrinkUpTo(min, n) /\ m \in 0..m
      BY <1>1
    <3>2. h(n)[m] = h(m)[m]
      BY <3>1, ShrinkUpToUnique
    <3> QED
      BY <3>1, <3>2, Zenon
  <2>2. \A m \in 0..(n - 1) : F[m] = h(n)[m]
    BY <2>1
  <2>3. ShrinkStep(min, F, n) = ShrinkStep(min, h(n), n)
    BY <2>2, ShrinkStepLocal, Zenon
  <2>4. h(n)[n] = ShrinkStep(min, h(n), n)
    BY <1>1 DEF ShrinkUpTo
  <2> QED
    BY <2>1, <2>3, <2>4, Zenon
<1>3. F = [n \in Nat |-> ShrinkStep(min, F, n)]
  BY <1>2, Zenon
<1> QED
  BY <1>3, Zenon

\* The result of the loop divides the number it begins with.
LEMMA ShrinkDivides ==
    ASSUME NEW min \in Nat \ {0}, NEW x \in Nat \ {0}
    PROVE  /\ Shrink(x, min) \in Nat \ {0}
           /\ \E k \in Nat \ {0} : x = k * Shrink(x, min)
<1> DEFINE F == CHOOSE f : f = [n \in Nat |->
                    IF (n % 2) = 0 /\ n >= min * 2 THEN f[n \div 2]
                    ELSE IF (n % 3) = 0 /\ n >= min * 3 THEN f[n \div 3]
                    ELSE n]
<1>1. F = [n \in Nat |-> ShrinkStep(min, F, n)]
  BY ShrinkFunction, Zenon DEF ShrinkStep
<1>2. Shrink(x, min) = F[x]
  BY Zenon DEF Shrink
<1> HIDE DEF F
<1>3. \A n \in Nat : F[n] = ShrinkStep(min, F, n)
  BY <1>1, Zenon
<1> DEFINE Good(n) == F[n] \in Nat \ {0} /\ \E k \in Nat \ {0} : n = k * F[n]
           S == {n \in Nat \ {0} : ~Good(n)}
<1>4. S = {}
  <2> SUFFICES ASSUME S # {} PROVE FALSE
    BY Zenon
  <2>1. PICK n \in S : \A k \in S : n <= k
    BY LeastNumber, Zenon
  <2>2. n \in Nat \ {0} /\ ~Good(n) /\ \A m \in 1..(n - 1) : Good(m)
    BY <2>1
  <2>3. ASSUME NEW d \in {2, 3}, n = (n \div d) * d, n \div d \in 0..(n - 1), n \div d # 0,
               F[n] = F[n \div d]
        PROVE  FALSE
    <3>1. Good(n \div d)
      BY <2>2, <2>3
    <3>2. PICK k \in Nat \ {0} : n \div d = k * F[n \div d]
      BY <3>1, Zenon
    <3>3. n = (k * F[n]) * d /\ F[n] \in Nat \ {0}
      BY <2>3, <3>1, <3>2, Zenon
    <3>4. n = (k * d) * F[n] /\ k * d \in Nat \ {0}
      BY <3>3
    <3>5. Good(n)
      BY <3>3, <3>4, Zenon
    <3> QED
      BY <2>2, <3>5, Zenon
  <2>4. F[n] # n
    <3>1. SUFFICES ASSUME F[n] = n PROVE FALSE
      BY Zenon
    <3>2. n = 1 * F[n] /\ F[n] \in Nat \ {0}
      BY <2>2, <3>1
    <3>3. Good(n)
      BY <3>2
    <3> QED
      BY <2>2, <3>3, Zenon
  <2>5. F[n] = ShrinkStep(min, F, n)
    BY <1>3, <2>2, Zenon
  <2>6. CASE (n % 2) = 0 /\ n >= min * 2
    <3>1. F[n] = F[n \div 2]
      BY <2>5, <2>6, Zenon DEF ShrinkStep
    <3> QED
      BY <2>2, <2>3, <2>6, <3>1, ShrinkStepSmaller, Zenon
  <2>7. CASE ~((n % 2) = 0 /\ n >= min * 2) /\ (n % 3) = 0 /\ n >= min * 3
    <3>1. F[n] = F[n \div 3]
      BY <2>5, <2>7, Zenon DEF ShrinkStep
    <3> QED
      BY <2>2, <2>3, <2>7, <3>1, ShrinkStepSmaller, Zenon
  <2>8. CASE ~((n % 2) = 0 /\ n >= min * 2) /\ ~((n % 3) = 0 /\ n >= min * 3)
    BY <2>4, <2>5, <2>8, Zenon DEF ShrinkStep
  <2> QED
    BY <2>6, <2>7, <2>8, Zenon
<1>5. Good(x)
  BY <1>4, Zenon
<1> QED
  BY <1>2, <1>5, Zenon

-----------------------------------------------------------------------------
(* The jobs of a cpu_reducer_2d_t: boxes that its result is cut into.       *)

\* A cpu_reducer_2d_t: its jobs are what its result is cut into, in rows of
\* whole blocks.
Is2d(r) ==
    /\ IsBalanced(r)
    /\ r.kind = "2d"
    /\ r.b.job_size_x \in Nat \ {0} /\ r.b.job_size_y \in Nat \ {0}
    /\ r.b.dst_x \in Nat \ {0} /\ r.b.dst_y \in Nat \ {0}
    /\ r.b.x_block \in Nat \ {0}
    /\ r.b.job_size = r.b.job_size_x * r.b.job_size_y
    /\ r.b.njobs = DivUp(r.b.dst_x, r.b.job_size_x) * DivUp(r.b.dst_y, r.b.job_size_y)
    /\ r.b.job_size_x % r.b.x_block = 0 /\ r.b.dst_x % r.b.x_block = 0

\* The pieces of size s that a length of d is cut into: one that begins before
\* the last ends is not empty.
LEMMA Pieces ==
    ASSUME NEW d \in Nat \ {0}, NEW s \in Nat \ {0}, NEW k \in 0..(DivUp(d, s) - 1)
    PROVE  /\ k * s \in Nat
           /\ Least(d - k * s, s) \in 1..s
           /\ k * s + Least(d - k * s, s) <= d
<1>1. DivUp(d, s) \in Nat /\ s * DivUp(d, s) < d + s
  BY DivUpFacts, Zenon
<1>2. (k + 1) * s <= DivUp(d, s) * s
  BY <1>1, MulMono
<1>3. (k + 1) * s = k * s + s /\ k * s \in Nat /\ DivUp(d, s) * s = s * DivUp(d, s)
  BY <1>1
<1>4. k * s < d
  BY <1>1, <1>2, <1>3
<1>5. \A x \in Nat : x < d => Least(d - x, s) \in 1..s /\ x + Least(d - x, s) <= d
  BY DEF Least
<1> QED
  BY <1>3, <1>4, <1>5, Zenon

\* The remainder of a difference of multiples.
LEMMA MultiplesLess ==
    ASSUME NEW a \in Nat \ {0}, NEW x \in Nat, NEW y \in Nat, x % a = 0, y % a = 0,
           NEW k \in Nat, x - k * y \in Nat
    PROVE  (x - k * y) % a = 0
<1> DEFINE p == x \div a
           q == y \div a
<1>1. p \in Nat /\ q \in Nat /\ x = a * p + 0 /\ y = a * q + 0
  BY DivFacts
<1> HIDE DEF p, q
<1>2. k * q \in Nat /\ k * y = (k * q) * a /\ x = p * a
  BY <1>1
<1>3. PICK m \in Nat : m = k * q
  BY <1>2, Zenon
<1>4. x - k * y = (p - m) * a
  BY <1>1, <1>2, <1>3
<1>5. p - m \in Nat
  <2>1. SUFFICES ASSUME p + 1 <= m PROVE FALSE
    BY <1>1, <1>3
  <2>2. (p + 1) * a <= m * a
    BY <1>1, <2>1, MulMono
  <2>3. (p + 1) * a = p * a + a /\ p * a \in Nat /\ m * a \in Nat
    BY <1>1
  <2>4. p * a - m * a \in Nat
    BY <1>2, <1>3, Zenon
  <2> QED
    BY <2>2, <2>3, <2>4
<1>6. PICK j \in Nat : j = p - m
  BY <1>5, Zenon
<1>7. j * a + 0 = x - k * y /\ 0 \in 0..(a - 1)
  BY <1>4, <1>6
<1>8. (j * a + 0) % a = 0
  BY <1>7, DivOf, Zenon
<1> QED
  BY <1>7, <1>8, Zenon

\* Where a job is: in one piece of the result each way, of rows of whole blocks.
LEMMA BoxFacts ==
    ASSUME NEW r, Is2d(r), NEW grp \in 0..(r.g.ngroups - 1),
           NEW i, ithr_job_off(r, i) = grp_job_off(r.b, r.g, grp),
           NEW job \in 0..(grp_njobs(r.b, r.g, grp) - 1),
           NEW box, box = JobBox(r, i, job),
           NEW gj, gj = grp_job_off(r.b, r.g, grp) + job
    PROVE  /\ gj \in Nat
           /\ DivUp(r.b.dst_x, r.b.job_size_x) \in Nat \ {0}
           /\ box.y = (gj \div DivUp(r.b.dst_x, r.b.job_size_x)) * r.b.job_size_y
           /\ box.x = (gj % DivUp(r.b.dst_x, r.b.job_size_x)) * r.b.job_size_x
           /\ box.y \in Nat /\ box.x \in Nat
           /\ box.ny \in 1..r.b.job_size_y /\ box.nx \in 1..r.b.job_size_x
           /\ box.y + box.ny <= r.b.dst_y /\ box.x + box.nx <= r.b.dst_x
           /\ box.nx % r.b.x_block = 0
<1> DEFINE dx == r.b.dst_x
           dy == r.b.dst_y
           sx == r.b.job_size_x
           sy == r.b.job_size_y
           X == DivUp(dx, sx)
           Y == DivUp(dy, sy)
           a == gj \div X
           c == gj % X
<1>1. dx \in Nat \ {0} /\ dy \in Nat \ {0} /\ sx \in Nat \ {0} /\ sy \in Nat \ {0}
  BY Zenon DEF Is2d
<1>2. /\ box.y = a * sy /\ box.ny = Least(dy - a * sy, sy)
      /\ box.x = c * sx /\ box.nx = Least(dx - c * sx, sx)
  BY Zenon DEF JobBox
<1>3. gj \in Nat /\ gj < r.b.njobs /\ r.b.njobs = X * Y
  <2>1. /\ grp_njobs(r.b, r.g, grp) \in Nat \ {0}
        /\ grp_job_off(r.b, r.g, grp) \in Nat
        /\ grp_job_off(r.b, r.g, grp) + grp_njobs(r.b, r.g, grp) <= r.b.njobs
        /\ r.b.njobs \in Nat
    BY GroupHasJobs, Zenon DEF Is2d
  <2> QED
    BY <2>1 DEF Is2d
<1>m. dx % r.b.x_block = 0 /\ sx % r.b.x_block = 0 /\ r.b.x_block \in Nat \ {0}
  BY Zenon DEF Is2d
<1> HIDE DEF dx, dy, sx, sy
<1>4. X \in Nat /\ Y \in Nat /\ dx <= sx * X
  BY <1>1, DivUpFacts, Zenon
<1>5. X # 0
  BY <1>1, <1>4
<1> HIDE DEF X, Y
<1>6. a \in Nat /\ c \in Nat /\ c < X /\ X * a <= gj
  BY <1>3, <1>4, <1>5, DivFacts, Zenon
<1>7. a < Y
  <2>1. SUFFICES ASSUME Y <= a PROVE FALSE
    BY <1>4, <1>6
  <2>2. Y * X <= a * X
    BY <1>4, <1>6, <2>1, MulMono, Zenon
  <2>3. Y * X = X * Y /\ a * X = X * a /\ X * Y \in Nat /\ X * a \in Nat
    BY <1>4, <1>6
  <2> QED
    BY <1>3, <1>6, <2>2, <2>3
<1> HIDE DEF a, c
<1>8. a \in 0..(Y - 1) /\ c \in 0..(X - 1)
  BY <1>4, <1>6, <1>7
<1>9. a * sy \in Nat /\ Least(dy - a * sy, sy) \in 1..sy /\ a * sy + Least(dy - a * sy, sy) <= dy
  BY <1>1, <1>8, Pieces, Zenon DEF Y
<1>10. c * sx \in Nat /\ Least(dx - c * sx, sx) \in 1..sx /\ c * sx + Least(dx - c * sx, sx) <= dx
  BY <1>1, <1>8, Pieces, Zenon DEF X
<1>11. Least(dx - c * sx, sx) % r.b.x_block = 0
  <2>1. CASE dx - c * sx <= sx
    <3>1. Least(dx - c * sx, sx) = dx - c * sx
      BY <2>1, Zenon DEF Least
    <3>2. dx - c * sx \in Nat
      BY <1>10, <3>1
    <3> QED
      BY <1>1, <1>6, <1>m, <3>1, <3>2, MultiplesLess
  <2>2. CASE ~(dx - c * sx <= sx)
    BY <1>m, <2>2, Zenon DEF Least
  <2> QED
    BY <2>1, <2>2, Zenon
<1>12. X \in Nat \ {0}
  BY <1>4, <1>5, Zenon
<1>13. /\ box.y \in Nat /\ box.x \in Nat
       /\ box.ny \in 1..sy /\ box.nx \in 1..sx
       /\ box.y + box.ny <= dy /\ box.x + box.nx <= dx
       /\ box.nx % r.b.x_block = 0
  BY <1>2, <1>9, <1>10, <1>11, Zenon
<1> QED
  BY <1>2, <1>3, <1>12, <1>13, Zenon DEF X, a, c, dx, dy, sx, sy

\* Element n of a job's box, row by row, as reduce_block has it.
Cell(r, box, job, n) ==
    <<(box.y + (n \div box.nx)) * r.b.dst_x + (box.x + (n % box.nx)),
      job * r.b.job_size + ((n \div box.nx) * r.b.job_size_x + (n % box.nx))>>

\* Elements from..(to - 1) of a job.
Cells(r, box, job, from, to) == {Cell(r, box, job, n) : n \in from..(to - 1)}

\* What BoxFacts says of a box.
IsBox(r, box) ==
    /\ box.y \in Nat /\ box.x \in Nat
    /\ box.ny \in Nat \ {0} /\ box.ny <= r.b.job_size_y
    /\ box.nx \in Nat \ {0} /\ box.nx <= r.b.job_size_x
    /\ box.y + box.ny <= r.b.dst_y /\ box.x + box.nx <= r.b.dst_x
    /\ r.b.job_size_x \in Nat /\ r.b.job_size_y \in Nat
    /\ r.b.dst_x \in Nat /\ r.b.dst_y \in Nat

\* Element n is in a row and a column of the box.
LEMMA PlaceInBox ==
    ASSUME NEW ny \in Nat \ {0}, NEW nx \in Nat \ {0}, NEW n \in 0..(ny * nx - 1)
    PROVE  \E y \in 0..(ny - 1), x \in 0..(nx - 1) :
                y = n \div nx /\ x = n % nx /\ n = y * nx + x
<1>1. ny * nx \in Nat
  OBVIOUS
<1>2. n \in Nat /\ n < ny * nx
  BY <1>1
<1>3. n \div nx \in Nat /\ n % nx \in Nat /\ n % nx < nx /\ n = nx * (n \div nx) + (n % nx)
  BY <1>2, DivFacts, Zenon
<1>4. ny * nx <= n <=> ny <= n \div nx
  BY <1>2, DivAtLeast, Zenon
<1>5. ~(ny <= n \div nx)
  BY <1>1, <1>2, <1>4
<1>6. nx * (n \div nx) = (n \div nx) * nx
  BY <1>3
<1>7. n \div nx \in 0..(ny - 1) /\ n % nx \in 0..(nx - 1)
  BY <1>3, <1>5
<1> QED
  BY <1>3, <1>6, <1>7, Zenon

\* The beginning of a row, or a part of it, is a run of elements.
LEMMA CellRow ==
    ASSUME NEW r, NEW i, NEW job, NEW box, box = JobBox(r, i, job), IsBox(r, box),
           NEW n \in Nat, NEW w \in Nat, (n % box.nx) + w <= box.nx,
           job \in Nat, r.b.job_size \in Nat
    PROVE  reduce_block(r, i, job, n \div box.nx, n % box.nx, 1, w)
            = Cells(r, box, job, n, n + w)
<1> DEFINE nx == box.nx
           q == n \div nx
           s == n % nx
           at(y, x) == <<(box.y + q + y) * r.b.dst_x + box.x + s + x,
                         job * r.b.job_size + (q + y) * r.b.job_size_x + s + x>>
<1>1. nx \in Nat \ {0} /\ q \in Nat /\ s \in Nat /\ s < nx /\ n = q * nx + s
  <2>1. nx \in Nat \ {0}
    BY Zenon DEF IsBox
  <2>2. q \in Nat /\ s \in Nat /\ s < nx /\ n = nx * q + s
    BY <2>1, DivFacts, Zenon
  <2> HIDE DEF q, s, nx
  <2> QED
    BY <2>1, <2>2
<1>2. reduce_block(r, i, job, q, s, 1, w)
        = {at(y, x) : y \in 0..(1 - 1), x \in 0..(w - 1)}
  BY DEF reduce_block
<1>3. s + w <= nx
  BY Zenon
<1> HIDE DEF nx, q, s
<1>4. ASSUME NEW x \in 0..(w - 1) PROVE at(0, x) = Cell(r, box, job, n + x)
  <2>1. s + x \in 0..(nx - 1) /\ n + x = q * nx + (s + x)
    BY <1>1, <1>3
  <2>2. (n + x) \div nx = q /\ (n + x) % nx = s + x
    <3>1. (q * nx + (s + x)) \div nx = q /\ (q * nx + (s + x)) % nx = s + x
      BY <1>1, <2>1, DivOf, Zenon
    <3> QED
      BY <2>1, <3>1, Zenon
  <2>3. Cell(r, box, job, n + x)
            = <<(box.y + q) * r.b.dst_x + (box.x + (s + x)),
                job * r.b.job_size + (q * r.b.job_size_x + (s + x))>>
    BY <2>2, Zenon DEF Cell, nx
  <2>4. /\ box.y + q + 0 = box.y + q /\ q + 0 = q
        /\ (box.y + q) * r.b.dst_x \in Nat /\ box.x \in Nat
        /\ q * r.b.job_size_x \in Nat /\ job * r.b.job_size \in Nat
    BY <1>1 DEF IsBox
  <2>5. \A a, b \in Nat : a + b + s + x = a + (b + (s + x))
    BY <1>1
  <2>6. /\ (box.y + q) * r.b.dst_x + box.x + s + x = (box.y + q) * r.b.dst_x + (box.x + (s + x))
        /\ job * r.b.job_size + q * r.b.job_size_x + s + x
            = job * r.b.job_size + (q * r.b.job_size_x + (s + x))
    BY <2>4, <2>5, Zenon
  <2>7. at(0, x) = <<(box.y + q) * r.b.dst_x + box.x + s + x,
                     job * r.b.job_size + q * r.b.job_size_x + s + x>>
    BY <2>4, Zenon
  <2> QED
    BY ONLY <2>3, <2>6, <2>7, Zenon
<1> HIDE DEF at
<1>5. PICK e \in Nat : e = n + w
  OBVIOUS
<1>6. ASSUME NEW c \in reduce_block(r, i, job, q, s, 1, w)
      PROVE  c \in Cells(r, box, job, n, e)
  <2>1. PICK y \in 0..(1 - 1), x \in 0..(w - 1) : c = at(y, x)
    BY <1>2
  <2>2. y = 0 /\ n + x \in n..(e - 1)
    BY <1>5
  <2>3. c = Cell(r, box, job, n + x)
    BY <1>4, <2>1, <2>2, Zenon
  <2> QED
    BY <2>2, <2>3, Zenon DEF Cells
<1>7. ASSUME NEW c \in Cells(r, box, job, n, e)
      PROVE  c \in reduce_block(r, i, job, q, s, 1, w)
  <2>1. PICK m \in n..(e - 1) : c = Cell(r, box, job, m)
    BY Zenon DEF Cells
  <2>2. m - n \in 0..(w - 1) /\ m = n + (m - n) /\ 0 \in 0..(1 - 1)
    BY <1>5
  <2>3. c = at(0, m - n)
    BY <1>4, <2>1, <2>2, Zenon
  <2> QED
    BY <1>2, <2>2, <2>3
<1>8. reduce_block(r, i, job, q, s, 1, w) = Cells(r, box, job, n, n + w)
  BY <1>5, <1>6, <1>7, Zenon
<1> QED
  BY <1>8, Zenon DEF q, s, nx

\* Whole rows are a run of elements.
LEMMA CellRows ==
    ASSUME NEW r, NEW i, NEW job, NEW box, box = JobBox(r, i, job), IsBox(r, box),
           NEW n \in Nat, NEW h \in Nat, n % box.nx = 0,
           job \in Nat, r.b.job_size \in Nat
    PROVE  reduce_block(r, i, job, n \div box.nx, n % box.nx, h, box.nx)
            = Cells(r, box, job, n, n + box.nx * h)
<1> DEFINE nx == box.nx
           q == n \div nx
           at(y, x) == <<(box.y + q + y) * r.b.dst_x + box.x + 0 + x,
                         job * r.b.job_size + (q + y) * r.b.job_size_x + 0 + x>>
<1>1. nx \in Nat \ {0} /\ q \in Nat /\ n = q * nx
  <2>1. nx \in Nat \ {0}
    BY Zenon DEF IsBox
  <2>2. n % nx = 0
    BY Zenon
  <2> HIDE DEF nx
  <2>3. q \in Nat /\ n = nx * q + (n % nx)
    BY ONLY <2>1, n \in Nat, DivFacts, Zenon DEF q
  <2> HIDE DEF q
  <2> QED
    BY ONLY <2>1, <2>2, <2>3
<1>2. reduce_block(r, i, job, q, 0, h, nx)
        = {at(y, x) : y \in 0..(h - 1), x \in 0..(nx - 1)}
  BY DEF reduce_block
<1> HIDE DEF nx, q
<1>3. PICK e \in Nat : e = n + nx * h
  BY <1>1
<1>4. ASSUME NEW y \in 0..(h - 1), NEW x \in 0..(nx - 1)
      PROVE  /\ at(y, x) = Cell(r, box, job, (q + y) * nx + x)
             /\ (q + y) * nx + x \in n..(e - 1)
  <2>0. q + y \in Nat
    BY <1>1
  <2>2. ((q + y) * nx + x) \div nx = q + y /\ ((q + y) * nx + x) % nx = x
    BY <1>1, <2>0, DivOf, Zenon
  <2>3. Cell(r, box, job, (q + y) * nx + x)
            = <<(box.y + (q + y)) * r.b.dst_x + (box.x + x),
                job * r.b.job_size + ((q + y) * r.b.job_size_x + x)>>
    BY <2>2, Zenon DEF Cell, nx
  <2>4. /\ box.y + q + y = box.y + (q + y)
        /\ (box.y + (q + y)) * r.b.dst_x \in Nat /\ box.x \in Nat
        /\ (q + y) * r.b.job_size_x \in Nat /\ job * r.b.job_size \in Nat
    BY <1>1, <2>0 DEF IsBox
  <2>5. \A a, b \in Nat : a + b + 0 + x = a + (b + x)
    BY <1>1
  <2>6. at(y, x) = Cell(r, box, job, (q + y) * nx + x)
    BY <2>3, <2>4, <2>5
  <2>7. (q + y) * nx = q * nx + y * nx /\ y * nx \in Nat /\ nx * h \in Nat /\ h * nx = nx * h
    BY <1>1
  <2>8. (y + 1) * nx <= h * nx
    BY <1>1, MulMono
  <2>9. (y + 1) * nx = y * nx + nx
    BY <1>1
  <2>10. (q + y) * nx + x \in n..(e - 1)
    BY <1>1, <1>3, <2>7, <2>8, <2>9
  <2> QED
    BY <2>6, <2>10, Zenon
<1>5. ASSUME NEW m \in n..(e - 1)
      PROVE  \E y \in 0..(h - 1), x \in 0..(nx - 1) : m = (q + y) * nx + x
  <2>0. nx * h \in Nat
    BY <1>1
  <2>1. m \in Nat /\ n <= m /\ m < n + nx * h
    BY <1>3, <2>0
  <2>2. /\ m \div nx \in Nat /\ m % nx \in Nat /\ m % nx < nx
        /\ m = nx * (m \div nx) + (m % nx)
    BY <1>1, <2>1, DivFacts, Zenon
  <2>3. q <= m \div nx
    BY <1>1, <2>1, DivAtLeast, Zenon
  <2>4. ~(q + h <= m \div nx)
    <3>1. (q + h) * nx <= m <=> q + h <= m \div nx
      BY <1>1, <2>1, DivAtLeast
    <3>2. (q + h) * nx = n + nx * h
      BY <1>1
    <3> QED
      BY <2>0, <2>1, <3>1, <3>2
  <2> DEFINE y == (m \div nx) - q
             x == m % nx
  <2>5. y \in 0..(h - 1) /\ x \in 0..(nx - 1) /\ q + y = m \div nx
    BY <1>1, <2>2, <2>3, <2>4
  <2>6. m = (q + y) * nx + x
    <3>1. nx * (m \div nx) = (m \div nx) * nx
      BY <1>1, <2>2
    <3> QED
      BY <2>2, <2>5, <3>1, Zenon
  <2> QED
    BY <2>5, <2>6, Zenon
<1> HIDE DEF at
<1>6. ASSUME NEW c \in reduce_block(r, i, job, q, 0, h, nx)
      PROVE  c \in Cells(r, box, job, n, e)
  <2>1. PICK y \in 0..(h - 1), x \in 0..(nx - 1) : c = at(y, x)
    BY <1>2
  <2>2. c = Cell(r, box, job, (q + y) * nx + x) /\ (q + y) * nx + x \in n..(e - 1)
    BY <1>4, <2>1, ZenonT(30)
  <2> QED
    BY <2>2, Zenon DEF Cells
<1>7. ASSUME NEW c \in Cells(r, box, job, n, e)
      PROVE  c \in reduce_block(r, i, job, q, 0, h, nx)
  <2>1. PICK m \in n..(e - 1) : c = Cell(r, box, job, m)
    BY Zenon DEF Cells
  <2>2. PICK y \in 0..(h - 1), x \in 0..(nx - 1) : m = (q + y) * nx + x
    BY <1>5, Zenon
  <2>3. c = at(y, x)
    BY <1>4, <2>1, <2>2, Zenon
  <2> QED
    BY <1>2, <2>3
<1>8. reduce_block(r, i, job, q, 0, h, nx) = Cells(r, box, job, n, n + nx * h)
  BY <1>3, <1>6, <1>7, Zenon
<1>9. n % box.nx = 0 /\ q = n \div box.nx /\ nx = box.nx
  BY Zenon DEF q, nx
<1> QED
  BY <1>8, <1>9, Zenon

-----------------------------------------------------------------------------
(* The blocks of a job that a thread sums up.                               *)

\* A block that a row of nx elements has a whole number of.
BlockOf(nx, xb) == xb \in Nat \ {0} /\ \E k \in Nat \ {0} : nx = k * xb

\* The block that the threads of a team share a job out in: whole x_blocks, of
\* which a row has a whole number.
LEMMA BlockingFacts ==
    ASSUME NEW r, r.b.x_block \in Nat \ {0}, NEW nx \in Nat \ {0}, NEW ny \in Nat \ {0},
           nx % r.b.x_block = 0, NEW team \in Nat \ {0}
    PROVE  BlockOf(nx, choose_x_blocking(r, nx, ny, team))
<1> DEFINE xb == r.b.x_block
           blocks == nx \div xb
           m == Greatest(1, team \div ny)
           min == DivUp(blocks, m)
           x == Shrink(blocks, min)
           z == IF x >= min * 4 THEN 1 ELSE x
<1>1. choose_x_blocking(r, nx, ny, team) = z * xb
  BY Zenon DEF choose_x_blocking
<1>2. xb \in Nat \ {0}
  BY Zenon
<1> HIDE DEF xb
<1>3. blocks \in Nat \ {0} /\ nx = blocks * xb
  <2>1. blocks \in Nat /\ nx = xb * blocks + 0
    BY <1>2, DivFacts, Zenon DEF xb
  <2> HIDE DEF blocks
  <2> QED
    BY <1>2, <2>1
<1> HIDE DEF blocks
<1>4. m \in Nat \ {0}
  <2>1. team \div ny \in Nat
    BY DivFacts, Zenon
  <2> QED
    BY <2>1 DEF Greatest
<1> HIDE DEF m
<1>5. min \in Nat \ {0}
  <2>1. min \in Nat /\ blocks <= m * min
    BY <1>3, <1>4, DivUpFacts, Zenon
  <2> HIDE DEF min
  <2> QED
    BY <1>3, <1>4, <2>1
<1> HIDE DEF min
<1>6. x \in Nat \ {0} /\ \E k \in Nat \ {0} : blocks = k * x
  BY <1>3, <1>5, ShrinkDivides, Zenon
<1> HIDE DEF x
<1>7. z \in Nat \ {0} /\ \E k \in Nat \ {0} : blocks = k * z
  <2>1. CASE x >= min * 4
    <3>1. z = 1 /\ blocks = blocks * z
      BY <1>3, <2>1
    <3> QED
      BY <1>3, <3>1
  <2>2. CASE ~(x >= min * 4)
    <3>1. z = x
      BY <2>2, Zenon
    <3> QED
      BY <1>6, <3>1, Zenon
  <2> QED
    BY <2>1, <2>2, Zenon
<1> HIDE DEF z
<1>8. PICK k \in Nat \ {0} : blocks = k * z
  BY <1>7, Zenon
<1>9. nx = k * (z * xb) /\ z * xb \in Nat \ {0}
  BY <1>2, <1>3, <1>7, <1>8
<1>10. BlockOf(nx, z * xb)
  BY <1>9, Zenon DEF BlockOf
<1> QED
  BY ONLY <1>1, <1>10, Zenon

\* The three blocks of a pass of the loop over the jobs, of elements n0..(end-1).
JobBlocks(r, i, job, nx, n0, end) ==
    LET rest == IF (n0 % nx) # 0 THEN Least(nx - (n0 % nx), end - n0) ELSE 0
        n1 == n0 + rest
        rows == IF end - n1 > nx THEN (end - n1) \div nx ELSE 0
        n2 == n1 + nx * rows
    IN  reduce_block(r, i, job, n0 \div nx, n0 % nx, 1, rest)
            \cup reduce_block(r, i, job, n1 \div nx, n1 % nx, rows, nx)
            \cup reduce_block(r, i, job, n2 \div nx, n2 % nx, 1, end - n2)

\* The part of a job that a thread of its team sums up: the blocks from..(to - 1)
\* of xb elements.
IsPart(r, i, job, team, id, box, xb, from, to) ==
    /\ job \in Nat /\ box = JobBox(r, i, job) /\ IsBox(r, box) /\ r.b.job_size \in Nat
    /\ xb \in Nat \ {0} /\ xb = choose_x_blocking(r, box.nx, box.ny, team)
    /\ from \in Nat /\ to \in Nat /\ from <= to
    /\ from = Balance211((box.ny * box.nx) \div xb, team, id)[1]
    /\ to = Balance211((box.ny * box.nx) \div xb, team, id)[2]

\* That is what a pass of the loop sets.
LEMMA ReduceJobBlocks ==
    ASSUME NEW r, NEW i, NEW job, NEW team, NEW id, NEW box, NEW xb, NEW from, NEW to,
           IsPart(r, i, job, team, id, box, xb, from, to)
    PROVE  ReduceJob(r, i, job, team, id)
            = IF from = to THEN {} ELSE JobBlocks(r, i, job, box.nx, from * xb, to * xb)
<1> SUFFICES ASSUME box = JobBox(r, i, job), xb = choose_x_blocking(r, box.nx, box.ny, team),
                    from = Balance211((box.ny * box.nx) \div xb, team, id)[1],
                    to = Balance211((box.ny * box.nx) \div xb, team, id)[2]
             PROVE  ReduceJob(r, i, job, team, id)
                     = IF from = to THEN {} ELSE JobBlocks(r, i, job, box.nx, from * xb, to * xb)
  BY Zenon DEF IsPart
<1> DEFINE box0 == JobBox(r, i, job)
           xb0 == choose_x_blocking(r, box0.nx, box0.ny, team)
           part == Balance211((box0.ny * box0.nx) \div xb0, team, id)
<1>1. ReduceJob(r, i, job, team, id)
        = IF part[1] = part[2] THEN {}
          ELSE JobBlocks(r, i, job, box0.nx, part[1] * xb0, part[2] * xb0)
  BY Zenon DEF ReduceJob, JobBlocks
<1>2. box0 = box
  BY Zenon
<1> HIDE DEF box0
<1>3. xb0 = xb
  BY <1>2, Zenon
<1> HIDE DEF xb0
<1>4. from = part[1] /\ to = part[2]
  BY <1>2, <1>3, Zenon
<1> HIDE DEF part
<1> QED
  BY ONLY <1>1, <1>2, <1>3, <1>4, Zenon

\* A pass of the loop over the jobs: the rest of a row, whole rows and the
\* beginning of a row follow one another.
LEMMA ReduceJobCells ==
    ASSUME NEW r, NEW i, NEW job, NEW team, NEW id, NEW box, NEW xb, NEW from, NEW to,
           IsPart(r, i, job, team, id, box, xb, from, to)
    PROVE  ReduceJob(r, i, job, team, id) = Cells(r, box, job, from * xb, to * xb)
<1> SUFFICES ASSUME job \in Nat, box = JobBox(r, i, job), IsBox(r, box), r.b.job_size \in Nat,
                    xb \in Nat \ {0}, from \in Nat, to \in Nat, from <= to
             PROVE  ReduceJob(r, i, job, team, id) = Cells(r, box, job, from * xb, to * xb)
  BY Zenon DEF IsPart
<1> DEFINE nx == box.nx
           n0 == from * xb
           end == to * xb
           rest == IF (n0 % nx) # 0 THEN Least(nx - (n0 % nx), end - n0) ELSE 0
           n1 == n0 + rest
           rows == IF end - n1 > nx THEN (end - n1) \div nx ELSE 0
           n2 == n1 + nx * rows
           B1 == reduce_block(r, i, job, n0 \div nx, n0 % nx, 1, rest)
           B2 == reduce_block(r, i, job, n1 \div nx, n1 % nx, rows, nx)
           B3 == reduce_block(r, i, job, n2 \div nx, n2 % nx, 1, end - n2)
<1>1. ReduceJob(r, i, job, team, id) = IF from = to THEN {} ELSE B1 \cup B2 \cup B3
  <2>1. ReduceJob(r, i, job, team, id)
            = IF from = to THEN {} ELSE JobBlocks(r, i, job, box.nx, from * xb, to * xb)
    BY ReduceJobBlocks
  <2>2. JobBlocks(r, i, job, box.nx, from * xb, to * xb) = B1 \cup B2 \cup B3
    BY Zenon DEF JobBlocks
  <2> HIDE DEF B1, B2, B3
  <2> QED
    BY ONLY <2>1, <2>2, Zenon
<1>2. nx \in Nat \ {0}
  BY Zenon DEF IsBox
<1>3. n0 \in Nat /\ end \in Nat /\ n0 <= end
  BY MulMono
<1> HIDE DEF nx, n0, end
<1>4. n0 \div nx \in Nat /\ n0 % nx \in Nat /\ n0 % nx < nx /\ n0 = nx * (n0 \div nx) + (n0 % nx)
  BY <1>2, <1>3, DivFacts, Zenon
<1>5. rest \in Nat /\ n1 \in Nat /\ n1 <= end /\ (n0 % nx) + rest <= nx
  BY <1>2, <1>3, <1>4 DEF Least
<1>6. n1 = end \/ n1 % nx = 0
  <2>1. CASE n0 % nx = 0
    BY <1>3, <2>1
  <2>2. CASE n0 % nx # 0 /\ nx - (n0 % nx) <= end - n0
    <3>1. n1 = n0 + (nx - (n0 % nx))
      BY <2>2, Zenon DEF Least
    <3>p. PICK p \in Nat, q \in Nat : p = n0 \div nx /\ q = n0 % nx
      BY <1>4, Zenon
    <3>2. n1 = (p + 1) * nx + 0 /\ p + 1 \in Nat /\ 0 \in 0..(nx - 1)
      <4>1. n0 = nx * p + q /\ n1 = n0 + (nx - q)
        BY <1>4, <3>1, <3>p, Zenon
      <4> HIDE DEF n1
      <4> QED
        BY <1>2, <1>3, <4>1
    <3>3. ((p + 1) * nx + 0) % nx = 0
      BY <1>2, <3>2, DivOf, Zenon
    <3> HIDE DEF n1
    <3> QED
      BY <3>2, <3>3, Zenon
  <2>3. CASE n0 % nx # 0 /\ ~(nx - (n0 % nx) <= end - n0)
    BY <1>3, <2>3 DEF Least
  <2> QED
    BY <2>1, <2>2, <2>3, Zenon
<1>7. B1 = Cells(r, box, job, n0, n1)
  <2> HIDE DEF rest
  <2> QED
    BY <1>3, <1>5, CellRow DEF nx
<1> HIDE DEF rest, n1, B1
<1>8. /\ rows \in Nat /\ n2 \in Nat /\ n2 <= end /\ n1 <= n2
      /\ rows = 0 \/ n1 % nx = 0
      /\ n2 = end \/ (n2 % nx) + (end - n2) <= nx
  <2>1. CASE end - n1 > nx
    <3>1. PICK m \in Nat : m = end - n1
      BY <1>3, <1>5
    <3>2. PICK q \in Nat : q = m \div nx
      BY <1>2, <3>1, DivFacts, Zenon
    <3>m. nx * q <= m /\ m < nx * q + nx
      BY <1>2, <3>2, DivFacts, Zenon
    <3>3. nx * q <= end - n1 /\ end - n1 < nx * q + nx /\ nx * q \in Nat
      BY <1>2, <3>1, <3>m
    <3>4. rows = q /\ n2 = n1 + nx * q
      BY <2>1, <3>1, <3>2, Zenon
    <3>5. n1 % nx = 0
      BY <1>2, <1>3, <1>6, <2>1
    <3>6. n2 % nx = 0
      <4>1. PICK p \in Nat : p = n1 \div nx
        BY <1>2, <1>5, DivFacts, Zenon
      <4>2. n1 = nx * p + 0
        BY <1>2, <1>5, <3>5, <4>1, DivFacts
      <4>3. n2 = (p + q) * nx + 0 /\ p + q \in Nat /\ 0 \in 0..(nx - 1)
        BY <1>2, <3>4, <4>2
      <4>4. ((p + q) * nx + 0) % nx = 0
        BY <1>2, <4>3, DivOf, Zenon
      <4> HIDE DEF n2
      <4> QED
        BY <4>3, <4>4, Zenon
    <3> HIDE DEF n2, rows
    <3>7. n2 \in Nat /\ n2 <= end /\ n1 <= n2 /\ end - n2 <= nx
      BY <1>3, <1>5, <1>2, <3>3, <3>4
    <3> QED
      BY <1>2, <1>3, <3>4, <3>5, <3>6, <3>7
  <2>2. CASE ~(end - n1 > nx)
    <3>1. rows = 0 /\ n2 = n1
      BY <1>2, <1>5, <2>2
    <3> HIDE DEF n2, rows
    <3> QED
      BY <1>2, <1>3, <1>5, <1>6, <2>2, <3>1
  <2> QED
    BY <2>1, <2>2, Zenon
<1>9. B2 = Cells(r, box, job, n1, n2)
  <2> HIDE DEF rows
  <2>1. CASE n1 % nx = 0
    <3>1. n1 % box.nx = 0
      BY <2>1, Zenon DEF nx
    <3>2. reduce_block(r, i, job, n1 \div box.nx, n1 % box.nx, rows, box.nx)
            = Cells(r, box, job, n1, n1 + box.nx * rows)
      BY <1>5, <1>8, <3>1, CellRows
    <3> QED
      BY <3>2, Zenon DEF nx
  <2>2. CASE n1 % nx # 0
    <3>1. rows = 0 /\ n2 = n1
      BY <1>2, <1>5, <1>8, <2>2
    <3>2. B2 = {}
      BY <3>1 DEF reduce_block
    <3>3. Cells(r, box, job, n1, n2) = {}
      BY <1>5, <3>1 DEF Cells
    <3> QED
      BY <3>2, <3>3, Zenon
  <2> QED
    BY <2>1, <2>2, Zenon
<1> HIDE DEF rows, n2, B2
<1>10. B3 = Cells(r, box, job, n2, end)
  <2>0. PICK w \in Nat : w = end - n2
    BY <1>3, <1>8
  <2>1. CASE n2 # end
    <3>1. (n2 % nx) + w <= nx /\ n2 + w = end
      BY <1>3, <1>8, <2>0, <2>1
    <3> QED
      BY <1>8, <2>0, <3>1, CellRow DEF nx
  <2>2. CASE n2 = end
    <3>1. B3 = {}
      BY <1>3, <2>2 DEF reduce_block
    <3>2. Cells(r, box, job, n2, end) = {}
      BY <1>3, <2>2 DEF Cells
    <3> QED
      BY <3>1, <3>2, Zenon
  <2> QED
    BY <2>1, <2>2, Zenon
<1> HIDE DEF B3
<1>11. Cells(r, box, job, n0, n1) \cup Cells(r, box, job, n1, n2) \cup Cells(r, box, job, n2, end)
        = Cells(r, box, job, n0, end)
  <2>1. \A m : m \in n0..(end - 1) <=> m \in n0..(n1 - 1) \/ m \in n1..(n2 - 1) \/ m \in n2..(end - 1)
    <3>1. n0 <= n1
      BY <1>3, <1>4, <1>5 DEF n1, rest, Least
    <3> QED
      BY <1>3, <1>5, <1>8, <3>1
  <2> QED
    BY <2>1, Zenon DEF Cells
<1>12. CASE from = to
  <2>1. n0 = end
    BY <1>12, Zenon DEF n0, end
  <2>2. Cells(r, box, job, n0, end) = {}
    BY <1>3, <2>1 DEF Cells
  <2> QED
    BY <1>1, <1>12, <2>2, Zenon DEF n0, end
<1>13. CASE from # to
  <2>1. ReduceJob(r, i, job, team, id) = Cells(r, box, job, n0, end)
    BY <1>1, <1>7, <1>9, <1>10, <1>11, <1>13, Zenon
  <2> QED
    BY <2>1, Zenon DEF n0, end
<1> QED
  BY <1>12, <1>13, Zenon

-----------------------------------------------------------------------------
(* An element of the result is in one job, and summed up by one thread.     *)

\* A job of a group is in one box.
LEMMA JobHasBox ==
    ASSUME NEW r, Is2d(r), NEW grp \in 0..(r.g.ngroups - 1),
           NEW i, ithr_job_off(r, i) = grp_job_off(r.b, r.g, grp),
           NEW job \in 0..(grp_njobs(r.b, r.g, grp) - 1)
    PROVE  IsBox(r, JobBox(r, i, job)) /\ JobBox(r, i, job).nx % r.b.x_block = 0
<1> DEFINE box == JobBox(r, i, job)
<1>1. /\ box.y \in Nat /\ box.x \in Nat
      /\ box.ny \in 1..r.b.job_size_y /\ box.nx \in 1..r.b.job_size_x
      /\ box.y + box.ny <= r.b.dst_y /\ box.x + box.nx <= r.b.dst_x
      /\ box.nx % r.b.x_block = 0
  BY BoxFacts
<1>2. /\ r.b.job_size_x \in Nat /\ r.b.job_size_y \in Nat
      /\ r.b.dst_x \in Nat /\ r.b.dst_y \in Nat
  BY Zenon DEF Is2d
<1> HIDE DEF box
<1>3. IsBox(r, box) /\ box.nx % r.b.x_block = 0
  BY <1>1, <1>2 DEF IsBox
<1> QED
  BY <1>3, Zenon DEF box

\* Row y, column x of job g is at place p of the result.
AtPosition(dx, sx, sy, X, g, y, x, p) ==
    /\ dx \in Nat \ {0} /\ sx \in Nat \ {0} /\ sy \in Nat \ {0} /\ X \in Nat \ {0}
    /\ g \in Nat /\ y \in 0..(sy - 1) /\ x \in 0..(sx - 1)
    /\ (g % X) * sx + x < dx
    /\ p = ((g \div X) * sy + y) * dx + ((g % X) * sx + x)

\* Nothing else is at that place.
LEMMA PositionUnique ==
    ASSUME NEW dx, NEW sx, NEW sy, NEW X, NEW g, NEW h,
           NEW my, NEW mx, NEW ny, NEW nx, NEW p,
           AtPosition(dx, sx, sy, X, g, my, mx, p), AtPosition(dx, sx, sy, X, h, ny, nx, p)
    PROVE  g = h /\ my = ny /\ mx = nx
<1>0. /\ dx \in Nat \ {0} /\ sx \in Nat \ {0} /\ sy \in Nat \ {0} /\ X \in Nat \ {0}
      /\ g \in Nat /\ my \in 0..(sy - 1) /\ mx \in 0..(sx - 1)
      /\ h \in Nat /\ ny \in 0..(sy - 1) /\ nx \in 0..(sx - 1)
      /\ (g % X) * sx + mx < dx /\ (h % X) * sx + nx < dx
      /\ ((g \div X) * sy + my) * dx + ((g % X) * sx + mx)
            = ((h \div X) * sy + ny) * dx + ((h % X) * sx + nx)
  BY Zenon DEF AtPosition
<1>1. /\ g \div X \in Nat /\ g % X \in Nat /\ g = X * (g \div X) + (g % X)
      /\ h \div X \in Nat /\ h % X \in Nat /\ h = X * (h \div X) + (h % X)
  BY <1>0, DivFacts, Zenon
<1>2. PICK ga \in Nat, gc \in Nat : ga = g \div X /\ gc = g % X
  BY <1>1, Zenon
<1>3. PICK ha \in Nat, hc \in Nat : ha = h \div X /\ hc = h % X
  BY <1>1, Zenon
<1>4. PICK y \in Nat, z \in Nat : y = ga * sy + my /\ z = ha * sy + ny
  BY <1>0
<1>5. PICK v \in Nat, w \in Nat : v = gc * sx + mx /\ w = hc * sx + nx
  BY <1>0
<1>6. v \in 0..(dx - 1) /\ w \in 0..(dx - 1)
  BY <1>0, <1>2, <1>3, <1>5
<1>7. y * dx + v = z * dx + w
  BY <1>0, <1>2, <1>3, <1>4, <1>5, Zenon
<1>8. y = z /\ v = w
  BY ONLY <1>0, <1>6, <1>7, DivUnique, y \in Nat, z \in Nat
<1>9. ga = ha /\ my = ny
  <2>1. ga * sy + my = ha * sy + ny
    BY ONLY <1>4, <1>8, Zenon
  <2> QED
    BY ONLY <1>0, <2>1, DivUnique, ga \in Nat, ha \in Nat
<1>10. gc = hc /\ mx = nx
  <2>1. gc * sx + mx = hc * sx + nx
    BY ONLY <1>5, <1>8, Zenon
  <2> QED
    BY ONLY <1>0, <2>1, DivUnique, gc \in Nat, hc \in Nat
<1> QED
  BY <1>1, <1>2, <1>3, <1>9, <1>10, Zenon

\* An element of the result is in one place of one job of the group.
LEMMA CellUnique ==
    ASSUME NEW r, Is2d(r), NEW grp \in 0..(r.g.ngroups - 1),
           NEW i, ithr_job_off(r, i) = grp_job_off(r.b, r.g, grp),
           NEW j \in 0..(grp_njobs(r.b, r.g, grp) - 1), NEW a, a = JobBox(r, i, j),
           NEW k \in 0..(grp_njobs(r.b, r.g, grp) - 1), NEW c, c = JobBox(r, i, k),
           NEW m, m \in 0..(a.ny * a.nx - 1), NEW n, n \in 0..(c.ny * c.nx - 1),
           Cell(r, a, j, m)[1] = Cell(r, c, k, n)[1]
    PROVE  j = k /\ m = n
<1> DEFINE off == grp_job_off(r.b, r.g, grp)
           X == DivUp(r.b.dst_x, r.b.job_size_x)
           sx == r.b.job_size_x
           sy == r.b.job_size_y
           dx == r.b.dst_x
<1>1. /\ sx \in Nat \ {0} /\ sy \in Nat \ {0} /\ dx \in Nat \ {0}
      /\ off \in Nat /\ j \in Nat /\ k \in Nat /\ X \in Nat \ {0}
      /\ off + j \in Nat /\ off + k \in Nat
  <2>1. sx \in Nat \ {0} /\ sy \in Nat \ {0} /\ dx \in Nat \ {0}
    BY Zenon DEF Is2d
  <2>2. off \in Nat
    BY GroupHasJobs, Zenon DEF Is2d
  <2>3. X \in Nat \ {0}
    BY BoxFacts, Zenon
  <2> QED
    BY <2>1, <2>2, <2>3
<1>2. /\ a.y = ((off + j) \div X) * sy /\ a.x = ((off + j) % X) * sx
      /\ c.y = ((off + k) \div X) * sy /\ c.x = ((off + k) % X) * sx
  BY BoxFacts
<1>3. /\ IsBox(r, a) /\ IsBox(r, c)
  BY JobHasBox, Zenon
<1>4. /\ a.y \in Nat /\ a.x \in Nat /\ a.nx \in Nat \ {0} /\ a.ny \in Nat \ {0}
      /\ a.nx <= sx /\ a.ny <= sy /\ a.x + a.nx <= dx
      /\ c.y \in Nat /\ c.x \in Nat /\ c.nx \in Nat \ {0} /\ c.ny \in Nat \ {0}
      /\ c.nx <= sx /\ c.ny <= sy /\ c.x + c.nx <= dx
  BY <1>3, Zenon DEF IsBox
<1>5. PICK my \in 0..(a.ny - 1), mx \in 0..(a.nx - 1) :
        my = m \div a.nx /\ mx = m % a.nx /\ m = my * a.nx + mx
  BY ONLY <1>4, m \in 0..(a.ny * a.nx - 1), PlaceInBox, ZenonT(30)
<1>6. PICK ny \in 0..(c.ny - 1), nx \in 0..(c.nx - 1) :
        ny = n \div c.nx /\ nx = n % c.nx /\ n = ny * c.nx + nx
  BY ONLY <1>4, n \in 0..(c.ny * c.nx - 1), PlaceInBox, ZenonT(30)
<1>7. (a.y + my) * dx + (a.x + mx) = (c.y + ny) * dx + (c.x + nx)
  BY <1>5, <1>6, Zenon DEF Cell
<1> HIDE DEF off, X, sx, sy, dx
<1>8. /\ my \in 0..(sy - 1) /\ ny \in 0..(sy - 1)
      /\ mx \in 0..(sx - 1) /\ nx \in 0..(sx - 1)
      /\ a.x + mx < dx /\ c.x + nx < dx
  BY ONLY <1>1, <1>4, my \in 0..(a.ny - 1), mx \in 0..(a.nx - 1),
          ny \in 0..(c.ny - 1), nx \in 0..(c.nx - 1)
<1>9. off + j = off + k /\ my = ny /\ mx = nx
  <2>1. /\ ((off + j) % X) * sx + mx < dx /\ ((off + k) % X) * sx + nx < dx
        /\ (((off + j) \div X) * sy + my) * dx + (((off + j) % X) * sx + mx)
            = (((off + k) \div X) * sy + ny) * dx + (((off + k) % X) * sx + nx)
    BY ONLY <1>2, <1>7, <1>8, Zenon
  <2> DEFINE p == (((off + j) \div X) * sy + my) * dx + (((off + j) % X) * sx + mx)
  <2>2. AtPosition(dx, sx, sy, X, off + j, my, mx, p)
    BY ONLY <1>1, <1>8, <2>1, Zenon DEF AtPosition
  <2>3. AtPosition(dx, sx, sy, X, off + k, ny, nx, p)
    BY ONLY <1>1, <1>8, <2>1, Zenon DEF AtPosition
  <2> HIDE DEF p
  <2> QED
    BY ONLY <2>2, <2>3, PositionUnique
<1>10. j = k
  BY ONLY <1>1, <1>9
<1>11. a = c
  BY <1>10, Zenon
<1> QED
  BY <1>5, <1>6, <1>9, <1>10, <1>11, Zenon

\* An element of the result, with one of the partial results of n jobs.
Inside(r, n, p) ==
    \E d \in 0..(DstSize(r) - 1), e \in 0..(n * r.b.job_size - 1) : p = <<d, e>>

\* The elements of a job are places in the result and in the partial results.
LEMMA CellInside ==
    ASSUME NEW r, Is2d(r), NEW box, IsBox(r, box), NEW m, m \in 0..(box.ny * box.nx - 1),
           NEW n \in Nat, NEW job \in 0..(n - 1)
    PROVE  Inside(r, n, Cell(r, box, job, m))
<1> DEFINE sx == r.b.job_size_x
           sy == r.b.job_size_y
           dx == r.b.dst_x
           dy == r.b.dst_y
           J == r.b.job_size
<1>1. /\ sx \in Nat \ {0} /\ sy \in Nat \ {0} /\ dx \in Nat \ {0} /\ dy \in Nat \ {0}
      /\ J = sx * sy /\ DstSize(r) = dx * dy
  BY Zenon DEF Is2d, DstSize
<1>2. /\ box.y \in Nat /\ box.x \in Nat /\ box.nx \in Nat \ {0} /\ box.ny \in Nat \ {0}
      /\ box.nx <= sx /\ box.ny <= sy /\ box.x + box.nx <= dx /\ box.y + box.ny <= dy
  BY Zenon DEF IsBox
<1>p. PICK y0 \in 0..(box.ny - 1), x0 \in 0..(box.nx - 1) :
        y0 = m \div box.nx /\ x0 = m % box.nx
  BY <1>2, PlaceInBox
<1>3. PICK my \in Nat, mx \in Nat :
        my = m \div box.nx /\ mx = m % box.nx /\ my < box.ny /\ mx < box.nx
  BY <1>2, <1>p
<1>4. Cell(r, box, job, m) = <<(box.y + my) * dx + (box.x + mx), job * J + (my * sx + mx)>>
  BY <1>3, Zenon DEF Cell
<1> HIDE DEF sx, sy, dx, dy, J
<1>5. PICK y \in Nat, x \in Nat : y = box.y + my /\ x = box.x + mx /\ y + 1 <= dy /\ x < dx
  BY <1>1, <1>2, <1>3
<1>6. y * dx + x \in 0..(dx * dy - 1)
  <2>1. (y + 1) * dx <= dy * dx
    BY <1>1, <1>5, MulMono
  <2>2. (y + 1) * dx = y * dx + dx /\ y * dx \in Nat /\ dy * dx = dx * dy /\ dx * dy \in Nat
    BY <1>1, <1>5
  <2> QED
    BY <1>1, <1>5, <2>1, <2>2
<1>7. my * sx + mx \in Nat /\ my * sx + mx < J /\ J \in Nat
  <2>1. my + 1 <= sy /\ mx < sx
    BY <1>1, <1>2, <1>3
  <2>2. (my + 1) * sx <= sy * sx
    BY <1>1, <1>3, <2>1, MulMono
  <2>3. (my + 1) * sx = my * sx + sx /\ my * sx \in Nat /\ sy * sx = J /\ J \in Nat
    BY <1>1, <1>3
  <2> QED
    BY <1>1, <1>3, <2>1, <2>2, <2>3
<1>8. job * J + (my * sx + mx) \in 0..(n * J - 1)
  <2>1. PICK z \in Nat : z = my * sx + mx /\ z < J
    BY <1>7
  <2>2. (job + 1) * J <= n * J
    BY <1>7, MulMono
  <2>3. (job + 1) * J = job * J + J /\ job * J \in Nat /\ n * J \in Nat
    BY <1>7
  <2> QED
    BY <1>7, <2>1, <2>2, <2>3
<1> DEFINE d == (box.y + my) * dx + (box.x + mx)
           e == job * J + (my * sx + mx)
<1>9. d \in 0..(DstSize(r) - 1) /\ e \in 0..(n * r.b.job_size - 1)
  BY <1>1, <1>5, <1>6, <1>8 DEF J
<1> HIDE DEF d, e
<1>10. Inside(r, n, <<d, e>>)
  BY <1>9, Zenon DEF Inside
<1> QED
  BY <1>4, <1>10, Zenon DEF d, e

\* Teams of threads of a group share out n things, no more teams than things.
LEMMA TeamFacts ==
    ASSUME NEW n \in Nat \ {0}, NEW P \in Nat \ {0},
           NEW G, G = Least(n, P), NEW T, T = P \div G
    PROVE  /\ G \in Nat \ {0} /\ T \in Nat \ {0}
           /\ \A a \in 0..(G - 1), c \in 0..(T - 1) :
                /\ a * T + c \in 0..(P - 1) /\ a * T + c < G * T
                /\ (a * T + c) \div T = a /\ (a * T + c) % T = c
           /\ \A t \in 0..(P - 1) : t < G * T =>
                t \div T \in 0..(G - 1) /\ t % T \in 0..(T - 1) /\ t = (t \div T) * T + (t % T)
<1>1. G \in Nat \ {0} /\ G <= P
  BY DEF Least
<1>2. T \in Nat /\ G * T <= P
  BY <1>1, DivFacts, Zenon
<1>3. 1 <= T
  BY <1>1, DivLower
<1>4. T \in Nat \ {0} /\ G * T \in Nat
  BY <1>1, <1>2, <1>3
<1>5. ASSUME NEW a \in 0..(G - 1), NEW c \in 0..(T - 1)
      PROVE  /\ a * T + c \in 0..(P - 1) /\ a * T + c < G * T
             /\ (a * T + c) \div T = a /\ (a * T + c) % T = c
  <2>1. (a + 1) * T <= G * T
    BY <1>1, <1>4, MulMono
  <2>2. (a + 1) * T = a * T + T /\ a * T \in Nat
    BY <1>1, <1>4
  <2>3. a * T + c < G * T /\ a * T + c \in 0..(P - 1)
    BY <1>2, <1>4, <2>1, <2>2
  <2>4. (a * T + c) \div T = a /\ (a * T + c) % T = c
    <3>1. a \in Nat
      BY <1>1
    <3> QED
      BY ONLY <1>4, <3>1, c \in 0..(T - 1), DivOf, Zenon
  <2> QED
    BY <2>3, <2>4, Zenon
<1>6. ASSUME NEW t \in 0..(P - 1), t < G * T
      PROVE  t \div T \in 0..(G - 1) /\ t % T \in 0..(T - 1) /\ t = (t \div T) * T + (t % T)
  <2>1. t \in 0..(G * T - 1)
    BY <1>4, <1>6
  <2>2. PICK y \in 0..(G - 1), x \in 0..(T - 1) : y = t \div T /\ x = t % T /\ t = y * T + x
    BY ONLY <1>1, <1>4, <2>1, PlaceInBox
  <2> QED
    BY <2>2, Zenon
<1> QED
  BY <1>1, <1>4, <1>5, <1>6, Zenon

\* The thread of a group that sums up element m of job j, by its number t: the
\* one whose team has the job and whose part of it has the block of m.
SumsCell(r, n, box, j, m, t) ==
    LET P == r.g.nthr_per_group
        G == Least(n, P)
        T == P \div G
        xb == choose_x_blocking(r, box.nx, box.ny, T)
        jobs == Balance211(n, G, t \div T)
        part == Balance211((box.ny * box.nx) \div xb, T, t % T)
    IN  /\ t < G * T
        /\ j \in jobs[1]..(jobs[2] - 1)
        /\ m \div xb \in part[1]..(part[2] - 1)

\* Every element has such a thread, and only one.
LEMMA OneSumsCell ==
    ASSUME NEW r, r.g.nthr_per_group \in Nat \ {0}, r.b.x_block \in Nat \ {0},
           NEW n \in Nat \ {0}, NEW box, box.nx \in Nat \ {0}, box.ny \in Nat \ {0},
           box.nx % r.b.x_block = 0,
           NEW j \in 0..(n - 1), NEW m, m \in 0..(box.ny * box.nx - 1)
    PROVE  /\ \E t \in 0..(r.g.nthr_per_group - 1) : SumsCell(r, n, box, j, m, t)
           /\ \A t, v \in 0..(r.g.nthr_per_group - 1) :
                SumsCell(r, n, box, j, m, t) /\ SumsCell(r, n, box, j, m, v) => t = v
<1> DEFINE P == r.g.nthr_per_group
           G == Least(n, P)
           T == P \div G
           xb == choose_x_blocking(r, box.nx, box.ny, T)
           N == box.ny * box.nx
           B == N \div xb
<1>1. /\ G \in Nat \ {0} /\ T \in Nat \ {0}
      /\ \A a \in 0..(G - 1), c \in 0..(T - 1) :
            /\ a * T + c \in 0..(P - 1) /\ a * T + c < G * T
            /\ (a * T + c) \div T = a /\ (a * T + c) % T = c
      /\ \A t \in 0..(P - 1) : t < G * T =>
            t \div T \in 0..(G - 1) /\ t % T \in 0..(T - 1) /\ t = (t \div T) * T + (t % T)
  BY TeamFacts
<1>2. \A t : SumsCell(r, n, box, j, m, t) <=>
                /\ t < G * T
                /\ j \in Balance211(n, G, t \div T)[1]..(Balance211(n, G, t \div T)[2] - 1)
                /\ m \div xb \in Balance211(B, T, t % T)[1]..(Balance211(B, T, t % T)[2] - 1)
  BY Zenon DEF SumsCell
<1> HIDE DEF G, T
<1>t. T \in Nat \ {0} /\ G \in Nat \ {0}
  BY <1>1, Zenon
<1>3. xb \in Nat \ {0} /\ \E k \in Nat \ {0} : box.nx = k * xb
  <2>1. BlockOf(box.nx, xb)
    BY <1>t, BlockingFacts, Zenon
  <2> QED
    BY ONLY <2>1, Zenon DEF BlockOf
<1> HIDE DEF xb
<1>4. B \in Nat /\ N = B * xb /\ N \in Nat
  <2>1. PICK k \in Nat \ {0} : box.nx = k * xb
    BY <1>3, Zenon
  <2>2. PICK y \in Nat \ {0} : y = box.ny
    BY Zenon
  <2>3. PICK q \in Nat : q = y * k
    OBVIOUS
  <2>4. N = q * xb + 0 /\ 0 \in 0..(xb - 1)
    BY <1>3, <2>1, <2>2, <2>3
  <2>5. (q * xb + 0) \div xb = q
    BY <1>3, <2>4, DivOf
  <2>6. B = q
    BY <2>4, <2>5, Zenon
  <2> HIDE DEF B, N
  <2> QED
    BY <1>3, <2>4, <2>6
<1>5. m \in Nat /\ m < N
  BY <1>4
<1> HIDE DEF B, N
<1>6. m \div xb \in 0..(B - 1)
  <2>1. m \div xb \in Nat
    BY <1>3, <1>5, DivFacts, Zenon
  <2>2. B * xb <= m <=> B <= m \div xb
    BY <1>3, <1>4, <1>5, DivAtLeast, Zenon
  <2> QED
    BY <1>4, <1>5, <2>1, <2>2
<1>7. \E t \in 0..(P - 1) : SumsCell(r, n, box, j, m, t)
  <2>1. PICK a \in 0..(G - 1) : j \in Balance211(n, G, a)[1]..(Balance211(n, G, a)[2] - 1)
    BY <1>1, Balance211Covers, ZenonT(30)
  <2>2. PICK c \in 0..(T - 1) :
            m \div xb \in Balance211(B, T, c)[1]..(Balance211(B, T, c)[2] - 1)
    BY <1>1, <1>4, <1>6, Balance211Covers, ZenonT(30)
  <2>3. /\ a * T + c \in 0..(P - 1) /\ a * T + c < G * T
        /\ (a * T + c) \div T = a /\ (a * T + c) % T = c
    BY <1>1, Zenon
  <2>4. SumsCell(r, n, box, j, m, a * T + c)
    BY <1>2, <2>1, <2>2, <2>3, Zenon
  <2> QED
    BY <2>3, <2>4, Zenon
<1>8. ASSUME NEW t \in 0..(P - 1), NEW v \in 0..(P - 1),
             SumsCell(r, n, box, j, m, t), SumsCell(r, n, box, j, m, v)
      PROVE  t = v
  <2>1. /\ t \div T \in 0..(G - 1) /\ t % T \in 0..(T - 1) /\ t = (t \div T) * T + (t % T)
        /\ v \div T \in 0..(G - 1) /\ v % T \in 0..(T - 1) /\ v = (v \div T) * T + (v % T)
    BY <1>1, <1>2, <1>8, Zenon
  <2>2. t \div T = v \div T
    <3>1. /\ j \in Balance211(n, G, t \div T)[1]..(Balance211(n, G, t \div T)[2] - 1)
          /\ j \in Balance211(n, G, v \div T)[1]..(Balance211(n, G, v \div T)[2] - 1)
      BY <1>2, <1>8, Zenon
    <3>2. j \in Int
      OBVIOUS
    <3> QED
      BY ONLY <1>t, <2>1, <3>1, <3>2, n \in Nat \ {0}, Balance211Apart, Zenon
  <2>3. t % T = v % T
    <3>1. /\ m \div xb \in Balance211(B, T, t % T)[1]..(Balance211(B, T, t % T)[2] - 1)
          /\ m \div xb \in Balance211(B, T, v % T)[1]..(Balance211(B, T, v % T)[2] - 1)
      BY <1>2, <1>8, Zenon
    <3>2. m \div xb \in Int
      BY <1>4, <1>6
    <3> QED
      BY ONLY <1>t, <1>4, <2>1, <3>1, <3>2, Balance211Apart, Zenon
  <2> QED
    BY <2>1, <2>2, <2>3, Zenon
<1> QED
  BY <1>7, <1>8, Zenon DEF P

\* The part of a job, counted in blocks, that balance211 gives a thread of its
\* team, and the elements of that part.
IsShare(r, i, j, T, id, box, xb, part) ==
    /\ j \in Nat /\ box = JobBox(r, i, j) /\ IsBox(r, box) /\ r.b.job_size \in Nat
    /\ r.b.x_block \in Nat \ {0} /\ box.nx % r.b.x_block = 0
    /\ T \in Nat \ {0} /\ id \in 0..(T - 1)
    /\ xb = choose_x_blocking(r, box.nx, box.ny, T)
    /\ part = Balance211((box.ny * box.nx) \div xb, T, id)

ShareCells(r, j, box, xb, part) ==
    {Cell(r, box, j, m) :
        m \in {k \in 0..(box.ny * box.nx - 1) : k \div xb \in part[1]..(part[2] - 1)}}

\* What a thread sums up of a job of its team.
LEMMA JobShare ==
    ASSUME NEW r, NEW i, NEW j, NEW T, NEW id, NEW box, NEW xb, NEW part,
           IsShare(r, i, j, T, id, box, xb, part)
    PROVE  ReduceJob(r, i, j, T, id) = ShareCells(r, j, box, xb, part)
<1> SUFFICES ASSUME j \in Nat, box = JobBox(r, i, j), IsBox(r, box), r.b.job_size \in Nat,
                    r.b.x_block \in Nat \ {0}, box.nx % r.b.x_block = 0,
                    T \in Nat \ {0}, id \in 0..(T - 1)
             PROVE  ReduceJob(r, i, j, T, id)
                     = {Cell(r, box, j, m) :
                         m \in {k \in 0..(box.ny * box.nx - 1) : k \div xb \in part[1]..(part[2] - 1)}}
  BY Zenon DEF IsShare, ShareCells
<1>0. /\ xb = choose_x_blocking(r, box.nx, box.ny, T)
      /\ part = Balance211((box.ny * box.nx) \div xb, T, id)
  BY Zenon DEF IsShare
<1>1. box.nx \in Nat \ {0} /\ box.ny \in Nat \ {0}
  BY Zenon DEF IsBox
<1>2. xb \in Nat \ {0}
  <2>1. BlockOf(box.nx, choose_x_blocking(r, box.nx, box.ny, T))
    BY <1>1, BlockingFacts
  <2> QED
    BY <1>0, <2>1, Zenon DEF BlockOf
<1>3. PICK N \in Nat : N = box.ny * box.nx
  BY <1>1
<1>4. PICK B \in Nat : B = N \div xb /\ xb * B <= N
  <2>1. N \div xb \in Nat /\ xb * (N \div xb) <= N
    BY ONLY <1>2, N \in Nat, DivFacts, Zenon
  <2> QED
    BY ONLY <2>1, Zenon
<1>5. part = Balance211(B, T, id)
  BY <1>0, <1>3, <1>4, Zenon
<1>6. part[1] \in 0..B /\ part[2] \in 0..B /\ part[1] <= part[2]
  BY <1>5, Balance211Parts
<1>7. PICK from \in Nat, to \in Nat : from = part[1] /\ to = part[2] /\ to <= B /\ from <= to
  BY ONLY <1>6, B \in Nat
<1>8. ReduceJob(r, i, j, T, id) = Cells(r, box, j, from * xb, to * xb)
  <2>1. /\ from = Balance211((box.ny * box.nx) \div xb, T, id)[1]
        /\ to = Balance211((box.ny * box.nx) \div xb, T, id)[2]
    BY <1>0, <1>7, Zenon
  <2>2. j \in Nat /\ box = JobBox(r, i, j) /\ IsBox(r, box) /\ r.b.job_size \in Nat
    BY Zenon
  <2>3. xb = choose_x_blocking(r, box.nx, box.ny, T) /\ from <= to
    BY <1>0, <1>7, Zenon
  <2>4. IsPart(r, i, j, T, id, box, xb, from, to)
    BY ONLY <1>2, from \in Nat, to \in Nat, <2>1, <2>2, <2>3, Zenon DEF IsPart
  <2> QED
    BY ONLY <2>4, ReduceJobCells
<1>9. ASSUME NEW m
      PROVE  m \in (from * xb)..(to * xb - 1) <=> m \in 0..(N - 1) /\ m \div xb \in from..(to - 1)
  <2>1. from * xb \in Nat /\ to * xb \in Nat /\ to * xb <= N
    <3>1. to * xb <= B * xb
      BY <1>2, <1>7, MulMono, Zenon
    <3>2. B * xb = xb * B /\ B * xb \in Nat /\ to * xb \in Nat /\ from * xb \in Nat
      BY <1>2
    <3> QED
      BY <1>4, <3>1, <3>2
  <2>2. CASE m \in 0..(N - 1)
    <3>1. m \in Nat /\ xb \in Nat \ {0}
      BY ONLY <1>2, <2>2
    <3>2. m \div xb \in Nat
      BY ONLY <3>1, DivFacts
    <3>3. from * xb <= m <=> from <= m \div xb
      BY ONLY <3>1, from \in Nat, DivAtLeast
    <3>4. to * xb <= m <=> to <= m \div xb
      BY ONLY <3>1, to \in Nat, DivAtLeast
    <3> QED
      BY <2>1, <2>2, <3>1, <3>2, <3>3, <3>4
  <2>3. CASE m \notin 0..(N - 1)
    BY <2>1, <2>3
  <2> QED
    BY <2>2, <2>3, Zenon
<1>10. Cells(r, box, j, from * xb, to * xb)
        = {Cell(r, box, j, m) : m \in {k \in 0..(N - 1) : k \div xb \in from..(to - 1)}}
  BY <1>9, Zenon DEF Cells
<1> QED
  BY <1>3, <1>7, <1>8, <1>10, Zenon

\* cpu_reducer_2d_t: every element of the group's jobs is in one job, in the
\* part of one thread of the job's team.
LEMMA SharesOut2d ==
    ASSUME NEW r, Is2d(r), NEW grp \in 0..(r.g.ngroups - 1)
    PROVE  SharesOut(r, grp)
<1> DEFINE P == r.g.nthr_per_group
           J == r.b.job_size
           n == grp_njobs(r.b, r.g, grp)
           i0 == grp * P
           box(j) == JobBox(r, i0, j)
           size(j) == box(j).ny * box(j).nx
           all == JobElements(r, i0)
           Sums(t) == SumsOf(r, i0 + t)
           G == Least(n, P)
           T == P \div G
<1>1. IsBalanced(r) /\ r.kind = "2d" /\ r.b.x_block \in Nat \ {0}
  BY Zenon DEF Is2d
<1>2. n \in Nat \ {0} /\ P \in Nat \ {0} /\ J \in Nat \ {0}
  BY <1>1, GroupHasJobs, Zenon
<1>3. i0 \in Nat /\ i0 = i0 + 0 /\ 0 \in 0..(P - 1)
  BY <1>2
<1>4. ithr_njobs(r, i0) = n /\ ithr_job_off(r, i0) = grp_job_off(r.b, r.g, grp)
  BY <1>1, <1>3, GroupMember
<1>5. ASSUME NEW j \in 0..(n - 1)
      PROVE  /\ IsBox(r, box(j)) /\ box(j).nx % r.b.x_block = 0
             /\ box(j).nx \in Nat \ {0} /\ box(j).ny \in Nat \ {0} /\ j \in Nat
  <2>1. IsBox(r, box(j)) /\ box(j).nx % r.b.x_block = 0
    BY <1>4, JobHasBox, Zenon
  <2> HIDE DEF box
  <2> QED
    BY <1>2, <2>1 DEF IsBox
<1>6. all = UNION {Cells(r, box(j), j, 0, size(j)) : j \in 0..(n - 1)}
  <2>1. all = UNION {reduce_block(r, i0, j, 0, 0, box(j).ny, box(j).nx) : j \in 0..(n - 1)}
    BY <1>1, <1>4, Zenon DEF JobElements
  <2>2. ASSUME NEW j \in 0..(n - 1)
        PROVE  reduce_block(r, i0, j, 0, 0, box(j).ny, box(j).nx)
                = Cells(r, box(j), j, 0, size(j))
    <3>1. PICK b : b = box(j)
      BY Zenon
    <3>2. IsBox(r, b) /\ b.nx \in Nat \ {0} /\ b.ny \in Nat \ {0} /\ j \in Nat
      BY <1>5, <3>1, Zenon
    <3>3. 0 \div b.nx = 0 /\ 0 % b.nx = 0
      BY <3>2
    <3>4. reduce_block(r, i0, j, 0 \div b.nx, 0 % b.nx, b.ny, b.nx)
            = Cells(r, b, j, 0, 0 + b.nx * b.ny)
      <4>1. b = JobBox(r, i0, j) /\ r.b.job_size \in Nat
        BY <1>2, <3>1, Zenon
      <4>2. PICK z \in Nat, h \in Nat : z = 0 /\ h = b.ny /\ z % b.nx = 0
        BY <3>2, <3>3, Zenon
      <4>3. reduce_block(r, i0, j, z \div b.nx, z % b.nx, h, b.nx)
                = Cells(r, b, j, z, z + b.nx * h)
        BY ONLY <3>2, <4>1, <4>2, z \in Nat, h \in Nat, CellRows
      <4> QED
        BY ONLY <4>2, <4>3, Zenon
    <3>5. 0 + b.nx * b.ny = b.ny * b.nx
      BY <3>2
    <3> QED
      BY <3>1, <3>3, <3>4, <3>5, Zenon
  <2> HIDE DEF box, size, all
  <2> QED
    BY <2>1, <2>2, Zenon
<1>7. ASSUME NEW p
      PROVE  p \in all <=> \E j \in 0..(n - 1) : \E m \in 0..(size(j) - 1) : p = Cell(r, box(j), j, m)
  <2> HIDE DEF box, size, all
  <2>1. \A j : Cells(r, box(j), j, 0, size(j)) = {Cell(r, box(j), j, m) : m \in 0..(size(j) - 1)}
    BY Zenon DEF Cells
  <2>2. p \in all <=> \E j \in 0..(n - 1) : p \in Cells(r, box(j), j, 0, size(j))
    BY <1>6, Zenon
  <2>3. \A j : p \in Cells(r, box(j), j, 0, size(j)) <=>
                \E m \in 0..(size(j) - 1) : p = Cell(r, box(j), j, m)
    BY <2>1, Zenon
  <2> QED
    BY <2>2, <2>3, Zenon
<1>8. G \in Nat \ {0} /\ T \in Nat \ {0}
  BY <1>2, TeamFacts
<1>9. ASSUME NEW t \in 0..(P - 1), NEW p
      PROVE  p \in Sums(t) <=>
                \E j \in 0..(n - 1) : \E m \in 0..(size(j) - 1) :
                    p = Cell(r, box(j), j, m) /\ SumsCell(r, n, box(j), j, m, t)
  <2> DEFINE i == i0 + t
             jobs == Balance211(n, G, t \div T)
  <2>1. /\ id_in_group(r, i) = t /\ ithr_njobs(r, i) = n
        /\ ithr_job_off(r, i) = grp_job_off(r.b, r.g, grp)
    BY <1>1, GroupMember
  <2>2. Sums(t) = IF t >= G * T THEN {}
                  ELSE UNION {ReduceJob(r, i, j, T, t % T) : j \in jobs[1]..(jobs[2] - 1)}
    BY <1>1, <2>1, Zenon DEF SumsOf, Reduce2d
  <2>3. ASSUME NEW j PROVE JobBox(r, i, j) = box(j)
    BY <1>4, <2>1, Zenon DEF JobBox
  <2> HIDE DEF i, i0
  <2>4. G * T \in Nat /\ t \in Int
    BY <1>2, <1>8
  <2>5. CASE t >= G * T
    <3>0. Sums(t) = {}
      BY <2>2, <2>5, Zenon
    <3>1. ~(t < G * T)
      <4> HIDE DEF G, T
      <4> QED
        BY ONLY <2>4, <2>5
    <3>2. \A j, m : ~SumsCell(r, n, box(j), j, m, t)
      BY <3>1, Zenon DEF SumsCell
    <3> HIDE DEF Sums
    <3> QED
      BY <3>0, <3>2, Zenon
  <2>6. CASE ~(t >= G * T)
    <3>0. t < G * T
      BY <2>4, <2>6
    <3> HIDE DEF G
    <3>1. t \div T \in 0..(G - 1) /\ t % T \in 0..(T - 1)
      BY <1>2, <3>0, TeamFacts DEF G
    <3>2. jobs[1] \in 0..n /\ jobs[2] \in 0..n
      BY <1>2, <1>8, <3>1, Balance211Parts, Zenon
    <3>3. ASSUME NEW j \in jobs[1]..(jobs[2] - 1) PROVE j \in 0..(n - 1)
      <4> HIDE DEF jobs
      <4> QED
        BY <1>2, <3>2
    <3>4. ASSUME NEW j \in jobs[1]..(jobs[2] - 1)
          PROVE  p \in ReduceJob(r, i, j, T, t % T) <=>
                    \E m \in 0..(size(j) - 1) :
                        p = Cell(r, box(j), j, m) /\ SumsCell(r, n, box(j), j, m, t)
      <4> DEFINE xb == choose_x_blocking(r, box(j).nx, box(j).ny, T)
                 part == Balance211(size(j) \div xb, T, t % T)
      <4>1. j \in 0..(n - 1)
        BY <3>3, Zenon
      <4>2. IsBox(r, box(j)) /\ box(j).nx % r.b.x_block = 0 /\ j \in Nat
        BY <1>5, <4>1, Zenon
      <4>3. ReduceJob(r, i, j, T, t % T)
              = {Cell(r, box(j), j, m) :
                  m \in {k \in 0..(size(j) - 1) : k \div xb \in part[1]..(part[2] - 1)}}
        <5>1. /\ T \in Nat \ {0} /\ t % T \in 0..(T - 1) /\ box(j) = JobBox(r, i, j)
              /\ r.b.job_size \in Nat /\ r.b.x_block \in Nat \ {0}
          <6> HIDE DEF box, T
          <6> QED
            BY <1>1, <1>2, <1>8, <2>3, <3>1, Zenon
        <5>2. IsShare(r, i, j, T, t % T, box(j), xb, part)
          BY ONLY <4>2, <5>1, Zenon DEF IsShare
        <5>3. ReduceJob(r, i, j, T, t % T) = ShareCells(r, j, box(j), xb, part)
          BY ONLY <5>2, JobShare
        <5> QED
          BY <5>3, Zenon DEF ShareCells
      <4>4. ASSUME NEW m
            PROVE  SumsCell(r, n, box(j), j, m, t) <=> m \div xb \in part[1]..(part[2] - 1)
        BY <3>0, Zenon DEF SumsCell, G
      <4> HIDE DEF xb, part, size, box
      <4> QED
        BY <4>3, <4>4, Zenon
    <3>5. ASSUME NEW j, NEW m, SumsCell(r, n, box(j), j, m, t)
          PROVE  j \in jobs[1]..(jobs[2] - 1)
      BY <3>5, Zenon DEF SumsCell, G
    <3>6. Sums(t) = UNION {ReduceJob(r, i, j, T, t % T) : j \in jobs[1]..(jobs[2] - 1)}
      BY <2>2, <2>6, Zenon
    <3> HIDE DEF Sums, jobs, size, box, T
    <3>7. p \in Sums(t) <=> \E j \in jobs[1]..(jobs[2] - 1) : p \in ReduceJob(r, i, j, T, t % T)
      BY <3>6, Zenon
    <3> QED
      BY <3>3, <3>4, <3>5, <3>7, Zenon
  <2> QED
    BY <2>5, <2>6, Zenon
<1>10. \A p, q \in all : p[1] = q[1] => p = q
  <2> SUFFICES ASSUME NEW p \in all, NEW q \in all, p[1] = q[1] PROVE p = q
    BY Zenon
  <2>1. PICK j \in 0..(n - 1) : \E m \in 0..(size(j) - 1) : p = Cell(r, box(j), j, m)
    BY <1>7, Zenon
  <2>2. PICK m : m \in 0..(size(j) - 1) /\ p = Cell(r, box(j), j, m)
    BY <2>1, Zenon
  <2>3. PICK k \in 0..(n - 1) : \E l \in 0..(size(k) - 1) : q = Cell(r, box(k), k, l)
    BY <1>7, Zenon
  <2>4. PICK l : l \in 0..(size(k) - 1) /\ q = Cell(r, box(k), k, l)
    BY <2>3, Zenon
  <2>5. Cell(r, box(j), j, m)[1] = Cell(r, box(k), k, l)[1]
    BY <2>2, <2>4, Zenon
  <2>6. j = k /\ m = l
    BY <1>4, <2>2, <2>4, <2>5, CellUnique, SMTT(20)
  <2> QED
    BY <2>2, <2>4, <2>6, Zenon
<1>11. \A p \in all : \E d \in 0..(DstSize(r) - 1), e \in 0..(n * J - 1) : p = <<d, e>>
  <2> SUFFICES ASSUME NEW p \in all
               PROVE  \E d \in 0..(DstSize(r) - 1), e \in 0..(n * J - 1) : p = <<d, e>>
    BY Zenon
  <2>1. PICK j \in 0..(n - 1) : \E m \in 0..(size(j) - 1) : p = Cell(r, box(j), j, m)
    BY <1>7, Zenon
  <2>2. PICK m : m \in 0..(size(j) - 1) /\ p = Cell(r, box(j), j, m)
    BY <2>1, Zenon
  <2>3. IsBox(r, box(j)) /\ n \in Nat
    BY <1>2, <1>5, Zenon
  <2>4. Inside(r, n, Cell(r, box(j), j, m))
    BY <2>2, <2>3, CellInside, Zenon
  <2>5. Inside(r, n, p)
    BY <2>2, <2>4, Zenon
  <2> HIDE DEF n, all, box, size
  <2> QED
    BY <2>5, Zenon DEF Inside
<1> HIDE DEF Sums, all, size, box
<1>12. \A t \in 0..(P - 1) : Sums(t) \subseteq all
  <2> SUFFICES ASSUME NEW t \in 0..(P - 1), NEW p \in Sums(t) PROVE p \in all
    BY Zenon
  <2> QED
    BY <1>7, <1>9, ZenonT(30)
<1>13. \A p \in all : \E t \in 0..(P - 1) : p \in Sums(t)
  <2> SUFFICES ASSUME NEW p \in all PROVE \E t \in 0..(P - 1) : p \in Sums(t)
    BY Zenon
  <2>1. PICK j \in 0..(n - 1) : \E m \in 0..(size(j) - 1) : p = Cell(r, box(j), j, m)
    BY <1>7, Zenon
  <2>2. PICK m : m \in 0..(size(j) - 1) /\ p = Cell(r, box(j), j, m)
    BY <2>1, Zenon
  <2>3. \E t \in 0..(P - 1) : SumsCell(r, n, box(j), j, m, t)
    BY <1>1, <1>2, <1>5, <2>2, OneSumsCell, Zenon DEF size
  <2> QED
    BY <1>9, <2>2, <2>3, Zenon
<1>14. ASSUME NEW t \in 0..(P - 1), NEW v \in 0..(P - 1), NEW p \in all,
              p \in Sums(t), p \in Sums(v)
       PROVE  t = v
  <2>1. PICK j \in 0..(n - 1) : \E m \in 0..(size(j) - 1) :
            p = Cell(r, box(j), j, m) /\ SumsCell(r, n, box(j), j, m, t)
    BY <1>9, <1>14, Zenon
  <2>2. PICK m : /\ m \in 0..(size(j) - 1) /\ p = Cell(r, box(j), j, m)
                 /\ SumsCell(r, n, box(j), j, m, t)
    BY <2>1, Zenon
  <2>3. PICK k \in 0..(n - 1) : \E l \in 0..(size(k) - 1) :
            p = Cell(r, box(k), k, l) /\ SumsCell(r, n, box(k), k, l, v)
    BY <1>9, <1>14, Zenon
  <2>4. PICK l : /\ l \in 0..(size(k) - 1) /\ p = Cell(r, box(k), k, l)
                 /\ SumsCell(r, n, box(k), k, l, v)
    BY <2>3, Zenon
  <2>5. Cell(r, box(j), j, m)[1] = Cell(r, box(k), k, l)[1]
    BY <2>2, <2>4, Zenon
  <2>6. j = k /\ m = l
    BY <1>4, <2>2, <2>4, <2>5, CellUnique, SMTT(20) DEF box, size
  <2>7. SumsCell(r, n, box(j), j, m, v)
    BY <2>4, <2>6, Zenon
  <2> QED
    BY <1>1, <1>2, <1>5, <2>2, <2>7, OneSumsCell, Zenon DEF size
<1> QED
  BY <1>10, <1>11, <1>12, <1>13, <1>14, Zenon DEF SharesOut, Sums, all

-----------------------------------------------------------------------------
(* The layout of a group: its terms, its places and its sums.               *)

\* What depends on the reducer alone, without the rest of a use of it.
ReducerOf(u) == [kind |-> u.kind, b |-> u.b, g |-> u.g]

\* The use of a reducer by the threads of its group grp.
UseOfGroup(u, grp) ==
    /\ grp \in 0..(u.g.ngroups - 1)
    /\ u.own = GroupLayout(ReducerOf(u), grp).own
    /\ u.ptr = GroupLayout(ReducerOf(u), grp).ptr
    /\ u.sums = GroupLayout(ReducerOf(u), grp).sums

\* The threads of a group, as the group numbers them.
Members(u) == 0..(u.g.nthr_per_group - 1)

\* That is, with the number of a thread in the parallel section.
LEMMA GroupLayoutFacts ==
    ASSUME NEW u, NEW grp, NEW P, P = u.g.nthr_per_group,
           UseOfGroup(u, grp), IsBalanced(u)
    PROVE  /\ u.own = AsFunction(JobElements(ReducerOf(u), grp * P))
           /\ \A t \in Members(u) :
                /\ u.ptr[t] = get_local_ptr(ReducerOf(u), grp * P + t)
                /\ u.sums[t] = AsFunction(SumsOf(ReducerOf(u), grp * P + t))
<1> DEFINE r == ReducerOf(u)
           L == GroupLayout(r, grp)
<1>1. r.g.nthr_per_group = P
  BY Zenon DEF ReducerOf
<1> HIDE DEF r
<1>2. /\ L.own = AsFunction(JobElements(r, grp * P + 0))
      /\ \A t \in 0..(P - 1) : /\ L.ptr[t] = get_local_ptr(r, grp * P + t)
                               /\ L.sums[t] = AsFunction(SumsOf(r, grp * P + t))
  BY <1>1, Zenon DEF GroupLayout, SumsOf
<1>3. grp * P + 0 = grp * P
  <2>1. P \in Nat /\ grp \in Nat
    BY DEF IsBalanced, UseOfGroup
  <2> QED
    BY <2>1
<1> HIDE DEF L
<1>4. u.own = L.own /\ u.ptr = L.ptr /\ u.sums = L.sums
  BY Zenon DEF UseOfGroup, L, r
<1> QED
  BY <1>2, <1>3, <1>4, Zenon DEF Members, r

\* A set of pairs, as a function.
LEMMA AsFunctionFacts ==
    ASSUME NEW S, \A p, q \in S : p[1] = q[1] => p = q
    PROVE  /\ DOMAIN AsFunction(S) = {p[1] : p \in S}
           /\ \A p \in S : AsFunction(S)[p[1]] = p[2]
<1>1. DOMAIN AsFunction(S) = {p[1] : p \in S}
  BY Zenon DEF AsFunction
<1>2. ASSUME NEW p \in S PROVE AsFunction(S)[p[1]] = p[2]
  <2>1. p[1] \in {q[1] : q \in S}
    BY Zenon
  <2>2. AsFunction(S)[p[1]] = (CHOOSE q \in S : q[1] = p[1])[2]
    BY <2>1, Zenon DEF AsFunction
  <2>3. (CHOOSE q \in S : q[1] = p[1]) = p
    BY Zenon
  <2> QED
    BY <2>2, <2>3, Zenon
<1> QED
  BY <1>1, <1>2, Zenon

\* The use that a group makes of a reducer is such a sharing, and its elements
\* are of the partial results of its jobs.
LEMMA UseShared ==
    ASSUME NEW u, NEW grp, NEW P, P = u.g.nthr_per_group,
           UseOfGroup(u, grp), IsBalanced(u), SharesOut(ReducerOf(u), grp)
    PROVE  /\ SharedOut(u, Members(u))
           /\ \A d \in DOMAIN u.own :
                u.own[d] \in 0..(grp_njobs(u.b, u.g, grp) * u.b.job_size - 1)
           /\ \A d, e : <<d, e>> \in JobElements(ReducerOf(u), grp * P) =>
                            d \in DOMAIN u.own /\ u.own[d] = e
           /\ \A d \in DOMAIN u.own :
                <<d, u.own[d]>> \in JobElements(ReducerOf(u), grp * P)
<1> DEFINE r == ReducerOf(u)
           all == JobElements(r, grp * P)
           S(t) == SumsOf(r, grp * P + t)
<1>1. r.kind = u.kind /\ r.b = u.b /\ r.g = u.g /\ r.g.nthr_per_group = P
  BY Zenon DEF ReducerOf
<1> HIDE DEF r
<1>2. DstSize(r) = DstSize(u)
  BY <1>1, Zenon DEF DstSize
<1>3. Members(u) = 0..(P - 1)
  BY Zenon DEF Members
<1>4. /\ \A p, q \in all : p[1] = q[1] => p = q
      /\ \A p \in all : \E d \in 0..(DstSize(u) - 1),
                           e \in 0..(grp_njobs(u.b, u.g, grp) * u.b.job_size - 1) :
                                p = <<d, e>>
      /\ \A t \in Members(u) : S(t) \subseteq all
      /\ \A p \in all : \E t \in Members(u) : p \in S(t)
      /\ \A t, v \in Members(u) : \A p \in all : p \in S(t) /\ p \in S(v) => t = v
  <2>1. SharesOut(r, grp)
    BY Zenon DEF r
  <2>2. /\ \A p, q \in all : p[1] = q[1] => p = q
        /\ \A t \in 0..(P - 1) : S(t) \subseteq all
        /\ \A p \in all : \E t \in 0..(P - 1) : p \in S(t)
        /\ \A t, v \in 0..(P - 1) : \A p \in all : p \in S(t) /\ p \in S(v) => t = v
    BY <1>1, <2>1, Zenon DEF SharesOut
  <2>3. \A p \in all : \E d \in 0..(DstSize(r) - 1),
                         e \in 0..(grp_njobs(r.b, r.g, grp) * r.b.job_size - 1) : p = <<d, e>>
    BY <1>1, <2>1, Zenon DEF SharesOut
  <2> HIDE DEF all, S
  <2> QED
    BY ONLY <1>1, <1>2, <1>3, <2>2, <2>3, Zenon
<1>5. u.own = AsFunction(all) /\ \A t \in Members(u) : u.sums[t] = AsFunction(S(t))
  <2>1. /\ u.own = AsFunction(JobElements(ReducerOf(u), grp * P))
        /\ \A t \in Members(u) : u.sums[t] = AsFunction(SumsOf(ReducerOf(u), grp * P + t))
    BY GroupLayoutFacts
  <2> QED
    BY <2>1, Zenon DEF r
<1> HIDE DEF all, S
<1>6. DOMAIN u.own = {p[1] : p \in all} /\ \A p \in all : u.own[p[1]] = p[2]
  <2>1. \A p, q \in all : p[1] = q[1] => p = q
    BY <1>4, Zenon
  <2>2. /\ DOMAIN AsFunction(all) = {p[1] : p \in all}
        /\ \A p \in all : AsFunction(all)[p[1]] = p[2]
    BY ONLY <2>1, AsFunctionFacts, Zenon
  <2> QED
    BY ONLY <1>5, <2>2, Zenon
<1>7. ASSUME NEW t \in Members(u)
      PROVE  DOMAIN u.sums[t] = {p[1] : p \in S(t)} /\ \A p \in S(t) : u.sums[t][p[1]] = p[2]
  <2>1. \A p, q \in S(t) : p[1] = q[1] => p = q
    BY <1>4, Zenon
  <2>2. /\ DOMAIN AsFunction(S(t)) = {p[1] : p \in S(t)}
        /\ \A p \in S(t) : AsFunction(S(t))[p[1]] = p[2]
    BY ONLY <2>1, AsFunctionFacts, Zenon
  <2> QED
    BY <1>5, <2>2, Zenon
<1>8. \A t \in Members(u) : DOMAIN u.sums[t] \subseteq DOMAIN u.own
  BY <1>4, <1>6, <1>7
<1>9. \A d \in DOMAIN u.own : \E t \in Members(u) : d \in DOMAIN u.sums[t]
  BY <1>4, <1>6, <1>7
<1>10. ASSUME NEW t \in Members(u), NEW v \in Members(u), t # v,
              NEW d \in DOMAIN u.sums[t] \cap DOMAIN u.sums[v]
       PROVE  FALSE
  <2>1. PICK p \in S(t) : p[1] = d
    BY <1>7
  <2>2. PICK q \in S(v) : q[1] = d
    BY <1>7, Zenon
  <2>3. p = q /\ p \in all
    BY <1>4, <2>1, <2>2, Zenon
  <2> QED
    BY <1>4, <1>10, <2>3, Zenon
<1>11. ASSUME NEW t \in Members(u), NEW d \in DOMAIN u.sums[t]
       PROVE  u.sums[t][d] = u.own[d]
  <2>1. PICK p \in S(t) : p[1] = d
    BY <1>7, Zenon
  <2> QED
    BY <1>4, <1>6, <1>7, <2>1, Zenon
<1>12. ASSUME NEW d \in DOMAIN u.own
       PROVE  /\ d \in 0..(DstSize(u) - 1)
              /\ u.own[d] \in 0..(grp_njobs(u.b, u.g, grp) * u.b.job_size - 1)
              /\ <<d, u.own[d]>> \in all
  <2>1. PICK p \in all : p[1] = d
    BY <1>6, Zenon
  <2>2. PICK d0 \in 0..(DstSize(u) - 1),
             e \in 0..(grp_njobs(u.b, u.g, grp) * u.b.job_size - 1) : p = <<d0, e>>
    BY <1>4, <2>1, Zenon
  <2>3. d0 = d /\ u.own[d] = e
    BY <1>6, <2>1, <2>2, Zenon
  <2> QED
    BY <2>1, <2>2, <2>3, Zenon
<1>13. ASSUME NEW d, NEW e, <<d, e>> \in all PROVE d \in DOMAIN u.own /\ u.own[d] = e
  BY <1>6, <1>13, Zenon
<1> QED
  BY <1>8, <1>9, <1>10, <1>11, <1>12, <1>13, Zenon DEF SharedOut, r, all

\* What a balancer has found is a balance.
LEMMA FoundIsBalanced ==
    ASSUME NEW u, u.kind \in {"1d", "2d"}, Sensible(u.b), u.g = balance(u.b)
    PROVE  IsBalanced(u)
<1>1. PICK c \in 1..u.b.njobs :
        balance(u.b) = Assumption(u.b, c) /\ Fits(u.b, Assumption(u.b, c))
  BY BalanceChosen, Zenon
<1>2. /\ u.g.ngroups \in 1..u.b.nthr
      /\ u.g.ngroups <= u.b.njobs
      /\ u.g.nthr_per_group \in Nat \ {0}
      /\ u.g.ngroups * u.g.nthr_per_group <= u.b.nthr
      /\ u.g.njobs_per_group_ub = DivUp(u.b.njobs, u.g.ngroups)
  BY <1>1, AssumptionFacts
<1> QED
  BY <1>1, <1>2 DEF IsBalanced, Sensible

\* The balancer makes no group of more threads than there are terms.
LEMMA EnoughTerms ==
    ASSUME NEW b, Sensible(b), balance(b).nthr_per_group # 1
    PROVE  balance(b).nthr_per_group <= b.reduction_size
<1> DEFINE P == balance(b).nthr_per_group
<1>1. PICK c \in 1..b.njobs : balance(b) = Assumption(b, c)
  BY BalanceChosen, Zenon
<1> DEFINE x == b.nthr \div Least(b.njobs \div c, b.nthr)
<1>2. P = IF b.allow THEN Least(x, b.reduction_size) ELSE 1
  BY <1>1 DEF Assumption
<1> HIDE DEF x, P
<1>3. P = Least(x, b.reduction_size)
  BY <1>2, Zenon DEF P
<1>4. b.reduction_size \in Nat
  BY Zenon DEF Sensible
<1>5. CASE x <= b.reduction_size
  BY <1>3, <1>5, Zenon DEF Least, P
<1>6. CASE ~(x <= b.reduction_size)
  BY <1>3, <1>4, <1>6 DEF Least, P
<1> QED
  BY <1>5, <1>6, Zenon

\* The threads of a group share out the reduction dimension.
LEMMA GroupWorked ==
    ASSUME NEW u, u.g.nthr_per_group \in Nat \ {0}, u.b.reduction_size \in Nat,
           u.g.nthr_per_group <= u.b.reduction_size
    PROVE  WellWorked(u, Members(u))
<1> DEFINE P == u.g.nthr_per_group
           n == u.b.reduction_size
           from(t) == Balance211(n, P, t)[1]
           to(t) == Balance211(n, P, t)[2]
<1>1. P \in Nat \ {0} /\ n \in Nat /\ P <= n /\ Members(u) = 0..(P - 1)
  BY Zenon DEF Members
<1>2. \A t \in Members(u) : Work(u, t) = from(t)..(to(t) - 1)
  BY Zenon DEF Work
<1> HIDE DEF n, P
<1>3. \A t \in Members(u) : from(t) < to(t) /\ from(t) \in 0..n /\ to(t) \in 0..n
  BY <1>1, Balance211Partition, Balance211Parts, Zenon
<1>4. \A t, v \in Members(u), x \in Int :
        x \in from(t)..(to(t) - 1) /\ x \in from(v)..(to(v) - 1) => t = v
  BY <1>1, Balance211Apart, Zenon
<1>5. \A x \in 0..(n - 1) : \E t \in Members(u) : x \in from(t)..(to(t) - 1)
  BY <1>1, Balance211Covers, Zenon
<1> HIDE DEF from, to
<1>6. \A t \in Members(u) : from(t) # to(t) /\ \A x \in Work(u, t) : x \in 0..(n - 1)
  BY <1>1, <1>2, <1>3
<1>7. \A t, v \in Members(u) : t # v => Work(u, t) \cap Work(u, v) = {}
  <2> SUFFICES ASSUME NEW t \in Members(u), NEW v \in Members(u), NEW x \in Work(u, t) \cap Work(u, v)
               PROVE  t = v
    BY Zenon
  <2>1. x \in Int
    BY <1>1, <1>6
  <2> QED
    BY <1>2, <1>4, <2>1, ZenonT(30)
<1>8. UNION {Work(u, t) : t \in Members(u)} = 0..(n - 1)
  BY <1>2, <1>5, <1>6, Zenon
<1>9. \A t \in Members(u) : Balance211(n, P, t)[1] # Balance211(n, P, t)[2]
  BY <1>6, Zenon DEF from, to
<1> QED
  BY <1>1, <1>7, <1>8, <1>9, Zenon DEF WellWorked, n, P

\* Where get_local_ptr puts the threads of a group.
LEMMA GroupPtr ==
    ASSUME NEW u, IsBalanced(u), NEW grp, UseOfGroup(u, grp), NEW t \in Members(u)
    PROVE  /\ SpacePerThread(u) \in Nat /\ Owners(u) \in Nat
           /\ grp_njobs(u.b, u.g, grp) * u.b.job_size \in Nat
           /\ grp_njobs(u.b, u.g, grp) * u.b.job_size <= SpacePerThread(u)
           /\ IF OnResult(u, t)
              THEN /\ u.ptr[t].mem = "dst"
                   /\ u.ptr[t].off = grp_job_off(u.b, u.g, grp) * u.b.job_size
              ELSE /\ u.ptr[t].mem = "space"
                   /\ u.ptr[t].off = (grp * Owners(u) + t - (u.g.nthr_per_group - Owners(u))) * SpacePerThread(u)
                   /\ grp * Owners(u) + t - (u.g.nthr_per_group - Owners(u)) \in Nat
                   /\ grp * Owners(u) + t - (u.g.nthr_per_group - Owners(u)) + 1 <= u.g.ngroups * Owners(u)
<1> DEFINE P == u.g.nthr_per_group
           r == ReducerOf(u)
           i == grp * P + t
           c == IF u.kind = "1d" THEN 1 ELSE 0
<1>1. r.kind = u.kind /\ r.b = u.b /\ r.g = u.g
  BY Zenon DEF ReducerOf
<1> HIDE DEF r, P
<1>2. IsBalanced(r)
  BY <1>1, Zenon DEF IsBalanced
<1>3. /\ grp \in 0..(r.g.ngroups - 1) /\ r.g.nthr_per_group = P /\ P \in Nat \ {0}
      /\ r.g.ngroups \in Nat
      /\ t \in 0..(P - 1) /\ u.kind \in {"1d", "2d"}
  BY <1>1 DEF UseOfGroup, IsBalanced, Sensible, Members, P
<1>4. SpacePerThread(r) = SpacePerThread(u) /\ Owners(r) = Owners(u)
  BY <1>1, Zenon DEF SpacePerThread, Owners
<1>5. Owners(u) = P - c
  BY <1>1, <1>3, Zenon DEF Owners, P
<1>6. /\ i \in 0..(r.g.ngroups * r.g.nthr_per_group - 1)
      /\ group_id(r, i) = grp /\ id_in_group(r, i) = t
      /\ ithr_njobs(r, i) = grp_njobs(u.b, u.g, grp)
      /\ ithr_job_off(r, i) = grp_job_off(u.b, u.g, grp)
  <2>1. i = grp * r.g.nthr_per_group + t /\ t \in 0..(r.g.nthr_per_group - 1)
    BY <1>3, Zenon
  <2> HIDE DEF i
  <2>2. i \in 0..(r.g.ngroups * r.g.nthr_per_group - 1)
    BY <1>2, <1>3, <2>1, GroupMember, Zenon
  <2>3. group_id(r, i) = grp /\ id_in_group(r, i) = t
    <3>1. group_id(r, i) = grp
      BY <1>2, <1>3, <2>1, GroupMember, ZenonT(30)
    <3>0. grp \in 0..(r.g.ngroups - 1)
      BY <1>3, Zenon
    <3>2. \A tt \in 0..(r.g.nthr_per_group - 1) : \A ii :
             ii = grp * r.g.nthr_per_group + tt => id_in_group(r, ii) = tt
      BY ONLY <1>2, <3>0, GroupMember
    <3>3. id_in_group(r, i) = t
      BY ONLY <2>1, <3>2, Zenon
    <3> QED
      BY <3>1, <3>3, Zenon
  <2>4. /\ ithr_njobs(r, i) = grp_njobs(r.b, r.g, grp)
        /\ ithr_job_off(r, i) = grp_job_off(r.b, r.g, grp)
    BY <1>2, <1>3, <2>1, GroupMember, Zenon
  <2> QED
    BY <1>1, <2>2, <2>3, <2>4, Zenon
<1>7. u.ptr[t] = get_local_ptr(r, i)
  <2>1. P = u.g.nthr_per_group
    BY Zenon DEF P
  <2> QED
    BY <2>1, GroupLayoutFacts DEF r
<1> HIDE DEF i
<1>8. /\ SpacePerThread(u) \in Nat
      /\ grp_njobs(u.b, u.g, grp) * u.b.job_size \in Nat
      /\ grp_njobs(u.b, u.g, grp) * u.b.job_size <= SpacePerThread(u)
      /\ UsesSpace(r, i) =>
            /\ u.ptr[t].mem = "space"
            /\ u.ptr[t].off = OffsetFactor(r, i) * SpacePerThread(u)
      /\ ~UsesSpace(r, i) =>
            /\ u.ptr[t].mem = "dst"
            /\ u.ptr[t].off = grp_job_off(u.b, u.g, grp) * u.b.job_size
  <2>1. /\ SpacePerThread(r) \in Nat
        /\ ithr_njobs(r, i) * r.b.job_size \in Nat
        /\ ithr_njobs(r, i) * r.b.job_size <= SpacePerThread(r)
        /\ UsesSpace(r, i) =>
              /\ get_local_ptr(r, i).mem = "space"
              /\ get_local_ptr(r, i).off = OffsetFactor(r, i) * SpacePerThread(r)
        /\ ~UsesSpace(r, i) =>
              /\ get_local_ptr(r, i).mem = "dst"
              /\ get_local_ptr(r, i).off = ithr_job_off(r, i) * r.b.job_size
    BY <1>2, <1>6, LocalPtr, Zenon
  <2> QED
    BY ONLY <1>1, <1>4, <1>6, <1>7, <2>1, Zenon
<1>9. UsesSpace(r, i) <=> ~OnResult(u, t)
  BY <1>1, <1>6, Zenon DEF UsesSpace, OnResult
<1>10. c \in 0..1 /\ Owners(u) \in Nat /\ P - Owners(u) = c
  BY <1>3, <1>5
<1>11. OffsetFactor(r, i) = grp * Owners(u) + t - (P - Owners(u))
  BY <1>1, <1>4, <1>6, <1>10, Zenon DEF OffsetFactor
<1>12. UsesSpace(r, i) => OffsetFactor(r, i) \in Nat /\ OffsetFactor(r, i) + 1 <= u.g.ngroups * Owners(u)
  <2>1. UsesSpace(r, i) => OffsetFactor(r, i) \in Nat /\ OffsetFactor(r, i) + 1 <= r.g.ngroups * Owners(r)
    BY <1>2, <1>6, FactorsApart, Zenon
  <2> QED
    BY <1>1, <1>4, <2>1, Zenon
<1> HIDE DEF c
<1> QED
  BY <1>8, <1>9, <1>10, <1>11, <1>12, Zenon DEF P

\* Places S apart, with elements of fewer than S: two are the same only for the
\* same place.
LEMMA PlacesApart ==
    ASSUME NEW S \in Nat, NEW size \in Nat, size <= S,
           NEW p \in Nat, NEW q \in Nat, NEW e \in 0..(size - 1)
    PROVE  (p * S + e) - q * S \in 0..(size - 1) => p = q
<1> SUFFICES ASSUME (p * S + e) - q * S \in 0..(size - 1), p # q PROVE FALSE
  BY Zenon
<1>1. PICK x \in Nat, y \in Nat : x = p * S /\ y = q * S
  OBVIOUS
<1>2. (x + e) - y \in 0..(size - 1)
  BY <1>1, Zenon
<1>3. CASE p < q
  <2>1. (p + 1) * S <= q * S
    BY <1>3, MulMono
  <2>2. (p + 1) * S = p * S + S
    OBVIOUS
  <2>3. x + S <= y
    BY <1>1, <2>1, <2>2, Zenon
  <2> QED
    BY ONLY <1>2, <2>3, S \in Nat, size \in Nat, size <= S, x \in Nat, y \in Nat, e \in 0..(size - 1)
<1>4. CASE q < p
  <2>1. (q + 1) * S <= p * S
    BY <1>4, MulMono
  <2>2. (q + 1) * S = q * S + S
    OBVIOUS
  <2>3. y + S <= x
    BY <1>1, <2>1, <2>2, Zenon
  <2> QED
    BY ONLY <1>2, <2>3, S \in Nat, size \in Nat, size <= S, x \in Nat, y \in Nat, e \in 0..(size - 1)
<1> QED
  BY <1>3, <1>4

\* What get_local_ptr, init_scratchpad and reduce_nolock make of a group's use of
\* a reducer.
LEMMA GroupPlaced ==
    ASSUME NEW u, NEW grp, UseOfGroup(u, grp), IsBalanced(u),
           u.kind = "1d" \/ Is2d(u), u.g.nthr_per_group > 1
    PROVE  SharedOut(u, Members(u)) /\ WellPlaced(u, Members(u))
<1> DEFINE P == u.g.nthr_per_group
           size == grp_njobs(u.b, u.g, grp) * u.b.job_size
           off == grp_job_off(u.b, u.g, grp) * u.b.job_size
           all == JobElements(ReducerOf(u), grp * P)
           S == SpacePerThread(u)
           O == Owners(u)
           c == P - O
           f(t) == grp * O + t - c
<1>1. u.kind \in {"1d", "2d"} /\ P \in Nat /\ grp \in Nat /\ u.g.ngroups \in Nat
  BY DEF IsBalanced, UseOfGroup
<1>2. SharesOut(ReducerOf(u), grp)
  <2> DEFINE r == ReducerOf(u)
  <2>1. r.kind = u.kind /\ r.b = u.b /\ r.g = u.g
    BY Zenon DEF ReducerOf
  <2> HIDE DEF r
  <2>2. IsBalanced(r) /\ grp \in 0..(r.g.ngroups - 1)
    BY <2>1, Zenon DEF IsBalanced, UseOfGroup
  <2>3. CASE u.kind = "1d"
    BY <2>1, <2>2, <2>3, SharesOut1d, Zenon DEF r
  <2>4. CASE Is2d(u)
    <3>1. Is2d(r)
      BY <2>1, <2>2, <2>4, Zenon DEF Is2d
    <3> QED
      BY <2>2, <3>1, SharesOut2d, Zenon DEF r
  <2> QED
    BY <2>3, <2>4, Zenon
<1>3. /\ SharedOut(u, Members(u))
      /\ \A d \in DOMAIN u.own : u.own[d] \in 0..(size - 1)
      /\ \A d, e : <<d, e>> \in all => d \in DOMAIN u.own /\ u.own[d] = e
      /\ \A d \in DOMAIN u.own : <<d, u.own[d]>> \in all
  <2> HIDE DEF P
  <2>1. P = u.g.nthr_per_group
    BY Zenon DEF P
  <2> QED
    BY <1>2, <2>1, UseShared, SMTT(20)
<1>4. P \in Nat /\ P > 1 /\ Members(u) = 0..(P - 1)
  BY <1>1, Zenon DEF Members
<1> HIDE DEF P
<1>5. c = (IF u.kind = "1d" THEN 1 ELSE 0) /\ O \in Nat \ {0} /\ O = P - c
  BY <1>1, <1>4 DEF Owners, P
<1>6. ASSUME NEW t \in Members(u)
      PROVE  /\ S \in Nat /\ size \in Nat /\ size <= S
             /\ OnResult(u, t) => u.ptr[t].mem = "dst" /\ u.ptr[t].off = off
             /\ ~OnResult(u, t) =>
                    /\ u.ptr[t].mem = "space" /\ u.ptr[t].off = f(t) * S
                    /\ f(t) \in Nat /\ f(t) + 1 <= u.g.ngroups * O
  BY GroupPtr, Zenon DEF P
<1>7. S \in Nat /\ size \in Nat /\ size <= S
  <2>1. 0 \in Members(u)
    BY <1>4
  <2> QED
    BY <1>6, <2>1, Zenon
<1>8. SpaceSize(u) = u.g.ngroups * O * S
  BY Zenon DEF SpaceSize
<1>9. \A e \in Elems(u) : e \in 0..(size - 1)
  BY <1>3, Zenon DEF Elems
<1> HIDE DEF S, O, c, size, all
<1>10. ASSUME NEW t \in Members(u), OnResult(u, t), NEW d \in 0..(DstSize(u) - 1)
       PROVE  d - u.ptr[t].off \in Elems(u) <=> d \in DOMAIN u.own
  <2>1. u.ptr[t].off = off /\ u.kind = "1d"
    BY <1>6, <1>10, Zenon DEF OnResult
  <2>2. all = {<<off + e, e>> : e \in 0..(size - 1)}
    <3> DEFINE r == ReducerOf(u)
               i == grp * P
    <3>1. r.kind = u.kind /\ r.b = u.b /\ r.g = u.g
      BY Zenon DEF ReducerOf
    <3> HIDE DEF r
    <3>2. IsBalanced(r)
      BY <3>1, Zenon DEF IsBalanced
    <3>3. grp \in 0..(r.g.ngroups - 1) /\ 0 \in 0..(r.g.nthr_per_group - 1) /\ i = grp * r.g.nthr_per_group + 0
      BY <1>1, <1>4, <3>1 DEF UseOfGroup, P
    <3> HIDE DEF i
    <3>4. ithr_njobs(r, i) = grp_njobs(r.b, r.g, grp) /\ ithr_job_off(r, i) = grp_job_off(r.b, r.g, grp)
      BY <3>2, <3>3, GroupMember, Zenon
    <3>5. all = JobElements(r, i)
      BY Zenon DEF all, r, i
    <3>6. JobElements(r, i) = {<<ithr_job_off(r, i) * r.b.job_size + e, e>> :
                                    e \in 0..(ithr_njobs(r, i) * r.b.job_size - 1)}
      BY <2>1, <3>1, Zenon DEF JobElements
    <3>7. ithr_job_off(r, i) * r.b.job_size = off /\ ithr_njobs(r, i) * r.b.job_size = size
      BY <3>1, <3>4, Zenon DEF size
    <3> HIDE DEF off
    <3> QED
      BY <3>5, <3>6, <3>7, Zenon
  <2>3. off \in Nat
    <3>1. grp_job_off(u.b, u.g, grp) \in Nat /\ u.b.job_size \in Nat
      BY GroupHasJobs, Zenon DEF UseOfGroup
    <3> QED
      BY <3>1
  <2> HIDE DEF off
  <2>4. d \in Nat
    <3>1. DstSize(u) \in Nat
      BY <2>1 DEF DstSize, IsBalanced, Sensible
    <3> QED
      BY <3>1
  <2>5. ASSUME d \in DOMAIN u.own PROVE d - off \in Elems(u)
    <3>1. <<d, u.own[d]>> \in all
      BY <1>3, <2>5, Zenon
    <3>2. PICK e \in 0..(size - 1) : <<d, u.own[d]>> = <<off + e, e>>
      BY <2>2, <3>1, Zenon
    <3>3. d - off = u.own[d]
      BY <1>7, <2>3, <3>2
    <3> QED
      BY <2>5, <3>3, Zenon DEF Elems
  <2>6. ASSUME d - off \in Elems(u) PROVE d \in DOMAIN u.own
    <3>1. PICK e \in 0..(size - 1) : e = d - off
      BY <1>9, <2>6, Zenon
    <3>2. d = off + e
      BY <1>7, <2>3, <2>4, <3>1
    <3>3. <<d, e>> \in all
      BY <2>2, <3>2, Zenon
    <3> QED
      BY <1>3, <3>3, Zenon
  <2> QED
    BY <2>1, <2>5, <2>6, Zenon
<1> HIDE DEF off
<1>11. ASSUME NEW t \in Members(u), ~OnResult(u, t), NEW e \in Elems(u)
       PROVE  /\ u.ptr[t].off + e \in 0..(SpaceSize(u) - 1)
              /\ \A v \in Members(u) : ~OnResult(u, v) =>
                    ((u.ptr[t].off + e) - u.ptr[v].off \in Elems(u) <=> v = t)
  <2>1. PICK p \in Nat : p = f(t) /\ u.ptr[t].off = p * S /\ p + 1 <= u.g.ngroups * O
    BY <1>6, <1>11, Zenon
  <2>2. e \in 0..(size - 1)
    BY <1>9, Zenon
  <2>3. p * S + e \in 0..(SpaceSize(u) - 1)
    <3>1. PICK n \in Nat : n = u.g.ngroups * O
      BY <1>1, <1>4, <1>5
    <3>2. (p + 1) * S <= n * S
      BY <1>7, <2>1, <3>1, MulMono
    <3>3. (p + 1) * S = p * S + S /\ p * S \in Nat /\ n * S \in Nat
      BY <1>7
    <3>4. SpaceSize(u) = n * S
      BY <1>8, <3>1, Zenon
    <3> QED
      BY <1>7, <2>2, <3>2, <3>3, <3>4
  <2>4. ASSUME NEW v \in Members(u), ~OnResult(u, v)
        PROVE  (u.ptr[t].off + e) - u.ptr[v].off \in Elems(u) <=> v = t
    <3>1. PICK q \in Nat : q = f(v) /\ u.ptr[v].off = q * S
      BY <1>6, <2>4, Zenon
    <3>2. ASSUME (p * S + e) - q * S \in Elems(u) PROVE v = t
      <4>1. (p * S + e) - q * S \in 0..(size - 1)
        BY <1>9, <3>2, Zenon
      <4>2. p = q
        BY ONLY <1>7, <2>2, <4>1, PlacesApart, p \in Nat, q \in Nat, Zenon
      <4>3. PICK B \in Int : B = grp * O
        BY <1>1, <1>4, <1>5
      <4>4. B + t - c = B + v - c
        BY <2>1, <3>1, <4>2, <4>3, Zenon
      <4> QED
        BY ONLY <1>4, <1>5, <4>4, t \in Members(u), v \in Members(u), B \in Int
    <3>3. ASSUME v = t PROVE (p * S + e) - p * S \in Elems(u)
      <4>1. PICK x \in Nat : x = p * S
        BY <1>7
      <4>2. (x + e) - x = e
        BY <1>7, <2>2
      <4> QED
        BY <4>1, <4>2, Zenon
    <3>4. v = t => q = p
      BY <2>1, <3>1, Zenon
    <3> QED
      BY <2>1, <3>1, <3>2, <3>3, <3>4, Zenon
  <2> QED
    BY <2>1, <2>3, <2>4, Zenon
<1>12. ASSUME NEW k \in 0..(O - 1)
       PROVE  /\ c + k \in Members(u)
              /\ ~OnResult(u, c + k)
              /\ \A e \in Elems(u) :
                    u.ptr[c].off + e + k * S = u.ptr[c + k].off + e
  <2>1. c \in Members(u) /\ ~OnResult(u, c) /\ c + k \in Members(u) /\ ~OnResult(u, c + k)
    BY <1>1, <1>4, <1>5 DEF OnResult
  <2>2. PICK B \in Int : B = grp * O
    BY <1>1, <1>4, <1>5
  <2>3. f(c) = B + c - c /\ f(c + k) = B + (c + k) - c
    BY <2>2, Zenon
  <2>4. f(c) = B /\ f(c + k) = B + k
    BY <1>1, <1>4, <1>5, <2>3
  <2>5. u.ptr[c].off = B * S /\ u.ptr[c + k].off = (B + k) * S
    BY <1>6, <2>1, <2>4
  <2>6. (B + k) * S = B * S + k * S
    BY <1>7
  <2>7. PICK x \in Int, y \in Int : x = B * S /\ y = k * S
    BY <1>7
  <2>8. \A e \in Elems(u) : x + e + y = (x + y) + e
    BY <1>7, <1>9
  <2> QED
    BY <2>1, <2>5, <2>6, <2>7, <2>8, Zenon
<1>13. ASSUME NEW t \in Members(u), ~OnResult(u, t)
       PROVE  \E k \in 0..(O - 1) : t = c + k
  <2>1. t >= c /\ t - c \in 0..(O - 1) /\ t = c + (t - c)
    BY <1>1, <1>4, <1>5, <1>13 DEF OnResult
  <2> QED
    BY <2>1, Zenon
<1>14. \A t \in Members(u) : u.ptr[t].mem = IF OnResult(u, t) THEN "dst" ELSE "space"
  BY <1>6, Zenon
<1>15. WellPlaced(u, Members(u))
  BY <1>10, <1>11, <1>12, <1>13, <1>14, Zenon DEF WellPlaced, O, S, c, P
<1> QED
  BY <1>3, <1>15, Zenon
=============================================================================
