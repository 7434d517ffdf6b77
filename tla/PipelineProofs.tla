--------------------------- MODULE PipelineProofs ---------------------------
(***************************************************************************)
(* Theorems about Pipeline, for any number of threads, runs and events and *)
(* any depth of nesting: request secrets, the collector, run ids and       *)
(* sequence numbers stay with the run they belong to; the records of a run *)
(* reach the file once and in order, or their loss is told.                *)
(***************************************************************************)
EXTENDS Pipeline, SequenceTheorems, TLAPS

\* The part of the type invariant the context variables need.
NestTypes ==
  /\ ctx \in [Threads -> [run : RunOrNone, seq : Nat, collector : RunOrNone,
                          secrets : RunOrNone]]
  /\ stack \in [Threads -> Seq(Runs)]
  /\ stage \in [Runs -> Stage]
  /\ token \in [Runs -> [run : RunOrNone, seq : Nat]]
  /\ made \in Seq(Event)

\* No run is on two stacks, or twice on one.
Distinct ==
  \A t, u \in Threads : \A i \in DOMAIN stack[t], j \in DOMAIN stack[u] :
    stack[t][i] = stack[u][j] => t = u /\ i = j

\* The context of a thread is that of its innermost run, and each token
\* holds what the run below it had.
ContextOfInnermost ==
  \A t \in Threads :
    /\ ctx[t].run = Innermost(t)
    /\ \A i \in DOMAIN stack[t] :
         /\ stage[stack[t][i]] # "fresh"
         /\ token[stack[t][i]].run = IF i = 1 THEN NoRun ELSE stack[t][i - 1]

\* A run's events are numbered up to the number in the context or, while an
\* inner run is on, up to the one in the inner run's token.
NumbersClaimed ==
  \A k \in DOMAIN made : made[k].run # NoRun =>
    /\ stage[made[k].run] # "fresh"
    /\ \A t \in Threads :
         /\ made[k].run = ctx[t].run => made[k].seq <= ctx[t].seq
         /\ \A i \in DOMAIN stack[t] :
              i > 1 /\ made[k].run = stack[t][i - 1]
                => made[k].seq <= token[stack[t][i]].seq

Nest ==
  /\ NestTypes
  /\ Distinct
  /\ ContextOfInnermost
  /\ SecretsStayWithTheirRun
  /\ CollectorIsLive
  /\ NumbersClaimed
  /\ EventsNameTheirRun
  /\ SequenceIncreases

nestVars == <<ctx, stack, stage, token, made>>

-----------------------------------------------------------------------------
(* The stack of one thread.                                                *)

LEMMA TopOfStack ==
  ASSUME NEW s \in Seq(Runs), s # <<>>
  PROVE  /\ Len(s) \in Nat \ {0}
         /\ DOMAIN s = 1 .. Len(s)
         /\ Len(s) \in DOMAIN s
         /\ Last(s) = s[Len(s)]
         /\ Last(s) \in Runs
         /\ Range(s) = {s[i] : i \in 1 .. Len(s)}
<1>1. Len(s) \in Nat \ {0} /\ DOMAIN s = 1 .. Len(s)
  BY EmptySeq, LenProperties
<1> QED BY <1>1, ElementOfSeq DEF Last, Range

LEMMA Popped ==
  ASSUME NEW s \in Seq(Runs), s # <<>>
  PROVE  /\ Front(s) \in Seq(Runs)
         /\ Len(Front(s)) = Len(s) - 1
         /\ DOMAIN Front(s) = 1 .. Len(s) - 1
         /\ \A i \in 1 .. Len(s) - 1 : Front(s)[i] = s[i]
         /\ Front(s) # <<>> <=> Len(s) > 1
         /\ Front(s) # <<>> => Last(Front(s)) = s[Len(s) - 1]
<1>1. Len(s) \in Nat \ {0} /\ \A i \in 1 .. Len(s) : s[i] \in Runs
  BY TopOfStack, ElementOfSeq
<1>2. \A i \in 1 .. Len(s) - 1 : s[i] \in Runs
  BY <1>1
<1> DEFINE n == Len(s) - 1
<1>n. n \in Nat /\ n - 1 + 1 = n /\ \A i \in 1 .. n : 1 + i - 1 = i
  BY <1>1
<1>3. /\ SubSeq(s, 1, n) \in Seq(Runs)
      /\ Len(SubSeq(s, 1, n)) = n
      /\ \A i \in 1 .. n : SubSeq(s, 1, n)[i] = s[i]
  <2> HIDE DEF n
  <2>1. 1 \in Int /\ n \in Int /\ \A i \in 1 .. n : s[i] \in Runs
    BY <1>2, <1>n DEF n
  <2>2. /\ SubSeq(s, 1, n) \in Seq(Runs)
        /\ Len(SubSeq(s, 1, n)) = IF 1 <= n THEN n - 1 + 1 ELSE 0
        /\ \A i \in 1 .. n - 1 + 1 : SubSeq(s, 1, n)[i] = s[1 + i - 1]
    BY <2>1, SubSeqProperties
  <2> QED BY <2>2, <1>n
<1>4. Front(s) = SubSeq(s, 1, Len(s) - 1)
  BY DEF Front
<1>5. /\ Front(s) \in Seq(Runs)
      /\ Len(Front(s)) = Len(s) - 1
      /\ \A i \in 1 .. Len(s) - 1 : Front(s)[i] = s[i]
  BY <1>3, <1>4
<1>6. DOMAIN Front(s) = 1 .. Len(s) - 1
  BY <1>5, LenProperties
<1>7. Front(s) # <<>> <=> Len(s) > 1
  BY <1>1, <1>5, EmptySeq
<1>8. Front(s) # <<>> => Last(Front(s)) = s[Len(s) - 1]
  BY <1>1, <1>5, <1>7 DEF Last
<1> QED BY <1>5, <1>6, <1>7, <1>8

LEMMA Pushed ==
  ASSUME NEW s \in Seq(Runs), NEW r \in Runs
  PROVE  /\ Append(s, r) \in Seq(Runs)
         /\ Append(s, r) # <<>>
         /\ DOMAIN Append(s, r) = 1 .. Len(s) + 1
         /\ \A i \in DOMAIN s : i \in 1 .. Len(s) /\ Append(s, r)[i] = s[i]
         /\ Append(s, r)[Len(s) + 1] = r
         /\ Last(Append(s, r)) = r
<1>1. Len(s) \in Nat /\ DOMAIN s = 1 .. Len(s)
  BY LenProperties
<1>2. /\ Append(s, r) \in Seq(Runs)
      /\ Len(Append(s, r)) = Len(s) + 1
      /\ \A i \in 1 .. Len(s) : Append(s, r)[i] = s[i]
      /\ Append(s, r)[Len(s) + 1] = r
  BY AppendProperties
<1>3. DOMAIN Append(s, r) = 1 .. Len(s) + 1
  BY <1>1, <1>2, LenProperties
<1> QED BY <1>1, <1>2, <1>3, EmptySeq DEF Last

-----------------------------------------------------------------------------
(* How a step may change the runs in progress, and that each way keeps     *)
(* Nest.                                                                   *)

LEMMA BeginNests ==
  ASSUME Nest, NEW t \in Threads, NEW r \in Runs, NEW x \in {r, NoRun},
         BeginRun(t, r, x)
  PROVE  Nest'
<1> USE DEF Nest, NestTypes
<1> DEFINE s == stack[t]
<1>1. s \in Seq(Runs) /\ Len(s) \in Nat /\ DOMAIN s = 1 .. Len(s)
  BY LenProperties
<1>2. /\ stage[r] = "fresh"
      /\ stage' = [stage EXCEPT ![r] = "plan"]
      /\ stack' = [stack EXCEPT ![t] = Append(s, r)]
      /\ token' = [token EXCEPT ![r] = [run |-> ctx[t].run, seq |-> ctx[t].seq]]
      /\ ctx' = [ctx EXCEPT ![t] =
                     [@ EXCEPT !.run = r, !.seq = 0, !.secrets = x]]
      /\ made' = made
  BY DEF BeginRun
<1>3. /\ Append(s, r) \in Seq(Runs)
      /\ Append(s, r) # <<>>
      /\ DOMAIN Append(s, r) = 1 .. Len(s) + 1
      /\ \A i \in DOMAIN s : i \in 1 .. Len(s) /\ Append(s, r)[i] = s[i]
      /\ Append(s, r)[Len(s) + 1] = r
      /\ Last(Append(s, r)) = r
  BY <1>1, Pushed
<1>4. /\ stack'[t] = Append(s, r)
      /\ \A u \in Threads : u # t => stack'[u] = stack[u] /\ ctx'[u] = ctx[u]
      /\ ctx'[t].run = r /\ ctx'[t].seq = 0 /\ ctx'[t].secrets = x
      /\ ctx'[t].collector = ctx[t].collector
  BY <1>2
<1>5. NestTypes'
  <2>1. ctx' \in [Threads -> [run : RunOrNone, seq : Nat, collector : RunOrNone,
                              secrets : RunOrNone]]
    <3>1. ASSUME NEW c \in [run : RunOrNone, seq : Nat, collector : RunOrNone,
                            secrets : RunOrNone]
          PROVE  [c EXCEPT !.run = r, !.seq = 0, !.secrets = x]
                   \in [run : RunOrNone, seq : Nat, collector : RunOrNone,
                        secrets : RunOrNone]
      BY <3>1 DEF RunOrNone
    <3>2. ctx[t] \in [run : RunOrNone, seq : Nat, collector : RunOrNone,
                      secrets : RunOrNone]
      OBVIOUS
    <3> QED BY <1>2, <3>1, <3>2
  <2>2. stack' \in [Threads -> Seq(Runs)]
    BY <1>2, <1>3
  <2>3. stage' \in [Runs -> Stage]
    BY <1>2 DEF Stage
  <2>4. token' \in [Runs -> [run : RunOrNone, seq : Nat]]
    BY <1>2
  <2> QED BY <1>2, <2>1, <2>2, <2>3, <2>4
<1>6. \A u \in Threads : \A i \in DOMAIN stack[u] : stack[u][i] # r
  BY <1>2 DEF ContextOfInnermost
<1>7. Distinct'
  <2>1. \A w \in Threads : \A k \in DOMAIN stack'[w] :
           \/ w = t /\ k = Len(s) + 1 /\ stack'[w][k] = r
           \/ k \in DOMAIN stack[w] /\ stack'[w][k] = stack[w][k]
    <3> TAKE w \in Threads
    <3>1. CASE w # t
      BY <3>1, <1>4
    <3>2. ASSUME w = t, NEW k \in DOMAIN stack'[t]
          PROVE  \/ k = Len(s) + 1 /\ stack'[t][k] = r
                 \/ k \in DOMAIN s /\ stack'[t][k] = s[k]
      <4>1. k \in 1 .. Len(s) + 1
        BY <1>3, <1>4, <3>2
      <4>2. CASE k = Len(s) + 1
        BY <4>2, <1>3, <1>4
      <4>3. CASE k \in 1 .. Len(s)
        BY <4>3, <1>1, <1>3, <1>4
      <4> QED BY <4>1, <4>2, <4>3, <1>1
    <3> QED BY <3>1, <3>2
  <2> SUFFICES ASSUME NEW u \in Threads, NEW v \in Threads,
                      NEW i \in DOMAIN stack'[u], NEW j \in DOMAIN stack'[v],
                      stack'[u][i] = stack'[v][j]
               PROVE  u = v /\ i = j
    BY DEF Distinct
  <2>2. \/ u = t /\ i = Len(s) + 1 /\ stack'[u][i] = r
        \/ i \in DOMAIN stack[u] /\ stack'[u][i] = stack[u][i]
    BY <2>1
  <2>3. \/ v = t /\ j = Len(s) + 1 /\ stack'[v][j] = r
        \/ j \in DOMAIN stack[v] /\ stack'[v][j] = stack[v][j]
    BY <2>1
  <2> QED BY <2>2, <2>3, <1>6 DEF Distinct
<1>8. ContextOfInnermost'
  <2> SUFFICES ASSUME NEW u \in Threads
               PROVE  /\ ctx'[u].run = Innermost(u)'
                      /\ \A i \in DOMAIN stack'[u] :
                           /\ stage'[stack'[u][i]] # "fresh"
                           /\ token'[stack'[u][i]].run =
                                IF i = 1 THEN NoRun ELSE stack'[u][i - 1]
    BY DEF ContextOfInnermost
  <2>1. CASE u # t
    <3>1. Innermost(u)' = Innermost(u)
      BY <1>4, <2>1 DEF Innermost, Busy
    <3>2. \A i \in DOMAIN stack[u] :
            stack[u][i] \in Runs /\ stack[u][i] # r
      BY <1>6, LenProperties, ElementOfSeq
    <3> QED BY <1>2, <1>4, <2>1, <3>1, <3>2 DEF ContextOfInnermost
  <2>2. CASE u = t
    <3>1. ctx'[t].run = r /\ Innermost(t)' = r
      BY <1>3, <1>4 DEF Innermost, Busy
    <3>2. ASSUME NEW i \in DOMAIN s
          PROVE  /\ stage'[stack'[t][i]] # "fresh"
                 /\ token'[stack'[t][i]].run =
                      IF i = 1 THEN NoRun ELSE stack'[t][i - 1]
      <4>1. stack'[t][i] = s[i] /\ s[i] # r /\ s[i] \in Runs
        BY <1>1, <1>3, <1>4, <1>6, <3>2, ElementOfSeq
      <4>2. stage'[s[i]] = stage[s[i]] /\ token'[s[i]] = token[s[i]]
        BY <1>2, <4>1
      <4>3. i # 1 => i - 1 \in DOMAIN s /\ stack'[t][i - 1] = s[i - 1]
        BY <1>1, <1>3, <1>4, <3>2
      <4> QED BY <4>1, <4>2, <4>3, <3>2 DEF ContextOfInnermost
    <3>3. /\ stage'[r] # "fresh"
          /\ token'[r].run = IF Len(s) + 1 = 1 THEN NoRun ELSE s[Len(s)]
      <4>1. ctx[t].run = IF Len(s) + 1 = 1 THEN NoRun ELSE s[Len(s)]
        BY <1>1, EmptySeq, TopOfStack DEF ContextOfInnermost, Innermost, Busy
      <4> QED BY <1>2, <4>1
    <3>4. Len(s) + 1 # 1 => stack'[t][Len(s) + 1 - 1] = s[Len(s)]
      <4>1. Len(s) + 1 # 1 => Len(s) \in DOMAIN s /\ Len(s) + 1 - 1 = Len(s)
        BY <1>1
      <4> QED BY <4>1, <1>3, <1>4
    <3>5. \A i \in DOMAIN stack'[t] : i \in DOMAIN s \/ i = Len(s) + 1
      BY <1>1, <1>3, <1>4
    <3> QED BY <2>2, <1>3, <1>4, <3>1, <3>2, <3>3, <3>4, <3>5
  <2> QED BY <2>1, <2>2
<1>9. SecretsStayWithTheirRun'
  BY <1>3, <1>4 DEF SecretsStayWithTheirRun, Innermost, Busy
<1>10. CollectorIsLive'
  <2> SUFFICES ASSUME NEW u \in Threads, NEW c, c = ctx'[u].collector, c # NoRun
               PROVE  c \in Range(stack'[u]) /\ stage'[c] = "execute"
    BY DEF CollectorIsLive
  <2>1. c = ctx[u].collector
    BY <1>4
  <2>2. c \in Range(stack[u]) /\ stage[c] = "execute" /\ c \in Runs
    BY <2>1 DEF CollectorIsLive, RunOrNone
  <2>3. stage'[c] = "execute"
    BY <1>2, <2>2
  <2>4. c \in Range(stack'[u])
    <3>1. PICK i \in DOMAIN stack[u] : stack[u][i] = c
      BY <2>2 DEF Range
    <3>2. CASE u # t
      BY <3>1, <3>2, <1>4 DEF Range
    <3>3. CASE u = t
      <4>1. i \in 1 .. Len(s) + 1 /\ Append(s, r)[i] = c
        BY <3>1, <3>3, <1>1, <1>3
      <4> QED BY <4>1, <3>3, <1>3, <1>4 DEF Range
    <3> QED BY <3>2, <3>3
  <2> QED BY <2>3, <2>4
<1>11. NumbersClaimed'
  <2> SUFFICES ASSUME NEW k \in DOMAIN made, made[k].run # NoRun
               PROVE  /\ stage'[made[k].run] # "fresh"
                      /\ \A u \in Threads :
                           /\ made[k].run = ctx'[u].run => made[k].seq <= ctx'[u].seq
                           /\ \A i \in DOMAIN stack'[u] :
                                i > 1 /\ made[k].run = stack'[u][i - 1]
                                  => made[k].seq <= token'[stack'[u][i]].seq
    BY <1>2 DEF NumbersClaimed
  <2>0. made[k] \in Event
    BY LenProperties, ElementOfSeq
  <2>1. stage[made[k].run] # "fresh" /\ made[k].run # r /\ made[k].run \in Runs
    BY <1>2, <2>0 DEF NumbersClaimed, Event, RunOrNone
  <2>2. stage'[made[k].run] # "fresh"
    BY <1>2, <2>1
  <2>3. ASSUME NEW u \in Threads, u # t
        PROVE  /\ made[k].run = ctx'[u].run => made[k].seq <= ctx'[u].seq
               /\ \A i \in DOMAIN stack'[u] :
                    i > 1 /\ made[k].run = stack'[u][i - 1]
                      => made[k].seq <= token'[stack'[u][i]].seq
    <3>1. \A i \in DOMAIN stack[u] :
            stack[u][i] \in Runs /\ stack[u][i] # r
      BY <1>6, LenProperties, ElementOfSeq
    <3>2. /\ ctx'[u] = ctx[u] /\ stack'[u] = stack[u]
          /\ \A i \in DOMAIN stack[u] : token'[stack[u][i]] = token[stack[u][i]]
      BY <1>2, <1>4, <2>3, <3>1
    <3> QED BY <3>2 DEF NumbersClaimed
  <2>4. made[k].run = ctx'[t].run => made[k].seq <= ctx'[t].seq
    BY <1>4, <2>1
  <2>5. ASSUME NEW i \in DOMAIN s, i > 1, made[k].run = stack'[t][i - 1]
        PROVE  made[k].seq <= token'[stack'[t][i]].seq
    <3>1. stack'[t][i] = s[i] /\ s[i] # r /\ s[i] \in Runs
      BY <1>1, <1>3, <1>4, <1>6, <2>5, ElementOfSeq
    <3>2. i - 1 \in DOMAIN s /\ stack'[t][i - 1] = s[i - 1]
      BY <1>1, <1>3, <1>4, <2>5
    <3> QED BY <1>2, <2>5, <3>1, <3>2 DEF NumbersClaimed
  <2>6. ASSUME Len(s) + 1 > 1, made[k].run = stack'[t][Len(s) + 1 - 1]
        PROVE  made[k].seq <= token'[stack'[t][Len(s) + 1]].seq
    <3>0. Len(s) + 1 - 1 = Len(s) /\ Len(s) \in 1 .. Len(s) /\ s # <<>>
      BY <1>1, <2>6, EmptySeq
    <3>1. stack'[t][Len(s) + 1 - 1] = s[Len(s)] /\ s # <<>>
      BY <1>1, <1>3, <1>4, <3>0
    <3>2. s[Len(s)] = Innermost(t)
      BY <1>1, <3>1, TopOfStack DEF Innermost, Busy
    <3>3. made[k].run = ctx[t].run
      BY <2>6, <3>1, <3>2 DEF ContextOfInnermost
    <3>4. token'[stack'[t][Len(s) + 1]].seq = ctx[t].seq
      BY <1>2, <1>3, <1>4
    <3> QED BY <3>3, <3>4 DEF NumbersClaimed
  <2>7. \A i \in DOMAIN stack'[t] : i \in DOMAIN s \/ i = Len(s) + 1
    BY <1>1, <1>3, <1>4
  <2>8. \A i \in DOMAIN stack'[t] :
          i > 1 /\ made[k].run = stack'[t][i - 1]
            => made[k].seq <= token'[stack'[t][i]].seq
    BY <2>5, <2>6, <2>7
  <2> QED BY <2>2, <2>3, <2>4, <2>8
<1>12. EventsNameTheirRun' /\ SequenceIncreases'
  BY <1>2 DEF EventsNameTheirRun, SequenceIncreases
<1> QED BY <1>5, <1>7, <1>8, <1>9, <1>10, <1>11, <1>12

LEMMA LeaveNests ==
  ASSUME Nest, NEW t \in Threads, Busy(t), NEW how \in {"returned", "raised"},
         NEW c \in [run : RunOrNone, seq : Nat, collector : RunOrNone,
                    secrets : RunOrNone],
         c.run = token[Last(stack[t])].run, c.seq = token[Last(stack[t])].seq,
         c.secrets = NoRun,
         \/ c.collector = NoRun
         \/ /\ c.collector = ctx[t].collector
            /\ stage[Last(stack[t])] # "execute",
         Leave(t, how, c), token' = token, made' = made
  PROVE  Nest'
<1> USE DEF Nest, NestTypes
<1> DEFINE s == stack[t]  r == Last(s)  n == Len(s)
<1>1. /\ s \in Seq(Runs) /\ s # <<>>
      /\ n \in Nat \ {0} /\ DOMAIN s = 1 .. n
      /\ r = s[n] /\ r \in Runs /\ n \in DOMAIN s
  BY TopOfStack DEF Busy
<1>2. /\ stage' = [stage EXCEPT ![r] = how]
      /\ stack' = [stack EXCEPT ![t] = Front(s)]
      /\ ctx' = [ctx EXCEPT ![t] = c]
  BY DEF Leave
<1>3. /\ Front(s) \in Seq(Runs)
      /\ DOMAIN Front(s) = 1 .. n - 1
      /\ \A i \in 1 .. n - 1 : Front(s)[i] = s[i]
      /\ Front(s) # <<>> <=> n > 1
      /\ Front(s) # <<>> => Last(Front(s)) = s[n - 1]
  BY <1>1, Popped
<1>4. /\ stack'[t] = Front(s) /\ ctx'[t] = c
      /\ \A u \in Threads : u # t => stack'[u] = stack[u] /\ ctx'[u] = ctx[u]
  BY <1>2
<1>5. \A u \in Threads : \A i \in DOMAIN stack'[u] :
        /\ i \in DOMAIN stack[u] /\ stack'[u][i] = stack[u][i]
        /\ i > 1 => i - 1 \in DOMAIN stack[u] /\ stack'[u][i - 1] = stack[u][i - 1]
  <2> TAKE u \in Threads
  <2>1. CASE u = t
    <3>1. \A i \in 1 .. n - 1 :
            /\ i \in 1 .. n
            /\ i > 1 => i - 1 \in 1 .. n /\ i - 1 \in 1 .. n - 1
      BY <1>1
    <3> QED BY <2>1, <3>1, <1>1, <1>3, <1>4
  <2>2. CASE u # t
    <3>1. DOMAIN stack[u] = 1 .. Len(stack[u]) /\ Len(stack[u]) \in Nat
      BY LenProperties
    <3> QED BY <2>2, <1>4, <3>1
  <2> QED BY <2>1, <2>2
<1>6. NestTypes'
  BY <1>2, <1>3 DEF Stage
<1>7. Distinct'
  <2> SUFFICES ASSUME NEW u \in Threads, NEW v \in Threads,
                      NEW i \in DOMAIN stack'[u], NEW j \in DOMAIN stack'[v],
                      stack'[u][i] = stack'[v][j]
               PROVE  u = v /\ i = j
    BY DEF Distinct
  <2>1. /\ i \in DOMAIN stack[u] /\ stack'[u][i] = stack[u][i]
        /\ j \in DOMAIN stack[v] /\ stack'[v][j] = stack[v][j]
    BY <1>5
  <2>2. stack[u][i] = stack[v][j]
    BY <2>1
  <2>3. Distinct
    OBVIOUS
  <2> QED BY <2>1, <2>2, <2>3 DEF Distinct
<1>8. \A q \in Runs : stage[q] # "fresh" => stage'[q] # "fresh"
  BY <1>2
<1>9. c.run = IF n > 1 THEN s[n - 1] ELSE NoRun
  <2>1. token[s[n]].run = IF n = 1 THEN NoRun ELSE s[n - 1]
    BY <1>1 DEF ContextOfInnermost
  <2>2. n = 1 <=> ~(n > 1)
    <3>1. \A m \in Nat \ {0} : m = 1 <=> ~(m > 1)
      OBVIOUS
    <3>2. n \in Nat \ {0}
      BY <1>1
    <3> HIDE DEF n
    <3> QED BY <3>1, <3>2
  <2>3. c.run = token[s[n]].run
    BY <1>1
  <2> QED BY <2>1, <2>2, <2>3
<1>10. ContextOfInnermost'
  <2> SUFFICES ASSUME NEW u \in Threads
               PROVE  /\ ctx'[u].run = Innermost(u)'
                      /\ \A i \in DOMAIN stack'[u] :
                           /\ stage'[stack'[u][i]] # "fresh"
                           /\ token'[stack'[u][i]].run =
                                IF i = 1 THEN NoRun ELSE stack'[u][i - 1]
    BY DEF ContextOfInnermost
  <2>1. ctx'[u].run = Innermost(u)'
    <3>1. CASE u = t
      BY <3>1, <1>3, <1>4, <1>9 DEF Innermost, Busy
    <3>2. CASE u # t
      BY <3>2, <1>4 DEF Innermost, Busy, ContextOfInnermost
    <3> QED BY <3>1, <3>2
  <2>2. ASSUME NEW i \in DOMAIN stack'[u]
        PROVE  /\ stage'[stack'[u][i]] # "fresh"
               /\ token'[stack'[u][i]].run =
                    IF i = 1 THEN NoRun ELSE stack'[u][i - 1]
    <3>1. i \in DOMAIN stack[u] /\ stack'[u][i] = stack[u][i]
      BY <1>5, <2>2
    <3>2. i \in Nat \ {0} /\ stack[u][i] \in Runs
      BY <3>1, LenProperties, ElementOfSeq
    <3>3. i # 1 => stack'[u][i - 1] = stack[u][i - 1]
      <4>1. i # 1 => i > 1
        BY <3>2
      <4> QED BY <4>1, <1>5, <2>2
    <3>4. /\ stage[stack[u][i]] # "fresh"
          /\ token[stack[u][i]].run = IF i = 1 THEN NoRun ELSE stack[u][i - 1]
      BY <3>1 DEF ContextOfInnermost
    <3> QED BY <3>1, <3>2, <3>3, <3>4, <1>8
  <2> QED BY <2>1, <2>2
<1>11. SecretsStayWithTheirRun'
  <2> SUFFICES ASSUME NEW u \in Threads
               PROVE  ctx'[u].secrets \in {NoRun, Innermost(u)'}
    BY DEF SecretsStayWithTheirRun
  <2>1. CASE u = t
    BY <2>1, <1>4
  <2>2. CASE u # t
    BY <2>2, <1>4 DEF SecretsStayWithTheirRun, Innermost, Busy
  <2> QED BY <2>1, <2>2
<1>12. CollectorIsLive'
  <2> SUFFICES ASSUME NEW u \in Threads, NEW q, q = ctx'[u].collector, q # NoRun
               PROVE  q \in Range(stack'[u]) /\ stage'[q] = "execute"
    BY DEF CollectorIsLive
  <2>1. q = ctx[u].collector /\ (u = t => stage[r] # "execute")
    BY <1>4
  <2>2. /\ q \in Range(stack[u]) /\ stage[q] = "execute" /\ q \in Runs
    BY <2>1 DEF CollectorIsLive, RunOrNone
  <2>3. PICK i \in DOMAIN stack[u] : stack[u][i] = q
    BY <2>2 DEF Range
  <2>4. q # r
    BY <2>1, <2>2, <2>3, <1>1 DEF Distinct
  <2>5. stage'[q] = "execute"
    BY <1>2, <2>2, <2>4
  <2>6. i \in DOMAIN stack'[u] /\ stack'[u][i] = q
    <3>1. CASE u # t
      BY <3>1, <2>3, <1>4
    <3>2. CASE u = t
      <4>1. i \in 1 .. n /\ i # n
        BY <3>2, <2>3, <2>4, <1>1
      <4>2. i \in 1 .. n - 1
        BY <4>1, <1>1
      <4> QED BY <4>2, <3>2, <2>3, <1>3, <1>4
    <3> QED BY <3>1, <3>2
  <2> QED BY <2>5, <2>6 DEF Range
<1>13. NumbersClaimed'
  <2> SUFFICES ASSUME NEW k \in DOMAIN made, made[k].run # NoRun
               PROVE  /\ stage'[made[k].run] # "fresh"
                      /\ \A u \in Threads :
                           /\ made[k].run = ctx'[u].run => made[k].seq <= ctx'[u].seq
                           /\ \A i \in DOMAIN stack'[u] :
                                i > 1 /\ made[k].run = stack'[u][i - 1]
                                  => made[k].seq <= token'[stack'[u][i]].seq
    BY DEF NumbersClaimed
  <2>0. made[k] \in Event
    BY LenProperties, ElementOfSeq
  <2>1. stage'[made[k].run] # "fresh"
    BY <1>8, <2>0 DEF NumbersClaimed, Event, RunOrNone
  <2>2. ASSUME NEW u \in Threads, made[k].run = ctx'[u].run
        PROVE  made[k].seq <= ctx'[u].seq
    <3>1. CASE u # t
      BY <3>1, <1>4, <2>2 DEF NumbersClaimed
    <3>2. CASE u = t
      <4>1. n > 1 /\ made[k].run = s[n - 1]
        BY <3>2, <2>2, <1>4, <1>9
      <4>2. made[k].seq <= token[s[n]].seq
        BY <4>1, <1>1 DEF NumbersClaimed
      <4> QED BY <4>2, <3>2, <1>1, <1>4
    <3> QED BY <3>1, <3>2
  <2>3. \A u \in Threads : \A i \in DOMAIN stack'[u] :
          i > 1 /\ made[k].run = stack'[u][i - 1]
            => made[k].seq <= token'[stack'[u][i]].seq
    BY <1>5 DEF NumbersClaimed
  <2> QED BY <2>1, <2>2, <2>3
<1>14. EventsNameTheirRun' /\ SequenceIncreases'
  BY DEF EventsNameTheirRun, SequenceIncreases
<1> QED BY <1>6, <1>7, <1>10, <1>11, <1>12, <1>13, <1>14

LEMMA StageNests ==
  ASSUME Nest, NEW t \in Threads, Busy(t),
         NEW st \in {"execute", "verify", "flush"},
         stage' = [stage EXCEPT ![Last(stack[t])] = st],
         ctx' \in [Threads -> [run : RunOrNone, seq : Nat, collector : RunOrNone,
                              secrets : RunOrNone]],
         \A u \in Threads : /\ ctx'[u].run = ctx[u].run
                            /\ ctx'[u].seq = ctx[u].seq
                            /\ ctx'[u].secrets = ctx[u].secrets
                            /\ u # t => ctx'[u].collector = ctx[u].collector,
         \/ ctx'[t].collector = NoRun
         \/ ctx'[t].collector = Last(stack[t]) /\ st = "execute"
         \/ /\ ctx'[t].collector = ctx[t].collector
            /\ stage[Last(stack[t])] # "execute",
         stack' = stack, token' = token, made' = made
  PROVE  Nest'
<1> USE DEF Nest, NestTypes
<1> DEFINE r == Last(stack[t])
<1>1. /\ stack[t] \in Seq(Runs) /\ stack[t] # <<>>
      /\ r \in Runs /\ Len(stack[t]) \in DOMAIN stack[t]
      /\ r = stack[t][Len(stack[t])]
  BY TopOfStack DEF Busy
<1>2. \A q \in Runs : stage[q] # "fresh" => stage'[q] # "fresh"
  OBVIOUS
<1>3. \A u \in Threads : \A i \in DOMAIN stack[u] : stack[u][i] \in Runs
  BY LenProperties, ElementOfSeq
<1>4. NestTypes'
  BY DEF Stage
<1>5. Distinct'
  BY DEF Distinct
<1>6. ContextOfInnermost'
  BY <1>2, <1>3 DEF ContextOfInnermost, Innermost, Busy
<1>7. SecretsStayWithTheirRun'
  BY DEF SecretsStayWithTheirRun, Innermost, Busy
<1>8. CollectorIsLive'
  <2> SUFFICES ASSUME NEW u \in Threads, NEW q, q = ctx'[u].collector, q # NoRun
               PROVE  q \in Range(stack[u]) /\ stage'[q] = "execute"
    BY DEF CollectorIsLive
  <2>1. CASE u = t /\ q = r /\ st = "execute"
    BY <2>1, <1>1 DEF Range
  <2>2. CASE q = ctx[u].collector /\ (u = t => stage[r] # "execute")
    <3>1. q \in Range(stack[u]) /\ stage[q] = "execute" /\ q \in Runs
      BY <2>2 DEF CollectorIsLive, RunOrNone
    <3>2. PICK i \in DOMAIN stack[u] : stack[u][i] = q
      BY <3>1 DEF Range
    <3>3. q # r
      BY <2>2, <3>1, <3>2, <1>1 DEF Distinct
    <3> QED BY <3>1, <3>3
  <2> QED BY <2>1, <2>2
<1>9. NumbersClaimed'
  <2>0. \A k \in DOMAIN made : made[k] \in Event
    BY LenProperties, ElementOfSeq
  <2>1. \A k \in DOMAIN made : made[k].run # NoRun => made[k].run \in Runs
    BY <2>0 DEF Event, RunOrNone
  <2> QED BY <2>1, <1>2 DEF NumbersClaimed
<1>10. EventsNameTheirRun' /\ SequenceIncreases'
  BY DEF EventsNameTheirRun, SequenceIncreases
<1> QED BY <1>4, <1>5, <1>6, <1>7, <1>8, <1>9, <1>10

LEMMA ClaimNests ==
  ASSUME Nest, NEW t \in Threads, NEW valid \in BOOLEAN,
         Claim(t, Assemble(t, valid))
  PROVE  Nest'
<1> USE DEF Nest, NestTypes
<1> DEFINE e == Assemble(t, valid)
           here == ctx[t].run
           next == IF here = NoRun THEN ctx[t].seq ELSE ctx[t].seq + 1
<1>0. \A k \in DOMAIN made : made[k].seq \in Nat
  <2>1. \A k \in DOMAIN made : made[k] \in Event
    BY LenProperties, ElementOfSeq
  <2> QED BY <2>1 DEF Event
<1>1. /\ made' = Append(made, e)
      /\ ctx' = [ctx EXCEPT ![t].seq = IF here = NoRun THEN @ ELSE @ + 1]
      /\ stack' = stack /\ stage' = stage /\ token' = token
  BY DEF Claim
<1>2. /\ ctx[t].seq \in Nat /\ here \in RunOrNone /\ Innermost(t) = here
  BY DEF ContextOfInnermost
<1>3. /\ e.run = here /\ e.writer = here
      /\ here # NoRun => e.seq = ctx[t].seq + 1
  BY <1>2 DEF Assemble, NextSequence
<1>4. e \in Event
  <2>1. Len(made) + 1 \in Nat /\ NextSequence(t) \in Nat
    BY <1>2, LenProperties DEF NextSequence
  <2> QED BY <1>2, <2>1 DEF Assemble, Event
<1>5. /\ ctx'[t].seq = next
      /\ \A u \in Threads : /\ ctx'[u].run = ctx[u].run
                            /\ ctx'[u].collector = ctx[u].collector
                            /\ ctx'[u].secrets = ctx[u].secrets
                            /\ ctx'[u].seq \in Nat
                            /\ ctx[u].seq <= ctx'[u].seq
                            /\ u # t => ctx'[u].seq = ctx[u].seq
  BY <1>1, <1>2
<1> HIDE DEF e
<1>6. /\ Len(made) \in Nat /\ DOMAIN made = 1 .. Len(made)
      /\ made' \in Seq(Event) /\ DOMAIN made' = 1 .. Len(made) + 1
      /\ \A k \in DOMAIN made : made'[k] = made[k]
      /\ made'[Len(made) + 1] = e
  <2>1. Len(made) \in Nat /\ DOMAIN made = 1 .. Len(made)
    BY LenProperties
  <2>2. /\ made' \in Seq(Event) /\ Len(made') = Len(made) + 1
        /\ \A k \in 1 .. Len(made) : made'[k] = made[k]
        /\ made'[Len(made) + 1] = e
    BY <1>1, <1>4, AppendProperties
  <2>3. DOMAIN made' = 1 .. Len(made) + 1
    BY <2>2, LenProperties
  <2> QED BY <2>1, <2>2, <2>3
<1>7. \A k \in DOMAIN made' :
        \/ k \in DOMAIN made /\ k < Len(made) + 1 /\ made'[k] = made[k]
        \/ k = Len(made) + 1 /\ made'[k] = e
  BY <1>6
<1>8. NestTypes'
  <2>1. ctx' \in [Threads -> [run : RunOrNone, seq : Nat, collector : RunOrNone,
                              secrets : RunOrNone]]
    <3>1. ASSUME NEW c \in [run : RunOrNone, seq : Nat, collector : RunOrNone,
                            secrets : RunOrNone],
                 NEW m \in Nat
          PROVE  [c EXCEPT !.seq = m]
                   \in [run : RunOrNone, seq : Nat, collector : RunOrNone,
                        secrets : RunOrNone]
      BY <3>1
    <3>2. ctx[t] \in [run : RunOrNone, seq : Nat, collector : RunOrNone,
                      secrets : RunOrNone]
      OBVIOUS
    <3>3. next \in Nat
      BY <1>2
    <3>4. ctx' = [ctx EXCEPT ![t] = [ctx[t] EXCEPT !.seq = next]]
      BY <1>1
    <3> HIDE DEF next
    <3> QED BY <3>1, <3>2, <3>3, <3>4
  <2> QED BY <2>1, <1>1, <1>6
<1>9. Distinct' /\ ContextOfInnermost'
  BY <1>1, <1>5 DEF Distinct, ContextOfInnermost, Innermost, Busy
<1>10. SecretsStayWithTheirRun' /\ CollectorIsLive'
  BY <1>1, <1>5 DEF SecretsStayWithTheirRun, CollectorIsLive, Innermost, Busy
<1>11. EventsNameTheirRun'
  BY <1>3, <1>7 DEF EventsNameTheirRun
<1>12. \A k \in DOMAIN made :
         made[k].run = here /\ here # NoRun => made[k].seq <= ctx[t].seq
  BY DEF NumbersClaimed
<1>13. SequenceIncreases'
  <2> SUFFICES ASSUME NEW i \in DOMAIN made', NEW j \in DOMAIN made', i < j,
                      made'[i].run = made'[j].run, made'[i].run # NoRun
               PROVE  made'[i].seq < made'[j].seq
    BY DEF SequenceIncreases
  <2>1. i \in DOMAIN made /\ made'[i] = made[i]
    BY <1>6, <1>7
  <2>2. CASE j \in DOMAIN made
    BY <2>1, <2>2, <1>6 DEF SequenceIncreases
  <2>3. CASE j = Len(made) + 1
    <3>1. made[i].run = here /\ here # NoRun
      BY <2>1, <2>3, <1>3, <1>6
    <3>2. made[i].seq <= ctx[t].seq /\ made'[j].seq = ctx[t].seq + 1
      BY <2>1, <2>3, <3>1, <1>3, <1>6, <1>12
    <3>3. made[i].seq \in Nat
      BY <2>1, <1>0
    <3> QED BY <2>1, <3>2, <3>3, <1>2
  <2> QED BY <1>7, <2>2, <2>3
<1>14. NumbersClaimed'
  <2> SUFFICES ASSUME NEW k \in DOMAIN made', made'[k].run # NoRun
               PROVE  /\ stage[made'[k].run] # "fresh"
                      /\ \A u \in Threads :
                           /\ made'[k].run = ctx'[u].run
                                => made'[k].seq <= ctx'[u].seq
                           /\ \A i \in DOMAIN stack[u] :
                                i > 1 /\ made'[k].run = stack[u][i - 1]
                                  => made'[k].seq <= token[stack[u][i]].seq
    BY <1>1 DEF NumbersClaimed
  <2>1. CASE k \in DOMAIN made
    <3>1. made'[k] = made[k] /\ made[k].seq \in Nat
      BY <2>1, <1>0, <1>6
    <3>2. /\ stage[made[k].run] # "fresh"
          /\ \A u \in Threads :
               /\ made[k].run = ctx[u].run => made[k].seq <= ctx[u].seq
               /\ \A i \in DOMAIN stack[u] :
                    i > 1 /\ made[k].run = stack[u][i - 1]
                      => made[k].seq <= token[stack[u][i]].seq
      BY <2>1, <3>1 DEF NumbersClaimed
    <3>3. \A u \in Threads : made[k].run = ctx'[u].run => made[k].seq <= ctx'[u].seq
      BY <3>1, <3>2, <1>5
    <3> QED BY <3>1, <3>2, <3>3
  <2>2. CASE k = Len(made) + 1
    <3>1. made'[k] = e /\ here # NoRun
      BY <2>2, <1>3, <1>6
    <3>2. /\ stack[t] \in Seq(Runs) /\ stack[t] # <<>>
          /\ Len(stack[t]) \in DOMAIN stack[t] /\ here = stack[t][Len(stack[t])]
      BY <3>1, <1>2, TopOfStack DEF Innermost, Busy
    <3>3. stage[here] # "fresh"
      BY <3>2 DEF ContextOfInnermost
    <3>4. ASSUME NEW u \in Threads, here = ctx'[u].run
          PROVE  e.seq <= ctx'[u].seq
      <4>1. Innermost(u) = here
        BY <1>5, <3>4 DEF ContextOfInnermost
      <4>2. stack[u] # <<>> /\ here = Last(stack[u])
        BY <4>1, <3>1 DEF Innermost, Busy
      <4>3. Len(stack[u]) \in DOMAIN stack[u] /\ here = stack[u][Len(stack[u])]
        BY <4>2, TopOfStack
      <4>4. u = t
        <5>1. Distinct
          OBVIOUS
        <5>2. stack[u][Len(stack[u])] = stack[t][Len(stack[t])]
          BY <4>3, <3>2
        <5> QED BY <5>1, <5>2, <4>3, <3>2 DEF Distinct
      <4> QED BY <4>4, <3>1, <1>2, <1>3, <1>5
    <3>5. ASSUME NEW u \in Threads, NEW i \in DOMAIN stack[u], i > 1,
                 here = stack[u][i - 1]
          PROVE  FALSE
      <4>1. DOMAIN stack[u] = 1 .. Len(stack[u]) /\ Len(stack[u]) \in Nat
        BY LenProperties
      <4>2. i - 1 \in DOMAIN stack[u]
        BY <3>5, <4>1
      <4>3. u = t /\ i - 1 = Len(stack[t])
        <5>1. Distinct
          OBVIOUS
        <5>2. stack[u][i - 1] = stack[t][Len(stack[t])]
          BY <3>2, <3>5
        <5> QED BY <5>1, <5>2, <4>2, <3>2 DEF Distinct
      <4> QED BY <3>5, <4>1, <4>3
    <3> QED BY <3>1, <3>3, <3>4, <3>5, <1>3
  <2> QED BY <1>7, <2>1, <2>2
<1> QED BY <1>8, <1>9, <1>10, <1>11, <1>13, <1>14

LEMMA UnchangedNests ==
  ASSUME Nest, UNCHANGED nestVars
  PROVE  Nest'
BY DEF Nest, nestVars, NestTypes, Distinct, ContextOfInnermost,
       SecretsStayWithTheirRun, CollectorIsLive, NumbersClaimed,
       EventsNameTheirRun, SequenceIncreases, Innermost, Busy

-----------------------------------------------------------------------------
(* Every action is one of those.                                           *)

\* The context end_audit_run and clear_request_secrets leave, with the
\* collector removed or as it was.
LEMMA RestoredContext ==
  ASSUME Nest, NEW t \in Threads, Busy(t)
  PROVE  LET r == Last(stack[t])
             c == Restored(t, r)
             d == [c EXCEPT !.collector = NoRun]
         IN  /\ {c, d} \subseteq [run : RunOrNone, seq : Nat,
                                  collector : RunOrNone, secrets : RunOrNone]
             /\ c.run = token[r].run /\ c.seq = token[r].seq
             /\ c.secrets = NoRun /\ c.collector = ctx[t].collector
             /\ d.run = token[r].run /\ d.seq = token[r].seq
             /\ d.secrets = NoRun /\ d.collector = NoRun
<1> DEFINE Rec == [run : RunOrNone, seq : Nat, collector : RunOrNone,
                   secrets : RunOrNone]
           r == Last(stack[t])
<1>1. stack[t] \in Seq(Runs) /\ stack[t] # <<>>
  BY DEF Nest, NestTypes, Busy
<1>2. r \in Runs
  BY <1>1, TopOfStack
<1>3. token[r].run \in RunOrNone /\ token[r].seq \in Nat /\ ctx[t] \in Rec
  BY <1>2 DEF Nest, NestTypes
<1> DEFINE c == [ctx[t] EXCEPT !.run = token[r].run, !.seq = token[r].seq,
                          !.secrets = NoRun]
           d == [c EXCEPT !.collector = NoRun]
<1>5. /\ {c, d} \subseteq Rec
      /\ c.run = token[r].run /\ c.seq = token[r].seq
      /\ c.secrets = NoRun /\ c.collector = ctx[t].collector
      /\ d.run = token[r].run /\ d.seq = token[r].seq
      /\ d.secrets = NoRun /\ d.collector = NoRun
  <2>1. PICK a \in Rec : a = ctx[t]
    BY <1>3
  <2>2. PICK q \in RunOrNone, m \in Nat : q = token[r].run /\ m = token[r].seq
    BY <1>3
  <2>3. c = [a EXCEPT !.run = q, !.seq = m, !.secrets = NoRun]
    BY <2>1, <2>2
  <2>4. /\ c \in Rec
        /\ c.run = q /\ c.seq = m /\ c.secrets = NoRun
        /\ c.collector = a.collector
    <3> HIDE DEF c
    <3> QED BY <2>3 DEF RunOrNone
  <2> HIDE DEF c
  <2>5. /\ d \in Rec
        /\ d.run = c.run /\ d.seq = c.seq /\ d.secrets = c.secrets
        /\ d.collector = NoRun
    BY <2>4 DEF RunOrNone
  <2> QED BY <2>1, <2>2, <2>4, <2>5
<1>6. Restored(t, r) = c
  BY DEF Restored
<1> HIDE DEF c
<1> QED BY <1>5, <1>6

\* A run that leaves before or after its execute stage keeps the collector.
LEMMA LeaveOutsideExecute ==
  ASSUME Nest, NEW t \in Threads, Busy(t), stage[Last(stack[t])] # "execute",
         NEW how \in {"returned", "raised"},
         Leave(t, how, Restored(t, Last(stack[t]))), token' = token, made' = made
  PROVE  Nest'
<1> DEFINE c == Restored(t, Last(stack[t]))
<1>1. /\ c \in [run : RunOrNone, seq : Nat, collector : RunOrNone,
                secrets : RunOrNone]
      /\ c.run = token[Last(stack[t])].run /\ c.seq = token[Last(stack[t])].seq
      /\ c.secrets = NoRun /\ c.collector = ctx[t].collector
  BY RestoredContext
<1> HIDE DEF c
<1> QED BY <1>1, LeaveNests DEF c

LEMMA ReportNests ==
  ASSUME Nest, NEW t \in Threads, NEW r, NEW p, NEW n, Busy(t),
         r = Last(stack[t]), stage[r] # "execute", Report(t, r, p, n)
  PROVE  Nest'
BY LeaveOutsideExecute DEF Report

LEMMA FlushNests ==
  ASSUME Nest, NEW t \in Threads, NEW r \in Runs, Flush(t, r)
  PROVE  Nest'
<1>1. CASE OpenSink(t, r)
  <2>1. Busy(t) /\ r = Last(stack[t]) /\ stage[r] = "verify"
    BY <1>1 DEF OpenSink, InStage
  <2>2. CASE Report(t, r, "false", Lost(r))
    BY <2>1, <2>2, ReportNests
  <2>3. CASE /\ stage' = [stage EXCEPT ![r] = "flush"]
             /\ UNCHANGED <<ctx, stack, token, made>>
    <3>1. ctx' \in [Threads -> [run : RunOrNone, seq : Nat,
                                collector : RunOrNone, secrets : RunOrNone]]
      BY <2>3 DEF Nest, NestTypes
    <3> QED BY <2>1, <2>3, <3>1, StageNests
  <2> QED BY <1>1, <2>2, <2>3 DEF OpenSink
<1>2. CASE \E accepted \in BOOLEAN : HandOver(t, r, accepted)
  BY <1>2, UnchangedNests DEF HandOver, nestVars
<1>3. CASE Push(t, r)
  BY <1>3, UnchangedNests DEF Push, nestVars
<1>4. CASE \E n, kept \in 0 .. Len(sink[r].pending) : PushFails(t, r, n, kept)
  BY <1>4, UnchangedNests DEF PushFails, nestVars
<1>5. CASE CloseSink(t, r) \/ \E n \in 0 .. Len(sink[r].pending) : CloseFails(t, r, n)
  <2>1. Busy(t) /\ r = Last(stack[t]) /\ stage[r] # "execute"
    BY <1>5 DEF CloseSink, CloseFails, AtClose, Flushing, InStage
  <2>2. \E p, n : Report(t, r, p, n)
    BY <1>5 DEF CloseSink, CloseFails
  <2> QED BY <2>1, <2>2, ReportNests
<1> QED BY <1>1, <1>2, <1>3, <1>4, <1>5 DEF Flush

LEMMA ThreadNests ==
  ASSUME Nest, NEW t \in Threads,
         \/ RouterOutcome(t)
         \/ StageRaises(t)
         \/ EnterExecute(t)
         \/ LeaveExecute(t)
         \/ EventRejected(t)
         \/ EventCollected(t)
         \/ EventToFile(t)
  PROVE  Nest'
<1> DEFINE Rec == [run : RunOrNone, seq : Nat, collector : RunOrNone,
                   secrets : RunOrNone]
           r == Last(stack[t])
<1>1. CASE RouterOutcome(t)
  BY <1>1, LeaveOutsideExecute DEF RouterOutcome, InStage
<1>2. CASE StageRaises(t)
  <2>1. Busy(t) /\ token' = token /\ made' = made
    BY <1>2 DEF StageRaises, InStage
  <2>2. CASE stage[r] # "execute"
    BY <1>2, <2>1, <2>2, LeaveOutsideExecute DEF StageRaises, InStage
  <2>3. CASE stage[r] = "execute"
    <3> DEFINE d == [Restored(t, r) EXCEPT !.collector = NoRun]
    <3>1. d \in Rec /\ d.run = token[r].run /\ d.seq = token[r].seq
          /\ d.secrets = NoRun /\ d.collector = NoRun
      BY <2>1, RestoredContext
    <3>2. Leave(t, "raised", d)
      BY <1>2, <2>1, <2>3 DEF StageRaises, InStage
    <3> HIDE DEF d
    <3> QED BY <2>1, <3>1, <3>2, LeaveNests
  <2> QED BY <2>2, <2>3
<1>3. CASE EnterExecute(t) \/ LeaveExecute(t)
  <2>1. PICK q \in RunOrNone, st \in {"execute", "verify"} :
          /\ ctx' = [ctx EXCEPT ![t].collector = q]
          /\ stage' = [stage EXCEPT ![r] = st]
          /\ q = NoRun \/ (q = r /\ st = "execute")
    <3>1. Busy(t)
      BY <1>3 DEF EnterExecute, LeaveExecute, InStage
    <3>2. r \in RunOrNone
      BY <3>1, TopOfStack DEF Nest, NestTypes, Busy, RunOrNone
    <3> QED BY <1>3, <3>2 DEF EnterExecute, LeaveExecute, RunOrNone
  <2>2. Busy(t) /\ UNCHANGED <<stack, token, made>>
    BY <1>3 DEF EnterExecute, LeaveExecute, InStage
  <2>3. ctx \in [Threads -> Rec]
    BY DEF Nest, NestTypes
  <2>4. ctx' \in [Threads -> Rec]
    <3>1. ASSUME NEW a \in Rec PROVE [a EXCEPT !.collector = q] \in Rec
      BY <3>1
    <3> QED BY <2>1, <2>3, <3>1
  <2>5. /\ ctx'[t].collector = q
        /\ \A u \in Threads : /\ ctx'[u].run = ctx[u].run
                              /\ ctx'[u].seq = ctx[u].seq
                              /\ ctx'[u].secrets = ctx[u].secrets
                              /\ u # t => ctx'[u].collector = ctx[u].collector
    BY <2>1, <2>3
  <2> QED BY <2>1, <2>2, <2>4, <2>5, StageNests
<1>4. CASE EventRejected(t) \/ EventCollected(t) \/ EventToFile(t)
  BY <1>4, ClaimNests DEF EventRejected, EventCollected, EventToFile
<1> QED BY <1>1, <1>2, <1>3, <1>4

LEMMA InitNest == Init => Nest
<1> SUFFICES ASSUME Init PROVE Nest
  OBVIOUS
<1> USE DEF Init
<1>1. NestTypes
  BY DEF NestTypes, RunOrNone, Stage
<1>2. \A t \in Threads : Innermost(t) = NoRun /\ DOMAIN stack[t] = {}
  BY DEF Innermost, Busy
<1>3. DOMAIN made = {}
  OBVIOUS
<1> QED BY <1>1, <1>2, <1>3
     DEF Nest, Distinct, ContextOfInnermost, SecretsStayWithTheirRun,
         CollectorIsLive, NumbersClaimed, EventsNameTheirRun, SequenceIncreases

LEMMA NestNext == Nest /\ [Next]_vars => Nest'
<1> SUFFICES ASSUME Nest, [Next]_vars PROVE Nest'
  OBVIOUS
<1>1. CASE UNCHANGED vars
  BY <1>1, UnchangedNests DEF vars, nestVars
<1>2. ASSUME NEW t \in Threads, NEW r \in Runs, NEW x \in {r, NoRun},
             BeginRun(t, r, x)
      PROVE  Nest'
  BY <1>2, BeginNests
<1>3. ASSUME NEW t \in Threads, NEW r \in Runs, Flush(t, r)
      PROVE  Nest'
  BY <1>3, FlushNests
<1>4. CASE Next
  BY <1>1, <1>2, <1>3, <1>4, ThreadNests DEF Next, Idle
<1> QED BY <1>1, <1>4

-----------------------------------------------------------------------------
(* Theorems.                                                               *)

\* In every reachable state the context variables of every thread belong to
\* its innermost run, and each token holds what belongs to the run below it.
THEOREM RunsNest == Spec => []Nest
BY InitNest, NestNext, PTL DEF Spec

\* Request secrets never reach another run and never outlive their own, on
\* any thread and however runs nest, return or raise (runner.py).
THEOREM SecretsScoped == Spec => []SecretsStayWithTheirRun
<1>1. Nest => SecretsStayWithTheirRun
  BY DEF Nest
<1> QED BY <1>1, RunsNest, PTL

\* No thread collects events for a run that is over (runner.py).
THEOREM CollectorScoped == Spec => []CollectorIsLive
<1>1. Nest => CollectorIsLive
  BY DEF Nest
<1> QED BY <1>1, RunsNest, PTL

\* Every record is attributed to the run that wrote it (audit.py).
THEOREM EventsAttributed == Spec => []EventsNameTheirRun
<1>1. Nest => EventsNameTheirRun
  BY DEF Nest
<1> QED BY <1>1, RunsNest, PTL

\* Sequence numbers increase strictly within every run (audit.py).
THEOREM SequenceStrict == Spec => []SequenceIncreases
<1>1. Nest => SequenceIncreases
  BY DEF Nest
<1> QED BY <1>1, RunsNest, PTL

-----------------------------------------------------------------------------
(* Where the records are.                                                  *)

\* The part of the type invariant the records need.
RecordTypes ==
  /\ held \in [Runs -> Seq(Event)]
  /\ sink \in [Runs -> Sink]
  /\ \A r \in Runs : sink[r].written + sink[r].rejected < sink[r].next
  /\ file \in Seq(Event)
  /\ result \in [Runs -> Result]
  /\ warned \in SUBSET Event

LEMMA TypesJoined == TypeOK <=> NestTypes /\ RecordTypes
BY DEF TypeOK, NestTypes, RecordTypes

LEMMA Joined ==
  ASSUME NEW a \in Seq(Event), NEW b \in Seq(Event)
  PROVE  /\ a \o b \in Seq(Event)
         /\ Len(a) \in Nat /\ Len(b) \in Nat
         /\ DOMAIN a = 1 .. Len(a) /\ DOMAIN b = 1 .. Len(b)
         /\ DOMAIN (a \o b) = 1 .. Len(a) + Len(b)
         /\ \A i \in DOMAIN a : (a \o b)[i] = a[i]
         /\ \A i \in DOMAIN b : (a \o b)[Len(a) + i] = b[i]
<1>1. /\ Len(a) \in Nat /\ Len(b) \in Nat
      /\ DOMAIN a = 1 .. Len(a) /\ DOMAIN b = 1 .. Len(b)
  BY LenProperties
<1>2. /\ a \o b \in Seq(Event) /\ Len(a \o b) = Len(a) + Len(b)
      /\ \A i \in 1 .. Len(a) + Len(b) :
           (a \o b)[i] = IF i <= Len(a) THEN a[i] ELSE b[i - Len(a)]
  BY ConcatProperties
<1>3. DOMAIN (a \o b) = 1 .. Len(a) + Len(b)
  BY <1>2, LenProperties
<1>4. \A i \in 1 .. Len(a) : (a \o b)[i] = a[i]
  BY <1>1, <1>2
<1>5. ASSUME NEW i \in 1 .. Len(b)
      PROVE  (a \o b)[Len(a) + i] = b[i]
  <2>1. /\ Len(a) + i \in 1 .. Len(a) + Len(b)
        /\ ~(Len(a) + i <= Len(a)) /\ Len(a) + i - Len(a) = i
    BY <1>1
  <2> QED BY <1>2, <2>1
<1> QED BY <1>1, <1>2, <1>3, <1>4, <1>5

LEMMA Cut ==
  ASSUME NEW s \in Seq(Event), NEW m \in 0 .. Len(s), NEW k \in m .. Len(s)
  PROVE  /\ SubSeq(s, m + 1, k) \in Seq(Event)
         /\ DOMAIN SubSeq(s, m + 1, k) = 1 .. k - m
         /\ Len(SubSeq(s, m + 1, k)) = k - m
         /\ \A i \in 1 .. k - m : m + i \in DOMAIN s
                                  /\ SubSeq(s, m + 1, k)[i] = s[m + i]
<1>1. Len(s) \in Nat /\ DOMAIN s = 1 .. Len(s)
  BY LenProperties
<1>2. \A i \in m + 1 .. k : i \in 1 .. Len(s)
  BY <1>1
<1>3. \A i \in m + 1 .. k : s[i] \in Event
  BY <1>2, ElementOfSeq
<1>4. /\ SubSeq(s, m + 1, k) \in Seq(Event)
      /\ Len(SubSeq(s, m + 1, k)) =
           IF m + 1 <= k THEN k - (m + 1) + 1 ELSE 0
      /\ \A i \in 1 .. k - (m + 1) + 1 :
           SubSeq(s, m + 1, k)[i] = s[m + 1 + i - 1]
  <2>1. m + 1 \in Int /\ k \in Int
    BY <1>1
  <2> QED BY <1>3, <2>1, SubSeqProperties
<1>5. /\ k - (m + 1) + 1 = k - m
      /\ (IF m + 1 <= k THEN k - m ELSE 0) = k - m
      /\ \A i \in 1 .. k - m : m + 1 + i - 1 = m + i /\ m + i \in 1 .. Len(s)
  BY <1>1
<1>6. Len(SubSeq(s, m + 1, k)) = k - m
  BY <1>4, <1>5
<1>7. \A i \in 1 .. k - m : SubSeq(s, m + 1, k)[i] = s[m + i]
  BY <1>4, <1>5
<1>8. DOMAIN SubSeq(s, m + 1, k) = 1 .. k - m
  BY <1>4, <1>6, LenProperties
<1> QED BY <1>1, <1>4, <1>5, <1>6, <1>7, <1>8

\* The first m records of r's buffer reach the file, and the ones from m + 1
\* to k stay buffered: what Push, PushFails, CloseSink and CloseFails have in
\* common.
Drains(r, m, k) ==
  /\ m \in 0 .. Len(sink[r].pending) /\ k \in m .. Len(sink[r].pending)
  /\ file' = file \o SubSeq(sink[r].pending, 1, m)
  /\ \E failed \in BOOLEAN :
       sink' = [sink EXCEPT ![r].pending = SubSeq(@, m + 1, k), ![r].failed = failed]

LEMMA SinkTyped ==
  ASSUME RecordTypes, NEW r \in Runs
  PROVE  /\ sink[r] \in Sink /\ held[r] \in Seq(Event)
         /\ sink[r].pending \in Seq(Event) /\ Len(sink[r].pending) \in Nat
         /\ DOMAIN sink[r].pending = 1 .. Len(sink[r].pending)
         /\ sink[r].next \in Nat
         /\ sink[r].written \in Nat /\ sink[r].rejected \in Nat
<1>1. sink[r] \in Sink /\ held[r] \in Seq(Event)
  BY DEF RecordTypes
<1> QED BY <1>1, LenProperties DEF Sink

\* The whole buffer, and none of it.
LEMMA AllAndNone ==
  ASSUME NEW s \in Seq(Event)
  PROVE  SubSeq(s, 1, Len(s)) = s /\ SubSeq(s, Len(s) + 1, Len(s)) = <<>>
<1>1. Len(s) \in Nat
  BY LenProperties
<1>2. SubSeq(s, Len(s) + 1, Len(s)) = <<>>
  BY <1>1, SubSeqEmpty
<1>3. /\ SubSeq(s, 0 + 1, Len(s)) \in Seq(Event)
      /\ Len(SubSeq(s, 0 + 1, Len(s))) = Len(s) - 0
      /\ \A i \in 1 .. Len(s) - 0 : SubSeq(s, 0 + 1, Len(s))[i] = s[0 + i]
  BY <1>1, Cut
<1>4. /\ SubSeq(s, 1, Len(s)) \in Seq(Event)
      /\ Len(SubSeq(s, 1, Len(s))) = Len(s)
      /\ \A i \in 1 .. Len(s) : SubSeq(s, 1, Len(s))[i] = s[i]
  BY <1>1, <1>3
<1> QED BY <1>2, <1>4, SeqEqual

LEMMA DrainSteps ==
  ASSUME RecordTypes, NEW t \in Threads, NEW r \in Runs,
         \/ Push(t, r)
         \/ \E n, kept \in 0 .. Len(sink[r].pending) : PushFails(t, r, n, kept)
         \/ CloseSink(t, r)
         \/ \E n \in 0 .. Len(sink[r].pending) : CloseFails(t, r, n)
  PROVE  /\ \E m, k \in Nat : Drains(r, m, k)
         /\ Flushing(t, r)
         /\ UNCHANGED <<held, made, token, warned>>
<1> DEFINE p == sink[r].pending  n == Len(p)
<1>1. /\ p \in Seq(Event) /\ n \in Nat /\ sink[r].failed \in BOOLEAN
      /\ SubSeq(p, 1, n) = p /\ SubSeq(p, n + 1, n) = <<>>
  BY SinkTyped, AllAndNone DEF Sink
<1>2. sink \in [Runs -> Sink]
  BY DEF RecordTypes
<1>0. UNCHANGED <<held, made, token, warned>> /\ Flushing(t, r)
  BY DEF Push, PushFails, CloseSink, CloseFails, AtClose, Report
<1>3. ASSUME NEW v \in Seq(Event), sink' = [sink EXCEPT ![r].pending = v]
      PROVE  sink' = [sink EXCEPT ![r].pending = v, ![r].failed = sink[r].failed]
  BY <1>2, <1>3 DEF Sink
<1>4. CASE Push(t, r) \/ CloseSink(t, r)
  <2>1. file' = file \o p /\ sink' = [sink EXCEPT ![r].pending = <<>>]
    BY <1>4 DEF Push, CloseSink
  <2>2. sink' = [sink EXCEPT ![r].pending = <<>>, ![r].failed = sink[r].failed]
    BY <1>3, <2>1
  <2>3. Drains(r, n, n)
    <3>1. n \in 0 .. n /\ n \in n .. n
      BY <1>1
    <3>2. file' = file \o SubSeq(p, 1, n)
      BY <1>1, <2>1
    <3>3. sink' = [sink EXCEPT ![r].pending = SubSeq(p, n + 1, n),
                               ![r].failed = sink[r].failed]
      BY <1>1, <2>2
    <3> QED BY <1>1, <3>1, <3>2, <3>3 DEF Drains
  <2> QED BY <1>0, <1>1, <2>3
<1>5. ASSUME NEW m \in 0 .. n, NEW kept \in 0 .. n, PushFails(t, r, m, kept)
      PROVE  Drains(r, m, kept)
  <2>1. kept \in m .. n
    BY <1>1, <1>5 DEF PushFails
  <2> QED BY <1>5, <2>1 DEF PushFails, Drains
<1>6. ASSUME NEW m \in 0 .. n, CloseFails(t, r, m)
      PROVE  Drains(r, m, m)
  <2>1. m \in m .. n /\ m < m + 1 /\ m \in Int
    BY <1>1
  <2>2. SubSeq(p, m + 1, m) = <<>>
    BY <2>1, SubSeqEmpty
  <2>3. /\ file' = file \o SubSeq(p, 1, m)
        /\ sink' = [sink EXCEPT ![r].pending = <<>>]
    BY <1>6 DEF CloseFails
  <2>4. sink' = [sink EXCEPT ![r].pending = <<>>, ![r].failed = sink[r].failed]
    BY <1>3, <2>3
  <2> QED BY <1>1, <2>1, <2>2, <2>3, <2>4 DEF Drains
<1>7. 0 .. n \subseteq Nat
  BY <1>1
<1> QED BY <1>0, <1>4, <1>5, <1>6, <1>7

\* What a drain does to the file and the sinks, record by record.
LEMMA Drained ==
  ASSUME RecordTypes, NEW r \in Runs, NEW m \in Nat, NEW k \in Nat,
         Drains(r, m, k)
  PROVE  LET p == sink[r].pending
         IN  /\ file' \in Seq(Event) /\ Len(file) \in Nat
             /\ DOMAIN file = 1 .. Len(file)
             /\ DOMAIN file' = 1 .. Len(file) + m
             /\ \A i \in DOMAIN file : file'[i] = file[i]
             /\ \A i \in 1 .. m : i \in DOMAIN p /\ file'[Len(file) + i] = p[i]
             /\ sink' \in [Runs -> Sink]
             /\ \A q \in Runs : q # r => sink'[q] = sink[q]
             /\ sink'[r].next = sink[r].next
             /\ sink'[r].written = sink[r].written
             /\ sink'[r].rejected = sink[r].rejected
             /\ DOMAIN sink'[r].pending = 1 .. k - m
             /\ \A i \in 1 .. k - m :
                  m + i \in DOMAIN p /\ sink'[r].pending[i] = p[m + i]
<1> DEFINE p == sink[r].pending
<1>1. p \in Seq(Event) /\ Len(p) \in Nat /\ DOMAIN p = 1 .. Len(p)
  BY SinkTyped
<1>2. m \in 0 .. Len(p) /\ k \in m .. Len(p)
  BY DEF Drains
<1>3. /\ SubSeq(p, 0 + 1, m) \in Seq(Event)
      /\ DOMAIN SubSeq(p, 0 + 1, m) = 1 .. m - 0
      /\ Len(SubSeq(p, 0 + 1, m)) = m - 0
      /\ \A i \in 1 .. m - 0 : 0 + i \in DOMAIN p
                               /\ SubSeq(p, 0 + 1, m)[i] = p[0 + i]
  <2>1. 0 \in 0 .. Len(p) /\ m \in 0 .. Len(p)
    BY <1>1, <1>2
  <2> QED BY <1>1, <2>1, Cut
<1>4. /\ SubSeq(p, 1, m) \in Seq(Event)
      /\ DOMAIN SubSeq(p, 1, m) = 1 .. m
      /\ Len(SubSeq(p, 1, m)) = m
      /\ \A i \in 1 .. m : i \in DOMAIN p /\ SubSeq(p, 1, m)[i] = p[i]
  BY <1>3
<1>5. file \in Seq(Event)
  BY DEF RecordTypes
<1>6. /\ file' \in Seq(Event) /\ Len(file) \in Nat
      /\ DOMAIN file = 1 .. Len(file)
      /\ DOMAIN file' = 1 .. Len(file) + m
      /\ \A i \in DOMAIN file : file'[i] = file[i]
      /\ \A i \in 1 .. m : i \in DOMAIN p /\ file'[Len(file) + i] = p[i]
  <2>1. file' = file \o SubSeq(p, 1, m)
    BY DEF Drains
  <2> HIDE DEF p
  <2> QED BY <1>4, <1>5, <2>1, Joined
<1> DEFINE s == SubSeq(p, m + 1, k)
<1>7. /\ s \in Seq(Event) /\ DOMAIN s = 1 .. k - m
      /\ \A i \in 1 .. k - m : m + i \in DOMAIN p /\ s[i] = p[m + i]
  BY <1>1, <1>2, Cut
<1>8. PICK failed \in BOOLEAN :
        sink' = [sink EXCEPT ![r].pending = s, ![r].failed = failed]
  BY DEF Drains
<1> HIDE DEF s
<1>9. /\ sink' \in [Runs -> Sink]
      /\ \A q \in Runs : q # r => sink'[q] = sink[q]
      /\ sink'[r].next = sink[r].next
      /\ sink'[r].written = sink[r].written
      /\ sink'[r].rejected = sink[r].rejected
      /\ sink'[r].pending = s
  <2>1. sink \in [Runs -> Sink]
    BY DEF RecordTypes
  <2> HIDE DEF p
  <2> QED BY <1>7, <1>8, <2>1 DEF Sink
<1> QED BY <1>6, <1>7, <1>9

LEMMA AssembleTyped ==
  ASSUME NestTypes, NEW t \in Threads, NEW valid \in BOOLEAN
  PROVE  LET e == Assemble(t, valid)
         IN  /\ e \in Event
             /\ e.run = ctx[t].run /\ e.valid = valid
             /\ e.event_id = Len(made) + 1
<1>1. ctx[t].run \in RunOrNone /\ ctx[t].seq \in Nat
  BY DEF NestTypes
<1>2. Innermost(t) \in RunOrNone
  BY TopOfStack DEF NestTypes, Innermost, Busy, RunOrNone
<1>3. Len(made) + 1 \in Nat /\ NextSequence(t) \in Nat
  BY <1>1, LenProperties DEF NestTypes, NextSequence
<1> QED BY <1>1, <1>2, <1>3 DEF Assemble, Event

LEMMA ReportTyped ==
  ASSUME RecordTypes, NEW t \in Threads, NEW r \in Runs,
         NEW p \in {"true", "false"}, NEW n \in Int, Report(t, r, p, n)
  PROVE  result' \in [Runs -> Result] /\ UNCHANGED <<held, warned>>
BY DEF Report, RecordTypes, Result

LEMMA LostTyped ==
  ASSUME RecordTypes, NEW r \in Runs
  PROVE  Lost(r) \in Int
<1>1. Len(held[r]) \in Nat
  BY LenProperties DEF RecordTypes
<1> QED BY <1>1, SinkTyped DEF Lost

LEMMA HandOverTyped ==
  ASSUME RecordTypes, NEW t \in Threads, NEW r \in Runs,
         NEW accepted \in BOOLEAN, HandOver(t, r, accepted)
  PROVE  /\ sink' \in [Runs -> Sink]
         /\ \A q \in Runs : q # r => sink'[q] = sink[q]
         /\ sink'[r].next = sink[r].next + 1
         /\ sink'[r].failed = sink[r].failed
         /\ sink'[r].written = sink[r].written + (IF accepted THEN 1 ELSE 0)
         /\ sink'[r].rejected = sink[r].rejected + (IF accepted THEN 0 ELSE 1)
         /\ sink'[r].pending = IF accepted
                               THEN Append(sink[r].pending, held[r][sink[r].next])
                               ELSE sink[r].pending
         /\ sink[r].next \in DOMAIN held[r] /\ held[r][sink[r].next] \in Event
         /\ UNCHANGED <<held, file, result, made, warned>>
<1>1. sink \in [Runs -> Sink] /\ sink[r] \in Sink /\ held[r] \in Seq(Event)
      /\ sink[r].pending \in Seq(Event)
      /\ sink[r].next \in Nat /\ sink[r].written \in Nat /\ sink[r].rejected \in Nat
      /\ sink[r].written + sink[r].rejected < sink[r].next
  BY SinkTyped DEF RecordTypes
<1>2. sink[r].next \in DOMAIN held[r]
  <2>1. sink[r].next <= Len(held[r]) /\ DOMAIN held[r] = 1 .. Len(held[r])
        /\ Len(held[r]) \in Nat
    BY <1>1, LenProperties DEF HandOver, Handing
  <2> QED BY <1>1, <2>1
<1>3. held[r][sink[r].next] \in Event
  BY <1>1, <1>2, LenProperties, ElementOfSeq
<1> DEFINE e == held[r][sink[r].next]
<1>4. /\ UNCHANGED <<held, file, result, made, warned>>
      /\ accepted => sink' = [sink EXCEPT ![r] =
           [sink[r] EXCEPT !.next = sink[r].next + 1,
                           !.written = sink[r].written + 1,
                           !.pending = Append(sink[r].pending, e)]]
      /\ ~accepted => sink' = [sink EXCEPT ![r] =
           [sink[r] EXCEPT !.next = sink[r].next + 1,
                           !.rejected = sink[r].rejected + 1]]
  <2>1. sink' = [sink EXCEPT ![r] = Handed(sink[r], e, accepted)]
    BY DEF HandOver
  <2>2. UNCHANGED <<held, file, result, made, warned>>
    BY DEF HandOver
  <2> HIDE DEF e
  <2> QED BY <2>1, <2>2 DEF Handed
<1>5. Append(sink[r].pending, e) \in Seq(Event)
  BY <1>1, <1>3, AppendProperties
<1>6. e \in Event /\ sink[r].next \in DOMAIN held[r]
  BY <1>2, <1>3
<1> HIDE DEF e
<1>7. /\ sink' \in [Runs -> Sink]
      /\ \A q \in Runs : q # r => sink'[q] = sink[q]
      /\ sink'[r].next = sink[r].next + 1
      /\ sink'[r].failed = sink[r].failed
      /\ sink'[r].written = sink[r].written + (IF accepted THEN 1 ELSE 0)
      /\ sink'[r].rejected = sink[r].rejected + (IF accepted THEN 0 ELSE 1)
      /\ sink'[r].pending = IF accepted THEN Append(sink[r].pending, e)
                            ELSE sink[r].pending
  <2>1. CASE accepted
    <3>1. PICK a \in Sink, p \in Seq(Event), n \in Nat, w \in Nat :
            /\ a = sink[r] /\ p = Append(a.pending, e)
            /\ n = a.next + 1 /\ w = a.written + 1
      <4>1. sink[r].next + 1 \in Nat /\ sink[r].written + 1 \in Nat
        BY <1>1
      <4> QED BY <1>1, <1>5, <4>1
    <3> DEFINE v == [a EXCEPT !.next = n, !.written = w, !.pending = p]
    <3>2. sink' = [sink EXCEPT ![r] = v]
      BY <1>4, <2>1, <3>1
    <3>3. /\ v \in Sink
          /\ v.next = n /\ v.written = w /\ v.pending = p
          /\ v.rejected = a.rejected /\ v.failed = a.failed
      BY DEF Sink
    <3>4. a.rejected + 0 = a.rejected
      BY <1>1, <3>1
    <3> HIDE DEF v
    <3>5. /\ sink' \in [Runs -> Sink] /\ sink'[r] = v
          /\ \A q \in Runs : q # r => sink'[q] = sink[q]
      BY <1>1, <3>2, <3>3
    <3> QED BY <2>1, <3>1, <3>3, <3>4, <3>5
  <2>2. CASE ~accepted
    <3>1. PICK a \in Sink, n \in Nat, w \in Nat :
            a = sink[r] /\ n = a.next + 1 /\ w = a.rejected + 1
      BY <1>1
    <3> DEFINE v == [a EXCEPT !.next = n, !.rejected = w]
    <3>2. sink' = [sink EXCEPT ![r] = v]
      BY <1>4, <2>2, <3>1
    <3>3. /\ v \in Sink
          /\ v.next = n /\ v.rejected = w
          /\ v.written = a.written /\ v.pending = a.pending
          /\ v.failed = a.failed
      BY DEF Sink
    <3>4. a.written + 0 = a.written
      BY <1>1, <3>1
    <3> HIDE DEF v
    <3>5. /\ sink' \in [Runs -> Sink] /\ sink'[r] = v
          /\ \A q \in Runs : q # r => sink'[q] = sink[q]
      BY <1>1, <3>2, <3>3
    <3> QED BY <2>2, <3>1, <3>3, <3>4, <3>5
  <2> QED BY <2>1, <2>2
<1> QED BY <1>4, <1>6, <1>7 DEF e

LEMMA RecordTypesNext ==
  ASSUME Nest, RecordTypes, [Next]_vars
  PROVE  RecordTypes'
<1>0. NestTypes
  BY DEF Nest
<1>1. ASSUME UNCHANGED <<held, sink, file, result, warned>>
      PROVE  RecordTypes'
  BY <1>1 DEF RecordTypes
<1>2. ASSUME NEW t \in Threads, NEW r \in Runs, Flush(t, r)
      PROVE  RecordTypes'
  <2>1. CASE OpenSink(t, r)
    <3>1. Lost(r) \in Int
      BY LostTyped
    <3>2. result' \in [Runs -> Result] /\ UNCHANGED <<held, warned, sink, file>>
      BY <2>1, <3>1, ReportTyped DEF OpenSink, RecordTypes
    <3> QED BY <3>2 DEF RecordTypes
  <2>2. ASSUME NEW accepted \in BOOLEAN, HandOver(t, r, accepted)
        PROVE  RecordTypes'
    <3>1. /\ sink' \in [Runs -> Sink]
          /\ \A q \in Runs : q # r => sink'[q] = sink[q]
          /\ sink'[r].next = sink[r].next + 1
          /\ sink'[r].written = sink[r].written + (IF accepted THEN 1 ELSE 0)
          /\ sink'[r].rejected = sink[r].rejected + (IF accepted THEN 0 ELSE 1)
          /\ UNCHANGED <<held, file, result, warned>>
      BY <2>2, HandOverTyped
    <3>2. sink'[r].written + sink'[r].rejected < sink'[r].next
      BY <2>2, <3>1, SinkTyped DEF RecordTypes
    <3> QED BY <3>1, <3>2 DEF RecordTypes
  <2>3. CASE \/ Push(t, r)
             \/ \E n, kept \in 0 .. Len(sink[r].pending) : PushFails(t, r, n, kept)
             \/ CloseSink(t, r)
             \/ \E n \in 0 .. Len(sink[r].pending) : CloseFails(t, r, n)
    <3>1. PICK m \in Nat, k \in Nat : Drains(r, m, k)
      BY <2>3, DrainSteps
    <3>2. /\ file' \in Seq(Event) /\ sink' \in [Runs -> Sink]
          /\ \A q \in Runs : q # r => sink'[q] = sink[q]
          /\ sink'[r].next = sink[r].next
          /\ sink'[r].written = sink[r].written
          /\ sink'[r].rejected = sink[r].rejected
      BY <3>1, Drained
    <3>3. result' \in [Runs -> Result] /\ UNCHANGED <<held, warned>>
      <4>1. UNCHANGED <<held, warned>>
        BY <2>3, DrainSteps
      <4>2. CASE Push(t, r) \/ \E n, kept \in 0 .. Len(sink[r].pending) :
                                 PushFails(t, r, n, kept)
        BY <4>1, <4>2 DEF Push, PushFails, RecordTypes
      <4>3. Lost(r) \in Int /\ 0 \in Int
        BY LostTyped
      <4>4. CASE \/ CloseSink(t, r)
                 \/ \E n \in 0 .. Len(sink[r].pending) : CloseFails(t, r, n)
        <5>1. \E p \in {"true", "false"}, n \in {Lost(r), 0} : Report(t, r, p, n)
          BY <4>4 DEF CloseSink, CloseFails
        <5> QED BY <4>3, <5>1, ReportTyped
      <4> QED BY <2>3, <4>1, <4>2, <4>4
    <3>4. \A q \in Runs : sink'[q].written + sink'[q].rejected < sink'[q].next
      BY <3>2 DEF RecordTypes
    <3> QED BY <3>2, <3>3, <3>4 DEF RecordTypes
  <2> QED BY <1>2, <2>1, <2>2, <2>3 DEF Flush
<1>3. ASSUME NEW t \in Threads, EventCollected(t)
      PROVE  RecordTypes'
  <2> DEFINE c == ctx[t].collector  e == Assemble(t, TRUE)
  <2>1. c \in Runs /\ e \in Event
    BY <1>0, <1>3, AssembleTyped DEF EventCollected, NestTypes, RunOrNone
  <2>2. /\ held' = [held EXCEPT ![c] = Append(@, e)]
        /\ UNCHANGED <<sink, file, result, warned>>
    BY <1>3 DEF EventCollected, Claim
  <2> HIDE DEF e, c
  <2>3. Append(held[c], e) \in Seq(Event)
    BY <2>1, AppendProperties DEF RecordTypes
  <2> QED BY <2>1, <2>2, <2>3 DEF RecordTypes
<1>4. ASSUME NEW t \in Threads, EventToFile(t)
      PROVE  RecordTypes'
  <2> DEFINE e == Assemble(t, TRUE)
  <2>1. e \in Event
    BY <1>0, AssembleTyped
  <2>2. /\ \/ file' = Append(file, e) /\ UNCHANGED warned
           \/ warned' = warned \cup {e} /\ UNCHANGED file
        /\ UNCHANGED <<sink, held, result>>
    BY <1>4 DEF EventToFile, Claim
  <2> HIDE DEF e
  <2>3. Append(file, e) \in Seq(Event)
    BY <2>1, AppendProperties DEF RecordTypes
  <2> QED BY <2>1, <2>2, <2>3 DEF RecordTypes
<1>5. ASSUME NEW t \in Threads,
             \/ \E r \in Runs : \E x \in {r, NoRun} : BeginRun(t, r, x)
             \/ RouterOutcome(t) \/ StageRaises(t) \/ EnterExecute(t)
             \/ LeaveExecute(t) \/ EventRejected(t)
      PROVE  RecordTypes'
  BY <1>1, <1>5 DEF BeginRun, RouterOutcome, StageRaises, EnterExecute,
     LeaveExecute, EventRejected, Claim
<1>6. CASE UNCHANGED vars
  BY <1>1, <1>6 DEF vars
<1> QED BY <1>2, <1>3, <1>4, <1>5, <1>6 DEF Next, Idle

LEMMA InitRecordTypes == Init => RecordTypes
<1> SUFFICES ASSUME Init PROVE RecordTypes
  OBVIOUS
<1>1. Closed \in Sink /\ NoResult \in Result /\ <<>> \in Seq(Event)
  BY DEF Closed, Sink, NoResult, Result
<1>2. Closed.written + Closed.rejected < Closed.next
  BY DEF Closed
<1> QED BY <1>1, <1>2 DEF Init, RecordTypes

\* The type invariant, every buffer and every handle of the audit sink
\* included (audit.py, runner.py).
THEOREM PipelineTypeCorrect == Spec => []TypeOK
<1>1. Nest /\ RecordTypes /\ [Next]_vars => RecordTypes'
  BY RecordTypesNext
<1>2. Nest /\ RecordTypes => TypeOK
  BY TypesJoined DEF Nest
<1> QED BY <1>1, <1>2, InitRecordTypes, RunsNest, PTL DEF Spec

-----------------------------------------------------------------------------
(* The order of the records, and where each of them is.                    *)

\* What a run holds before it executes and before it flushes, and that a run
\* with no run inside or around it collects while it executes.
Early ==
  /\ \A r \in Runs :
       /\ stage[r] = "fresh" => token[r].run = NoRun
       /\ stage[r] \in {"fresh", "plan"} => held[r] = <<>>
       /\ stage[r] \in {"fresh", "plan", "execute", "verify"} => sink[r] = Closed
  /\ \A t \in Threads :
       InStage(t, "execute") /\ ~Nested(Innermost(t))
         => ctx[t].collector = Innermost(t)

\* A record is the event of its number.
Known(e) == e.event_id \in DOMAIN made /\ made[e.event_id] = e

Before(e, f) == e.event_id < f.event_id

\* What r holds, and what it has buffered, is in the order it was made; what
\* is buffered is held and was handed over.
InHand(r) ==
  /\ \A i \in DOMAIN held[r] : Known(held[r][i])
  /\ \A i, j \in DOMAIN held[r] : i < j => Before(held[r][i], held[r][j])
  /\ \A i \in DOMAIN sink[r].pending :
       /\ \E j \in DOMAIN held[r] : held[r][j] = sink[r].pending[i]
       /\ \A j \in DOMAIN sink[r].pending :
            i < j => Before(sink[r].pending[i], sink[r].pending[j])
       /\ \A j \in DOMAIN held[r] :
            sink[r].next <= j => Before(sink[r].pending[i], held[r][j])

\* Every record was made.
Held ==
  /\ \A i \in DOMAIN made : made[i].event_id = i
  /\ \A i \in DOMAIN file : Known(file[i])
  /\ \A r \in Runs : InHand(r)

\* The records of a run with no run inside or around it are held by nobody
\* else, are in the file in the order they were made, and are there before
\* those it still has to write.
InOrder ==
  \A r \in Runs : ~Nested(r) =>
    /\ \A q \in Runs : \A i \in DOMAIN held[q] : held[q][i].run = r => q = r
    /\ \A i \in DOMAIN file : file[i].run = r =>
         /\ \A j \in DOMAIN file :
              i < j /\ file[j].run = r => Before(file[i], file[j])
         /\ \A j \in DOMAIN sink[r].pending : Before(file[i], sink[r].pending[j])
         /\ \A j \in DOMAIN held[r] :
              sink[r].next <= j => Before(file[i], held[r][j])

\* While a flush has met no failure, what it handed over is in the file or in
\* the buffer.
HandedOver ==
  \A r \in Runs :
    stage[r] = "flush" /\ ~sink[r].failed /\ sink[r].rejected = 0 =>
      \A i \in DOMAIN held[r] :
        i < sink[r].next => held[r][i] \in Range(file) \cup Range(sink[r].pending)

Trail == Nest /\ RecordTypes /\ Early /\ Held /\ InOrder /\ HandedOver

\* How a step moves the run r: forward, and never out of a nesting.
MovesForward(r) ==
  /\ stage'[r] = "fresh" => stage[r] = "fresh" /\ token'[r] = token[r]
  /\ stage'[r] \in {"fresh", "plan"} => stage[r] \in {"fresh", "plan"}
  /\ stage'[r] \in {"fresh", "plan", "execute", "verify"}
       => stage[r] \in {"fresh", "plan", "execute", "verify"}
  /\ stage'[r] = "flush" => stage[r] \in {"verify", "flush"}
  /\ Nested(r) => Nested(r)'

LEMMA InnermostIsRun ==
  ASSUME Nest, NEW t \in Threads, Busy(t)
  PROVE  /\ stack[t] \in Seq(Runs) /\ stack[t] # <<>>
         /\ Last(stack[t]) \in Runs /\ Innermost(t) = Last(stack[t])
<1>1. stack[t] \in Seq(Runs) /\ stack[t] # <<>>
  BY DEF Nest, NestTypes, Busy
<1> QED BY <1>1, TopOfStack DEF Innermost

LEMMA OneStageOn ==
  ASSUME Nest, NEW q \in Runs, NEW v, UNCHANGED token,
         stage' = [stage EXCEPT ![q] = v],
         \/ v \in {"returned", "raised"}
         \/ v = "execute" /\ stage[q] = "plan"
         \/ v = "verify" /\ stage[q] = "execute"
         \/ v = "flush" /\ stage[q] = "verify",
         NEW r \in Runs
  PROVE  MovesForward(r)
<1>1. stage \in [Runs -> Stage]
  BY DEF Nest, NestTypes
<1> QED BY <1>1 DEF MovesForward, Nested

LEMMA FlushForward ==
  ASSUME Nest, NEW t \in Threads, NEW q \in Runs, Flush(t, q), NEW r \in Runs
  PROVE  MovesForward(r)
<1>1. CASE UNCHANGED <<stage, token>>
  BY <1>1 DEF MovesForward, Nested
<1>2. CASE \E p, n : Report(t, q, p, n) /\ q = Last(stack[t])
  BY <1>2, OneStageOn DEF Report, Leave
<1>3. CASE OpenSink(t, q)
  <2>1. CASE stage' = [stage EXCEPT ![q] = "flush"] /\ UNCHANGED token
    BY <1>3, <2>1, OneStageOn DEF OpenSink, InStage
  <2> QED BY <1>2, <1>3, <2>1 DEF OpenSink
<1>4. CASE \/ CloseSink(t, q)
           \/ \E n \in 0 .. Len(sink[q].pending) : CloseFails(t, q, n)
  BY <1>2, <1>4 DEF CloseSink, CloseFails, AtClose, Flushing
<1> QED BY <1>1, <1>3, <1>4 DEF Flush, HandOver, Push, PushFails

LEMMA BeginForward ==
  ASSUME Nest, Early, NEW t \in Threads, NEW q \in Runs, NEW x \in {q, NoRun},
         BeginRun(t, q, x), NEW r \in Runs
  PROVE  MovesForward(r)
<1>0. /\ stage \in [Runs -> Stage]
      /\ token \in [Runs -> [run : RunOrNone, seq : Nat]]
  BY DEF Nest, NestTypes
<1>1. /\ stage[q] = "fresh"
      /\ stage' = [stage EXCEPT ![q] = "plan"]
      /\ token' = [token EXCEPT ![q] = [run |-> ctx[t].run, seq |-> ctx[t].seq]]
  BY DEF BeginRun
<1>2. token[q].run = NoRun /\ r # NoRun
  BY <1>1, NoRunAssumption DEF Early
<1>3. \A p \in Runs : token'[p].run = token[p].run \/ p = q
  BY <1>0, <1>1
<1>4. Nested(r) => Nested(r)'
  <2>1. ASSUME token[r].run # NoRun
        PROVE  Nested(r)'
    BY <1>2, <1>3, <2>1 DEF Nested
  <2>2. ASSUME NEW p \in Runs, token[p].run = r
        PROVE  Nested(r)'
    BY <1>2, <1>3, <2>2 DEF Nested
  <2> QED BY <2>1, <2>2 DEF Nested
<1> QED BY <1>0, <1>1, <1>4 DEF MovesForward

LEMMA Forward ==
  ASSUME Nest, Early, [Next]_vars, NEW r \in Runs
  PROVE  MovesForward(r)
<1>1. ASSUME UNCHANGED <<stage, token>>
      PROVE  MovesForward(r)
  BY <1>1 DEF MovesForward, Nested
<1>2. ASSUME NEW t \in Threads,
             RouterOutcome(t) \/ StageRaises(t) \/ EnterExecute(t) \/ LeaveExecute(t)
      PROVE  MovesForward(r)
  <2>1. Last(stack[t]) \in Runs
    BY <1>2, InnermostIsRun
       DEF RouterOutcome, StageRaises, EnterExecute, LeaveExecute, InStage
  <2>2. CASE RouterOutcome(t) \/ StageRaises(t)
    BY <2>1, <2>2, OneStageOn DEF RouterOutcome, StageRaises, Leave
  <2>3. CASE EnterExecute(t) \/ LeaveExecute(t)
    BY <2>1, <2>3, OneStageOn DEF EnterExecute, LeaveExecute, InStage
  <2> QED BY <1>2, <2>2, <2>3
<1>3. ASSUME NEW t \in Threads,
             EventRejected(t) \/ EventCollected(t) \/ EventToFile(t)
      PROVE  MovesForward(r)
  BY <1>1, <1>3 DEF EventRejected, EventCollected, EventToFile, Claim
<1>4. CASE UNCHANGED vars
  BY <1>1, <1>4 DEF vars
<1> QED BY <1>2, <1>3, <1>4, BeginForward, FlushForward DEF Next, Idle

\* A list of held records grows only while its run executes, and a buffer
\* changes only while its run flushes.
LEMMA HeldAndSinkSteps ==
  ASSUME Nest, RecordTypes, [Next]_vars, NEW r \in Runs
  PROVE  /\ held'[r] = held[r] \/ stage[r] = "execute"
         /\ sink'[r] = sink[r] \/ stage[r] = "flush"
<1>1. CASE UNCHANGED <<held, sink>>
  BY <1>1
<1>2. ASSUME NEW t \in Threads, EventCollected(t)
      PROVE  /\ held'[r] = held[r] \/ stage[r] = "execute"
             /\ sink'[r] = sink[r]
  <2>1. ctx[t].collector \in Runs /\ stage[ctx[t].collector] = "execute"
    BY <1>2 DEF EventCollected, Nest, CollectorIsLive, NestTypes, RunOrNone
  <2>2. /\ UNCHANGED sink
        /\ held' = [held EXCEPT ![ctx[t].collector]
                      = Append(@, Assemble(t, TRUE))]
    BY <1>2 DEF EventCollected, Claim
  <2> QED BY <2>1, <2>2 DEF RecordTypes
<1>3. ASSUME NEW t \in Threads, NEW q \in Runs, Flush(t, q)
      PROVE  UNCHANGED held /\ (sink'[r] = sink[r] \/ stage[r] = "flush")
  <2>1. CASE OpenSink(t, q)
    BY <2>1 DEF OpenSink, Report
  <2>2. ASSUME Flushing(t, q), UNCHANGED held, q # r => sink'[r] = sink[r]
        PROVE  UNCHANGED held /\ (sink'[r] = sink[r] \/ stage[r] = "flush")
    BY <2>2 DEF Flushing, InStage
  <2>3. ASSUME NEW accepted \in BOOLEAN, HandOver(t, q, accepted)
        PROVE  UNCHANGED held /\ (sink'[r] = sink[r] \/ stage[r] = "flush")
    <3>1. Flushing(t, q) /\ UNCHANGED held /\ (q # r => sink'[r] = sink[r])
      BY <2>3, HandOverTyped DEF HandOver
    <3> QED BY <3>1, <2>2
  <2>4. CASE \/ Push(t, q)
             \/ \E n, kept \in 0 .. Len(sink[q].pending) : PushFails(t, q, n, kept)
             \/ CloseSink(t, q)
             \/ \E n \in 0 .. Len(sink[q].pending) : CloseFails(t, q, n)
    <3>1. PICK m \in Nat, k \in Nat : Drains(q, m, k)
      BY <2>4, DrainSteps
    <3>2. Flushing(t, q) /\ UNCHANGED held /\ (q # r => sink'[r] = sink[r])
      BY <2>4, <3>1, DrainSteps, Drained
    <3> QED BY <3>2, <2>2
  <2> QED BY <1>3, <2>1, <2>3, <2>4 DEF Flush
<1>4. ASSUME NEW t \in Threads,
             \/ \E q \in Runs : \E x \in {q, NoRun} : BeginRun(t, q, x)
             \/ RouterOutcome(t) \/ StageRaises(t) \/ EnterExecute(t)
             \/ LeaveExecute(t) \/ EventRejected(t) \/ EventToFile(t)
      PROVE  UNCHANGED <<held, sink>>
  BY <1>4 DEF BeginRun, RouterOutcome, StageRaises, EnterExecute, LeaveExecute,
     EventRejected, EventToFile, Claim
<1>5. CASE UNCHANGED vars
  BY <1>1, <1>5 DEF vars
<1> QED BY <1>1, <1>2, <1>3, <1>4, <1>5 DEF Next, Idle

CollectsItsOwn ==
  \A t \in Threads :
    InStage(t, "execute") /\ ~Nested(Innermost(t))
      => ctx[t].collector = Innermost(t)

LEMMA TopsApart ==
  ASSUME Nest, NEW t \in Threads, NEW u \in Threads, u # t, Busy(t), Busy(u)
  PROVE  Last(stack[u]) # Last(stack[t])
<1>1. /\ stack[t] \in Seq(Runs) /\ stack[t] # <<>>
      /\ stack[u] \in Seq(Runs) /\ stack[u] # <<>>
  BY InnermostIsRun
<1>2. /\ Len(stack[t]) \in DOMAIN stack[t] /\ Last(stack[t]) = stack[t][Len(stack[t])]
      /\ Len(stack[u]) \in DOMAIN stack[u] /\ Last(stack[u]) = stack[u][Len(stack[u])]
  BY <1>1, TopOfStack
<1>3. Distinct
  BY DEF Nest
<1> QED BY <1>2, <1>3 DEF Distinct

\* A step that leaves the runs in progress alone.
LEMMA CollectsInPlace ==
  ASSUME CollectsItsOwn, UNCHANGED <<stack, stage, token>>,
         \A u \in Threads : ctx'[u].collector = ctx[u].collector
  PROVE  CollectsItsOwn'
BY DEF CollectsItsOwn, InStage, Busy, Innermost, Nested

\* A step that moves the innermost run of one thread a stage on.
LEMMA CollectsOneOn ==
  ASSUME Nest, CollectsItsOwn, NEW t \in Threads, Busy(t), NEW v,
         UNCHANGED <<stack, token>>,
         stage' = [stage EXCEPT ![Last(stack[t])] = v],
         \A u \in Threads : u # t => ctx'[u].collector = ctx[u].collector,
         v = "execute" => ctx'[t].collector = Last(stack[t])
  PROVE  CollectsItsOwn'
<1> SUFFICES ASSUME NEW u \in Threads, InStage(u, "execute")', ~Nested(Innermost(u))'
             PROVE  ctx'[u].collector = Innermost(u)'
  BY DEF CollectsItsOwn
<1>1. /\ Busy(u) /\ Innermost(u)' = Innermost(u) /\ ~Nested(Innermost(u))
      /\ stage'[Last(stack[u])] = "execute"
  BY DEF InStage, Busy, Innermost, Nested
<1>2. Last(stack[u]) \in Runs /\ Innermost(u) = Last(stack[u])
      /\ Last(stack[t]) \in Runs /\ stage \in [Runs -> Stage]
  BY <1>1, InnermostIsRun DEF Nest, NestTypes
<1>3. CASE u = t
  BY <1>1, <1>2, <1>3
<1>4. CASE u # t
  <2>1. stage[Last(stack[u])] = "execute"
    BY <1>1, <1>2, <1>4, TopsApart
  <2> QED BY <1>1, <1>4, <2>1 DEF CollectsItsOwn, InStage
<1> QED BY <1>3, <1>4

LEMMA CollectsAfterLeave ==
  ASSUME Nest, CollectsItsOwn, NEW t \in Threads, Busy(t),
         NEW how, NEW c, Leave(t, how, c), UNCHANGED token
  PROVE  CollectsItsOwn'
<1> SUFFICES ASSUME NEW u \in Threads, InStage(u, "execute")', ~Nested(Innermost(u))'
             PROVE  ctx'[u].collector = Innermost(u)'
  BY DEF CollectsItsOwn
<1>0. /\ stack \in [Threads -> Seq(Runs)] /\ stage \in [Runs -> Stage]
      /\ ctx \in [Threads -> [run : RunOrNone, seq : Nat,
                              collector : RunOrNone, secrets : RunOrNone]]
  BY DEF Nest, NestTypes
<1>1. CASE u # t
  <2>1. stack'[u] = stack[u] /\ ctx'[u] = ctx[u]
    BY <1>0, <1>1 DEF Leave
  <2>2. /\ Busy(u) /\ Innermost(u)' = Innermost(u) /\ ~Nested(Innermost(u))
        /\ stage'[Last(stack[u])] = "execute"
    BY <2>1 DEF InStage, Busy, Innermost, Nested
  <2>3. Last(stack[u]) \in Runs /\ Last(stack[t]) \in Runs
        /\ Last(stack[u]) # Last(stack[t])
    BY <1>1, <2>2, InnermostIsRun, TopsApart
  <2>4. stage[Last(stack[u])] = "execute"
    BY <1>0, <2>2, <2>3 DEF Leave
  <2> QED BY <2>1, <2>2, <2>4 DEF CollectsItsOwn, InStage
<1>2. CASE u = t
  <2> DEFINE s == stack[t]
  <2>1. s \in Seq(Runs) /\ s # <<>> /\ stack'[t] = Front(s)
    BY <1>0, InnermostIsRun DEF Leave
  <2>2. Front(s) # <<>>
    BY <1>2, <2>1 DEF InStage, Busy
  <2>3. /\ Len(s) \in Nat /\ Len(s) > 1 /\ DOMAIN s = 1 .. Len(s)
        /\ Last(Front(s)) = s[Len(s) - 1]
    BY <2>1, <2>2, Popped, TopOfStack
  <2>4. Innermost(t)' = s[Len(s) - 1]
    BY <2>1, <2>2, <2>3 DEF Innermost, Busy
  <2>5. /\ Len(s) \in DOMAIN s /\ Len(s) # 1
        /\ token[s[Len(s)]].run = s[Len(s) - 1]
    <3>1. Len(s) \in DOMAIN s
      BY <2>1, TopOfStack
    <3>2. \A i \in DOMAIN s : token[s[i]].run = IF i = 1 THEN NoRun ELSE s[i - 1]
      BY DEF Nest, ContextOfInnermost
    <3>3. Len(s) # 1
      <4>1. Len(s) \in Nat /\ Len(s) > 1
        BY <2>3
      <4>2. \A n \in Nat : n > 1 => n # 1
        OBVIOUS
      <4> QED BY <4>1, <4>2
    <3> QED BY <3>1, <3>2, <3>3
  <2>6. s[Len(s)] \in Runs
    BY <2>1, <2>3, <2>5, ElementOfSeq
  <2>7. Nested(Innermost(t))'
    BY <2>4, <2>5, <2>6 DEF Nested
  <2> QED BY <1>2, <2>7
<1> QED BY <1>1, <1>2

LEMMA CollectsAfterBegin ==
  ASSUME Nest, Early, NEW t \in Threads, NEW r \in Runs, NEW x \in {r, NoRun},
         BeginRun(t, r, x)
  PROVE  CollectsItsOwn'
<1> SUFFICES ASSUME NEW u \in Threads, InStage(u, "execute")', ~Nested(Innermost(u))'
             PROVE  ctx'[u].collector = Innermost(u)'
  BY DEF CollectsItsOwn
<1>0. /\ stack \in [Threads -> Seq(Runs)] /\ stage \in [Runs -> Stage]
      /\ ctx \in [Threads -> [run : RunOrNone, seq : Nat,
                              collector : RunOrNone, secrets : RunOrNone]]
  BY DEF Nest, NestTypes
<1>1. /\ stage[r] = "fresh" /\ stage' = [stage EXCEPT ![r] = "plan"]
      /\ stack' = [stack EXCEPT ![t] = Append(@, r)]
      /\ \A w \in Threads : w # t => ctx'[w] = ctx[w]
  BY <1>0 DEF BeginRun
<1>2. CASE u = t
  <2>1. stack'[t] = Append(stack[t], r) /\ Last(Append(stack[t], r)) = r
    BY <1>0, <1>1, Pushed
  <2>2. stage'[r] = "plan"
    BY <1>0, <1>1
  <2> QED BY <1>2, <2>1, <2>2 DEF InStage
<1>3. CASE u # t
  <2>1. stack'[u] = stack[u] /\ ctx'[u] = ctx[u]
    BY <1>0, <1>1, <1>3
  <2>2. Busy(u) /\ Innermost(u)' = Innermost(u) /\ stage'[Last(stack[u])] = "execute"
    BY <2>1 DEF InStage, Busy, Innermost
  <2>3. Last(stack[u]) \in Runs /\ Innermost(u) = Last(stack[u])
    BY <2>2, InnermostIsRun
  <2>4. stage[Last(stack[u])] = "execute"
    BY <1>0, <1>1, <2>2, <2>3
  <2>5. Nested(Innermost(u)) => Nested(Innermost(u))'
    <3>1. MovesForward(Last(stack[u]))
      BY <2>3, BeginForward
    <3>2. Nested(Last(stack[u])) => Nested(Last(stack[u]))'
      BY <3>1 DEF MovesForward
    <3> QED BY <2>1, <2>2, <2>3, <3>2 DEF Nested
  <2> QED BY <2>1, <2>2, <2>4, <2>5 DEF Early, InStage
<1> QED BY <1>2, <1>3

LEMMA CollectsNext ==
  ASSUME Nest, RecordTypes, Early, [Next]_vars
  PROVE  CollectsItsOwn'
<1>0. /\ CollectsItsOwn
      /\ ctx \in [Threads -> [run : RunOrNone, seq : Nat,
                              collector : RunOrNone, secrets : RunOrNone]]
  BY DEF Early, CollectsItsOwn, Nest, NestTypes
<1>1. CASE UNCHANGED <<stack, stage, token, ctx>>
  BY <1>0, <1>1, CollectsInPlace
<1>2. ASSUME NEW t \in Threads,
             EventRejected(t) \/ EventCollected(t) \/ EventToFile(t)
      PROVE  CollectsItsOwn'
  <2>1. PICK n : ctx' = [ctx EXCEPT ![t].seq = n]
    BY <1>2 DEF EventRejected, EventCollected, EventToFile, Claim
  <2>2. UNCHANGED <<stack, stage, token>>
    BY <1>2 DEF EventRejected, EventCollected, EventToFile, Claim
  <2>3. \A u \in Threads : ctx'[u].collector = ctx[u].collector
    BY <1>0, <2>1
  <2> QED BY <1>0, <2>2, <2>3, CollectsInPlace
<1>3. ASSUME NEW t \in Threads, NEW q \in Runs, Flush(t, q)
      PROVE  CollectsItsOwn'
  <2>1. CASE OpenSink(t, q) /\ stage' = [stage EXCEPT ![q] = "flush"]
               /\ UNCHANGED <<ctx, stack, token>>
    BY <1>0, <2>1, CollectsOneOn DEF OpenSink, InStage
  <2>2. CASE \E p, n : Report(t, q, p, n) /\ Busy(t)
    BY <1>0, <2>2, CollectsAfterLeave DEF Report
  <2> QED BY <1>1, <1>3, <2>1, <2>2
      DEF Flush, OpenSink, HandOver, Push, PushFails, CloseSink, CloseFails,
          AtClose, Flushing, InStage
<1>4. ASSUME NEW t \in Threads, RouterOutcome(t) \/ StageRaises(t)
      PROVE  CollectsItsOwn'
  <2>1. Busy(t) /\ UNCHANGED token
    BY <1>4 DEF RouterOutcome, StageRaises, InStage
  <2>2. \E how, c : Leave(t, how, c)
    BY <1>4 DEF RouterOutcome, StageRaises
  <2> QED BY <1>0, <2>1, <2>2, CollectsAfterLeave
<1>5. ASSUME NEW t \in Threads, EnterExecute(t) \/ LeaveExecute(t)
      PROVE  CollectsItsOwn'
  <2>1. Busy(t) /\ UNCHANGED <<stack, token>>
    BY <1>5 DEF EnterExecute, LeaveExecute, InStage
  <2>2. PICK v, c :
          /\ v \in {"execute", "verify"}
          /\ stage' = [stage EXCEPT ![Last(stack[t])] = v]
          /\ ctx' = [ctx EXCEPT ![t].collector = c]
          /\ v = "execute" => c = Last(stack[t])
    BY <1>5 DEF EnterExecute, LeaveExecute
  <2>3. /\ \A u \in Threads : u # t => ctx'[u].collector = ctx[u].collector
        /\ ctx'[t].collector = c
    BY <1>0, <2>2
  <2> QED BY <1>0, <2>1, <2>2, <2>3, CollectsOneOn
<1>6. CASE UNCHANGED vars
  BY <1>1, <1>6 DEF vars
<1> QED BY <1>2, <1>3, <1>4, <1>5, <1>6, CollectsAfterBegin DEF Next, Idle

LEMMA EarlyNext ==
  ASSUME Nest, RecordTypes, Early, [Next]_vars
  PROVE  Early'
<1>1. ASSUME NEW r \in Runs
      PROVE  /\ stage'[r] = "fresh" => token'[r].run = NoRun
             /\ stage'[r] \in {"fresh", "plan"} => held'[r] = <<>>
             /\ stage'[r] \in {"fresh", "plan", "execute", "verify"}
                  => sink'[r] = Closed
  <2>1. MovesForward(r)
    BY Forward
  <2>2. /\ held'[r] = held[r] \/ stage[r] = "execute"
        /\ sink'[r] = sink[r] \/ stage[r] = "flush"
    BY HeldAndSinkSteps
  <2>3. /\ stage[r] = "fresh" => token[r].run = NoRun
        /\ stage[r] \in {"fresh", "plan"} => held[r] = <<>>
        /\ stage[r] \in {"fresh", "plan", "execute", "verify"} => sink[r] = Closed
    BY DEF Early
  <2>4. stage'[r] = "fresh" => token'[r].run = NoRun
    BY <2>1, <2>3 DEF MovesForward
  <2>5. stage'[r] \in {"fresh", "plan"} => held'[r] = <<>>
    BY <2>1, <2>2, <2>3 DEF MovesForward
  <2>6. stage'[r] \in {"fresh", "plan", "execute", "verify"} => sink'[r] = Closed
    BY <2>1, <2>2, <2>3 DEF MovesForward
  <2> QED BY <2>4, <2>5, <2>6
<1>2. CollectsItsOwn'
  BY CollectsNext
<1> QED BY <1>1, <1>2 DEF Early, CollectsItsOwn

-----------------------------------------------------------------------------
(* A step that makes a record.                                             *)

LEMMA Shapes ==
  ASSUME Nest, RecordTypes
  PROVE  /\ Len(made) \in Nat /\ DOMAIN made = 1 .. Len(made)
         /\ Len(file) \in Nat /\ DOMAIN file = 1 .. Len(file)
         /\ \A i \in DOMAIN made : made[i].event_id \in Nat
         /\ \A i \in DOMAIN file : file[i].run \in RunOrNone
         /\ \A r \in Runs :
              /\ Len(held[r]) \in Nat /\ DOMAIN held[r] = 1 .. Len(held[r])
              /\ DOMAIN sink[r].pending = 1 .. Len(sink[r].pending)
              /\ Len(sink[r].pending) \in Nat /\ sink[r].next \in Nat
<1>1. made \in Seq(Event) /\ file \in Seq(Event)
  BY DEF Nest, NestTypes, RecordTypes
<1>2. ASSUME NEW s \in Seq(Event)
      PROVE  Len(s) \in Nat /\ DOMAIN s = 1 .. Len(s)
             /\ \A i \in DOMAIN s : s[i] \in Event
  BY LenProperties, ElementOfSeq
<1>3. \A r \in Runs : held[r] \in Seq(Event)
  BY DEF RecordTypes
<1> QED BY <1>1, <1>2, <1>3, SinkTyped DEF Event

LEMMA Appended ==
  ASSUME NEW s \in Seq(Event), NEW e \in Event
  PROVE  /\ Append(s, e) \in Seq(Event)
         /\ Len(s) \in Nat /\ DOMAIN s = 1 .. Len(s)
         /\ DOMAIN Append(s, e) = 1 .. Len(s) + 1
         /\ \A i \in DOMAIN Append(s, e) :
              \/ i \in DOMAIN s /\ Append(s, e)[i] = s[i]
              \/ i = Len(s) + 1 /\ Append(s, e)[i] = e
         /\ \A i \in DOMAIN s : i \in DOMAIN Append(s, e) /\ Append(s, e)[i] = s[i]
         /\ Len(s) + 1 \in DOMAIN Append(s, e) /\ Append(s, e)[Len(s) + 1] = e
<1>1. Len(s) \in Nat /\ DOMAIN s = 1 .. Len(s)
  BY LenProperties
<1>2. /\ Append(s, e) \in Seq(Event)
      /\ Len(Append(s, e)) = Len(s) + 1
      /\ \A i \in 1 .. Len(s) : Append(s, e)[i] = s[i]
      /\ Append(s, e)[Len(s) + 1] = e
  BY AppendProperties
<1>3. DOMAIN Append(s, e) = 1 .. Len(s) + 1
  BY <1>2, LenProperties
<1>4. /\ \A i \in 1 .. Len(s) + 1 : i \in 1 .. Len(s) \/ i = Len(s) + 1
      /\ \A i \in 1 .. Len(s) : i \in 1 .. Len(s) + 1
      /\ Len(s) + 1 \in 1 .. Len(s) + 1
  BY <1>1
<1> QED BY <1>1, <1>2, <1>3, <1>4

\* The new record is known, and the ones made before are known and come
\* before it.
LEMMA Older ==
  ASSUME Nest, NEW e \in Event, e.event_id = Len(made) + 1,
         made' = Append(made, e)
  PROVE  /\ Known(e)'
         /\ \A f : Known(f) => Known(f)' /\ Before(f, e)
         /\ (\A i \in DOMAIN made : made[i].event_id = i)
              => \A i \in DOMAIN made' : made'[i].event_id = i
<1>1. made \in Seq(Event)
  BY DEF Nest, NestTypes
<1>2. /\ Len(made) \in Nat /\ DOMAIN made = 1 .. Len(made)
      /\ DOMAIN made' = 1 .. Len(made) + 1
      /\ \A i \in DOMAIN made' :
           \/ i \in DOMAIN made /\ made'[i] = made[i]
           \/ i = Len(made) + 1 /\ made'[i] = e
      /\ \A i \in DOMAIN made : i \in DOMAIN made' /\ made'[i] = made[i]
      /\ Len(made) + 1 \in DOMAIN made' /\ made'[Len(made) + 1] = e
  BY <1>1, Appended
<1>3. Known(e)'
  BY <1>2 DEF Known
<1>4. \A f : Known(f) => Known(f)' /\ Before(f, e)
  BY <1>2 DEF Known, Before
<1> QED BY <1>2, <1>3, <1>4

\* What the actions that make a record have in common.
Makes(t, e) ==
  /\ Writes(t)
  /\ e \in Event /\ e.event_id = Len(made) + 1 /\ e.run = ctx[t].run
  /\ made' = Append(made, e)
  /\ UNCHANGED <<stack, stage, token, sink, result>>

LEMMA MakeSteps ==
  ASSUME Nest, NEW t \in Threads,
         EventRejected(t) \/ EventCollected(t) \/ EventToFile(t)
  PROVE  \E e : Makes(t, e) /\
           \/ ~e.valid /\ UNCHANGED <<held, file, warned>>
           \/ /\ ctx[t].collector # NoRun /\ ctx[t].collector \in Runs
              /\ stage[ctx[t].collector] = "execute"
              /\ held' = [held EXCEPT ![ctx[t].collector] = Append(@, e)]
              /\ UNCHANGED <<file, warned>>
           \/ /\ ctx[t].collector = NoRun
              /\ \/ file' = Append(file, e) /\ UNCHANGED warned
                 \/ warned' = warned \cup {e} /\ UNCHANGED file
              /\ UNCHANGED held
<1>0. NestTypes
  BY DEF Nest
<1>1. CASE EventRejected(t)
  <2> DEFINE e == Assemble(t, FALSE)
  <2>1. Makes(t, e) /\ ~e.valid
    BY <1>0, <1>1, AssembleTyped DEF EventRejected, Claim, Makes
  <2> QED BY <1>1, <2>1 DEF EventRejected
<1>2. CASE EventCollected(t)
  <2> DEFINE e == Assemble(t, TRUE)
  <2>1. Makes(t, e)
    BY <1>0, <1>2, AssembleTyped DEF EventCollected, Claim, Makes
  <2>2. ctx[t].collector \in Runs /\ stage[ctx[t].collector] = "execute"
    BY <1>2 DEF EventCollected, Nest, CollectorIsLive, NestTypes, RunOrNone
  <2> QED BY <1>2, <2>1, <2>2 DEF EventCollected
<1>3. CASE EventToFile(t)
  <2> DEFINE e == Assemble(t, TRUE)
  <2>1. Makes(t, e)
    BY <1>0, <1>3, AssembleTyped DEF EventToFile, Claim, Makes
  <2> QED BY <1>3, <2>1 DEF EventToFile
<1> QED BY <1>1, <1>2, <1>3

\* A run with no run inside or around it writes to the file while planning and
\* to its own list while executing.
LEMMA WriterOfRecord ==
  ASSUME Nest, Early, NEW t \in Threads, NEW e, Makes(t, e),
         NEW r \in Runs, ~Nested(r), e.run = r
  PROVE  \/ stage[r] = "execute" /\ ctx[t].collector = r
         \/ stage[r] = "plan" /\ ctx[t].collector = NoRun
<1>1. Innermost(t) = r /\ r # NoRun
  BY NoRunAssumption DEF Makes, Nest, ContextOfInnermost
<1>2. Busy(t) /\ Last(stack[t]) = r
  BY <1>1 DEF Innermost
<1>3. stage[r] = "execute" \/ stage[r] = "plan"
  BY <1>2 DEF Makes, Writes, InStage
<1>4. CASE stage[r] = "execute"
  BY <1>1, <1>2, <1>4 DEF Early, InStage
<1>5. ASSUME stage[r] = "plan", ctx[t].collector # NoRun
      PROVE  FALSE
  <2> DEFINE s == stack[t]  c == ctx[t].collector
  <2>1. s \in Seq(Runs) /\ s # <<>>
    BY <1>2, InnermostIsRun
  <2>2. /\ Len(s) \in Nat \ {0} /\ DOMAIN s = 1 .. Len(s) /\ Len(s) \in DOMAIN s
        /\ r = s[Len(s)] /\ Range(s) = {s[i] : i \in 1 .. Len(s)}
    BY <1>2, <2>1, TopOfStack
  <2>3. c \in Range(s) /\ stage[c] = "execute"
    BY <1>5 DEF Nest, CollectorIsLive
  <2>4. PICK i \in 1 .. Len(s) : s[i] = c
    BY <2>2, <2>3
  <2>5. i # Len(s)
    BY <1>5, <2>2, <2>3, <2>4
  <2>6. Len(s) # 1 /\ Len(s) - 1 \in 1 .. Len(s)
    <3>1. \A n \in Nat \ {0} : \A j \in 1 .. n : j # n => n # 1 /\ n - 1 \in 1 .. n
      OBVIOUS
    <3> QED BY <2>2, <2>4, <2>5, <3>1
  <2>7. token[r].run = s[Len(s) - 1]
    <3>1. \A j \in DOMAIN s : token[s[j]].run = IF j = 1 THEN NoRun ELSE s[j - 1]
      BY DEF Nest, ContextOfInnermost
    <3> QED BY <2>2, <2>6, <3>1
  <2>8. s[Len(s) - 1] \in Runs
    BY <2>1, <2>6, ElementOfSeq
  <2> QED BY <2>7, <2>8, NoRunAssumption DEF Nested
<1> QED BY <1>3, <1>4, <1>5

LEMMA NestingKept ==
  ASSUME UNCHANGED token, NEW r
  PROVE  Nested(r)' <=> Nested(r)
BY DEF Nested

\* A record that is not collected: rejected, written to the file, or lost.
LEMMA MadeOutside ==
  ASSUME Trail, NEW t \in Threads, NEW e, Makes(t, e), UNCHANGED held,
         \/ UNCHANGED file
         \/ ctx[t].collector = NoRun /\ file' = Append(file, e)
  PROVE  Held' /\ InOrder' /\ HandedOver'
<1> USE DEF Trail
<1>1. e \in Event /\ file \in Seq(Event) /\ UNCHANGED <<sink, token, stage>>
  BY DEF Makes, RecordTypes
<1>2. /\ Known(e)'
      /\ \A f : Known(f) => Known(f)' /\ Before(f, e)
      /\ \A i \in DOMAIN made' : made'[i].event_id = i
  <2>1. \A i \in DOMAIN made : made[i].event_id = i
    BY DEF Held
  <2> QED BY <2>1, Older DEF Makes
<1>3. /\ \A i \in DOMAIN file' :
           \/ i \in DOMAIN file /\ file'[i] = file[i]
           \/ /\ i = Len(file) + 1 /\ file'[i] = e
              /\ ctx[t].collector = NoRun
      /\ \A i \in DOMAIN file : i \in DOMAIN file' /\ file'[i] = file[i]
      /\ Len(file) \in Nat /\ DOMAIN file = 1 .. Len(file)
  BY <1>1, Appended, Shapes
<1>4. Held'
  <2>1. \A q \in Runs : InHand(q)'
    BY <1>1, <1>2 DEF Held, InHand, Before
  <2> QED BY <1>2, <1>3, <2>1 DEF Held
<1>5. InOrder'
  <2> SUFFICES ASSUME NEW r \in Runs, ~Nested(r)
               PROVE  /\ \A q \in Runs : \A i \in DOMAIN held[q] :
                           held[q][i].run = r => q = r
                      /\ \A i \in DOMAIN file' : file'[i].run = r =>
                           /\ \A j \in DOMAIN file' :
                                i < j /\ file'[j].run = r => Before(file'[i], file'[j])
                           /\ \A j \in DOMAIN sink[r].pending :
                                Before(file'[i], sink[r].pending[j])
                           /\ \A j \in DOMAIN held[r] :
                                sink[r].next <= j => Before(file'[i], held[r][j])
    BY <1>1, NestingKept DEF InOrder, Before
  <2>1. \A q \in Runs : \A i \in DOMAIN held[q] : held[q][i].run = r => q = r
    BY DEF InOrder
  <2>2. ASSUME NEW i \in DOMAIN file, file[i].run = r
        PROVE  /\ \A j \in DOMAIN file' :
                    i < j /\ file'[j].run = r => Before(file[i], file'[j])
               /\ \A j \in DOMAIN sink[r].pending :
                    Before(file[i], sink[r].pending[j])
               /\ \A j \in DOMAIN held[r] :
                    sink[r].next <= j => Before(file[i], held[r][j])
    <3>1. Before(file[i], e)
      BY <1>2 DEF Held
    <3> QED BY <1>3, <2>2, <3>1 DEF InOrder
  <2>3. ASSUME ctx[t].collector = NoRun, e.run = r
        PROVE  DOMAIN sink[r].pending = {} /\ DOMAIN held[r] = {}
    <3>1. stage[r] = "plan"
      BY <2>3, WriterOfRecord, NoRunAssumption
    <3>2. held[r] = <<>> /\ sink[r].pending = <<>>
      BY <3>1 DEF Early, Closed
    <3> QED BY <3>2
  <2>4. ASSUME NEW i \in DOMAIN file', NEW j \in DOMAIN file', i < j,
               i = Len(file) + 1
        PROVE  FALSE
    BY <1>3, <2>4
  <2> QED BY <1>3, <2>1, <2>2, <2>3, <2>4
<1>6. HandedOver'
  <2>1. Range(file) \subseteq Range(file')
    BY <1>3 DEF Range
  <2> QED BY <1>1, <2>1 DEF HandedOver
<1> QED BY <1>4, <1>5, <1>6

\* A record that goes to the list of the run whose collector is set.
LEMMA MadeInside ==
  ASSUME Trail, NEW t \in Threads, NEW e, Makes(t, e),
         NEW c \in Runs, c = ctx[t].collector, stage[c] = "execute",
         held' = [held EXCEPT ![c] = Append(@, e)], UNCHANGED file
  PROVE  Held' /\ InOrder' /\ HandedOver'
<1> USE DEF Trail
<1> DEFINE K(f) == f.event_id \in DOMAIN made' /\ made'[f.event_id] = f
<1>1. e \in Event /\ UNCHANGED <<sink, token, stage>> /\ held[c] \in Seq(Event)
  BY DEF Makes, RecordTypes
<1>2. /\ K(e)
      /\ \A f : Known(f) => K(f) /\ Before(f, e)
      /\ \A i \in DOMAIN made' : made'[i].event_id = i
  <2>1. \A i \in DOMAIN made : made[i].event_id = i
    BY DEF Held
  <2> QED BY <2>1, Older DEF Makes, Known
<1> HIDE DEF K
<1>3. /\ \A q \in Runs : q # c => held'[q] = held[q]
      /\ \A i \in DOMAIN held'[c] :
           \/ i \in DOMAIN held[c] /\ held'[c][i] = held[c][i]
           \/ i = Len(held[c]) + 1 /\ held'[c][i] = e
      /\ Len(held[c]) \in Nat /\ DOMAIN held[c] = 1 .. Len(held[c])
  <2>1. held'[c] = Append(held[c], e) /\ \A q \in Runs : q # c => held'[q] = held[q]
    BY DEF RecordTypes
  <2> QED BY <1>1, <2>1, Appended
<1>4. DOMAIN sink[c].pending = {}
  BY DEF Early, Closed
<1>5. Held'
  <2>1. ASSUME NEW q \in Runs
        PROVE  InHand(q)'
    <3>0. sink' = sink
      BY <1>1
    <3>1. CASE q # c
      BY <1>2, <1>3, <3>0, <3>1 DEF Held, InHand, Before, Known, K
    <3>2. CASE q = c
      <4>1. \A i \in DOMAIN held[c] : K(held[c][i]) /\ Before(held[c][i], e)
        BY <1>2 DEF Held, InHand
      <4>2. \A i \in DOMAIN held'[c] : K(held'[c][i])
        BY <1>2, <1>3, <4>1
      <4>3. ASSUME NEW i \in DOMAIN held'[c], NEW j \in DOMAIN held'[c], i < j
            PROVE  Before(held'[c][i], held'[c][j])
        <5>1. i \in DOMAIN held[c] /\ held'[c][i] = held[c][i]
          BY <1>3, <4>3
        <5> QED BY <1>3, <4>1, <4>3, <5>1 DEF Held, InHand
      <4> QED BY <1>4, <3>0, <3>2, <4>2, <4>3 DEF InHand, Before, Known, K
    <3> QED BY <3>1, <3>2
  <2>2. \A i \in DOMAIN file' : K(file'[i])
    BY <1>2 DEF Held
  <2> QED BY <1>2, <2>1, <2>2 DEF Held, Known, K
<1>6. InOrder'
  <2> SUFFICES ASSUME NEW r \in Runs, ~Nested(r)
               PROVE  /\ \A q \in Runs : \A i \in DOMAIN held'[q] :
                           held'[q][i].run = r => q = r
                      /\ \A i \in DOMAIN file : file[i].run = r =>
                           /\ \A j \in DOMAIN file :
                                i < j /\ file[j].run = r => Before(file[i], file[j])
                           /\ \A j \in DOMAIN sink[r].pending :
                                Before(file[i], sink[r].pending[j])
                           /\ \A j \in DOMAIN held'[r] :
                                sink[r].next <= j => Before(file[i], held'[r][j])
    BY <1>1, NestingKept DEF InOrder, Before
  <2>1. e.run = r => c = r
    BY WriterOfRecord, NoRunAssumption
  <2>2. ASSUME NEW q \in Runs, NEW i \in DOMAIN held'[q], held'[q][i].run = r
        PROVE  q = r
    BY <1>3, <2>1, <2>2 DEF InOrder
  <2>3. ASSUME NEW i \in DOMAIN file, file[i].run = r,
               NEW j \in DOMAIN held'[r], sink[r].next <= j
        PROVE  Before(file[i], held'[r][j])
    <3>1. Before(file[i], e)
      BY <1>2 DEF Held
    <3> QED BY <1>3, <2>3, <3>1 DEF InOrder
  <2> QED BY <2>2, <2>3 DEF InOrder
<1>7. HandedOver'
  BY <1>1, <1>3 DEF HandedOver
<1> QED BY <1>5, <1>6, <1>7

-----------------------------------------------------------------------------
(* A step of a flush.                                                      *)

LEMMA HandOverKeeps ==
  ASSUME Trail, NEW t \in Threads, NEW q \in Runs, NEW accepted \in BOOLEAN,
         HandOver(t, q, accepted)
  PROVE  Held' /\ InOrder' /\ HandedOver'
<1> USE DEF Trail
<1> DEFINE p == sink[q].pending  new == sink'[q].pending
           e == held[q][sink[q].next]
<1>1. /\ \A r \in Runs : r # q => sink'[r] = sink[r]
      /\ sink'[q].next = sink[q].next + 1
      /\ sink'[q].failed = sink[q].failed
      /\ sink'[q].rejected = sink[q].rejected + (IF accepted THEN 0 ELSE 1)
      /\ new = IF accepted THEN Append(p, e) ELSE p
      /\ sink[q].next \in DOMAIN held[q] /\ e \in Event
      /\ UNCHANGED <<held, file, made>>
  BY HandOverTyped
<1>2. UNCHANGED <<stage, token>>
  BY DEF HandOver
<1>3. /\ \A i \in DOMAIN new :
           \/ i \in DOMAIN p /\ new[i] = p[i]
           \/ accepted /\ i = Len(p) + 1 /\ new[i] = e
      /\ \A i \in DOMAIN p : i \in DOMAIN new /\ new[i] = p[i]
      /\ accepted => Len(p) + 1 \in DOMAIN new /\ new[Len(p) + 1] = e
      /\ Len(p) \in Nat /\ DOMAIN p = 1 .. Len(p)
  <2>1. p \in Seq(Event) /\ Len(p) \in Nat /\ DOMAIN p = 1 .. Len(p)
    BY SinkTyped
  <2>2. CASE ~accepted
    BY <1>1, <2>1, <2>2
  <2>3. CASE accepted
    <3>1. new = Append(p, e) /\ e \in Event
      BY <1>1, <2>3
    <3> HIDE DEF p, e, new
    <3> QED BY <2>1, <2>3, <3>1, Appended
  <2> QED BY <2>2, <2>3
<1>4. /\ sink[q].next \in Nat /\ sink[q].rejected \in Nat
      /\ DOMAIN held[q] \subseteq Nat
  BY SinkTyped, Shapes
<1>5. InHand(q)
  BY DEF Held
<1> HIDE DEF p, new
<1>6. InHand(q)'
  <2>1. \A i \in DOMAIN new : \E j \in DOMAIN held[q] : held[q][j] = new[i]
    BY <1>1, <1>3, <1>5 DEF InHand, p
  <2>2. ASSUME NEW i \in DOMAIN new, NEW j \in DOMAIN new, i < j
        PROVE  Before(new[i], new[j])
    <3>1. i \in DOMAIN p /\ new[i] = p[i]
      BY <1>3, <2>2
    <3>2. CASE j \in DOMAIN p
      BY <1>3, <1>5, <2>2, <3>1, <3>2 DEF InHand, p
    <3>3. CASE new[j] = e
      <4>1. sink[q].next <= sink[q].next
        BY <1>4
      <4> QED BY <1>1, <1>5, <3>1, <3>3, <4>1 DEF InHand, p
    <3> QED BY <1>3, <3>2, <3>3
  <2>3. ASSUME NEW i \in DOMAIN new, NEW j \in DOMAIN held[q], sink[q].next + 1 <= j
        PROVE  Before(new[i], held[q][j])
    <3>1. sink[q].next <= j /\ sink[q].next < j
      BY <1>4, <2>3
    <3>2. CASE i \in DOMAIN p
      BY <1>3, <1>5, <2>3, <3>1, <3>2 DEF InHand, p
    <3>3. CASE new[i] = e
      BY <1>1, <1>5, <3>1, <3>3 DEF InHand
    <3> QED BY <1>3, <3>2, <3>3
  <2>4. (\A i \in DOMAIN held[q] : Known(held[q][i])) /\ made' = made
    BY <1>1, <1>5 DEF InHand
  <2> QED BY <1>1, <1>5, <2>1, <2>2, <2>3, <2>4 DEF InHand, Known, Before, new
<1>7. Held'
  <2>1. \A r \in Runs : r # q => InHand(r)'
    BY <1>1 DEF Held, InHand, Known, Before
  <2> QED BY <1>1, <1>6, <2>1 DEF Held, Known
<1>8. InOrder'
  <2> SUFFICES ASSUME NEW r \in Runs, ~Nested(r)
               PROVE  /\ \A x \in Runs : \A i \in DOMAIN held[x] :
                           held[x][i].run = r => x = r
                      /\ \A i \in DOMAIN file : file[i].run = r =>
                           /\ \A j \in DOMAIN file :
                                i < j /\ file[j].run = r => Before(file[i], file[j])
                           /\ \A j \in DOMAIN sink'[r].pending :
                                Before(file[i], sink'[r].pending[j])
                           /\ \A j \in DOMAIN held[r] :
                                sink'[r].next <= j => Before(file[i], held[r][j])
    BY <1>1, <1>2, NestingKept DEF InOrder, Before
  <2>1. CASE r # q
    BY <1>1, <2>1 DEF InOrder
  <2>2. ASSUME r = q, NEW i \in DOMAIN file, file[i].run = q
        PROVE  /\ \A j \in DOMAIN new : Before(file[i], new[j])
               /\ \A j \in DOMAIN held[q] :
                    sink'[q].next <= j => Before(file[i], held[q][j])
    <3>1. /\ \A j \in DOMAIN p : Before(file[i], p[j])
          /\ \A j \in DOMAIN held[q] :
               sink[q].next <= j => Before(file[i], held[q][j])
      BY <2>2 DEF InOrder, p
    <3>2. Before(file[i], e)
      BY <1>1, <1>4, <3>1
    <3>3. \A j \in DOMAIN held[q] : sink'[q].next <= j => sink[q].next <= j
      BY <1>1, <1>4
    <3> QED BY <1>3, <3>1, <3>2, <3>3
  <2> QED BY <2>1, <2>2 DEF InOrder, new
<1>9. HandedOver'
  <2> SUFFICES ASSUME NEW r \in Runs, stage[r] = "flush", ~sink'[r].failed,
                      sink'[r].rejected = 0, NEW i \in DOMAIN held[r],
                      i < sink'[r].next
               PROVE  held[r][i] \in Range(file) \cup Range(sink'[r].pending)
    BY <1>1, <1>2 DEF HandedOver
  <2>1. CASE r # q
    BY <1>1, <2>1 DEF HandedOver
  <2>2. CASE r = q
    <3>1. accepted /\ sink[q].rejected = 0
      BY <1>1, <1>4, <2>2
    <3>2. i < sink[q].next \/ i = sink[q].next
      BY <1>1, <1>4, <2>2
    <3>3. CASE i < sink[q].next
      <4>1. held[q][i] \in Range(file) \cup Range(p)
        BY <1>1, <2>2, <3>1, <3>3 DEF HandedOver, p
      <4>2. Range(p) \subseteq Range(new)
        BY <1>3 DEF Range
      <4> QED BY <2>2, <4>1, <4>2 DEF new
    <3>4. CASE i = sink[q].next
      <4>1. held[q][i] \in Range(new)
        BY <1>3, <3>1, <3>4 DEF Range
      <4> QED BY <2>2, <4>1 DEF new
    <3> QED BY <3>2, <3>3, <3>4
  <2> QED BY <2>1, <2>2
<1> QED BY <1>7, <1>8, <1>9

LEMMA WholeBuffer ==
  ASSUME RecordTypes, NEW r \in Runs
  PROVE  /\ Len(sink[r].pending) \in 0 .. Len(sink[r].pending)
         /\ SubSeq(sink[r].pending, 1, Len(sink[r].pending)) = sink[r].pending
<1>1. sink[r].pending \in Seq(Event) /\ Len(sink[r].pending) \in Nat
  BY SinkTyped
<1> QED BY <1>1, AllAndNone

\* Draining keeps the records in order.
LEMMA DrainKeepsOrder ==
  ASSUME Trail, NEW q \in Runs, NEW m \in Nat, NEW k \in Nat, Drains(q, m, k),
         UNCHANGED <<held, made, token>>
  PROVE  Held' /\ InOrder'
<1> USE DEF Trail
<1> DEFINE p == sink[q].pending  new == sink'[q].pending
<1>1. /\ Len(file) \in Nat /\ DOMAIN file = 1 .. Len(file)
      /\ DOMAIN file' = 1 .. Len(file) + m
      /\ \A i \in DOMAIN file : file'[i] = file[i]
      /\ \A i \in 1 .. m : i \in DOMAIN p /\ file'[Len(file) + i] = p[i]
      /\ \A r \in Runs : r # q => sink'[r] = sink[r]
      /\ sink'[q].next = sink[q].next
      /\ DOMAIN new = 1 .. k - m
      /\ \A i \in 1 .. k - m : m + i \in DOMAIN p /\ new[i] = p[m + i]
  BY Drained
<1>2. /\ \A i \in DOMAIN file' :
           \/ i \in DOMAIN file /\ file'[i] = file[i]
           \/ \E n \in 1 .. m : /\ i = Len(file) + n /\ n \in DOMAIN p
                                /\ file'[i] = p[n]
      /\ \A i \in DOMAIN new : /\ i \in Nat /\ m + i \in DOMAIN p
                               /\ new[i] = p[m + i] /\ m < m + i
  <2>1. ASSUME NEW i \in DOMAIN file'
        PROVE  i \in DOMAIN file \/ \E n \in 1 .. m : i = Len(file) + n
    <3>1. CASE i <= Len(file)
      BY <1>1, <2>1, <3>1
    <3>2. CASE ~(i <= Len(file))
      <4>1. i - Len(file) \in 1 .. m /\ i = Len(file) + (i - Len(file))
        BY <1>1, <2>1, <3>2
      <4> QED BY <4>1
    <3> QED BY <3>1, <3>2
  <2>2. \A i \in 1 .. k - m : i \in Nat /\ m < m + i
    OBVIOUS
  <2> HIDE DEF p, new
  <2> QED BY <1>1, <2>1, <2>2
<1>3. InHand(q)
  BY DEF Held
<1> HIDE DEF p, new
<1>4. InHand(q)'
  <2>1. /\ \A i \in DOMAIN new : \E j \in DOMAIN held[q] : held[q][j] = new[i]
        /\ \A i \in DOMAIN new : \A j \in DOMAIN held[q] :
             sink[q].next <= j => Before(new[i], held[q][j])
    BY <1>2, <1>3 DEF InHand, p
  <2>2. ASSUME NEW i \in DOMAIN new, NEW j \in DOMAIN new, i < j
        PROVE  Before(new[i], new[j])
    <3>1. /\ m + i \in DOMAIN p /\ new[i] = p[m + i]
          /\ m + j \in DOMAIN p /\ new[j] = p[m + j]
          /\ i \in Nat /\ j \in Nat
      BY <1>2
    <3>2. m + i < m + j
      BY <2>2, <3>1
    <3> QED BY <1>3, <3>1, <3>2 DEF InHand, p
  <2> QED BY <1>1, <1>3, <2>1, <2>2 DEF InHand, Known, Before, new
<1>5. \A n \in DOMAIN p : \E j \in DOMAIN held[q] : held[q][j] = p[n]
  BY <1>3 DEF InHand, p
<1>6. Held'
  <2>1. \A r \in Runs : r # q => InHand(r)'
    BY <1>1 DEF Held, InHand, Known, Before
  <2>2. \A n \in DOMAIN p : Known(p[n])
    BY <1>3, <1>5 DEF InHand
  <2>3. \A i \in DOMAIN file' : file'[i].event_id \in DOMAIN made
                                /\ made[file'[i].event_id] = file'[i]
    BY <1>2, <2>2 DEF Held, Known
  <2> QED BY <1>4, <2>1, <2>3 DEF Held, Known
<1>7. InOrder'
  <2> SUFFICES ASSUME NEW r \in Runs, ~Nested(r)
               PROVE  /\ \A x \in Runs : \A i \in DOMAIN held[x] :
                           held[x][i].run = r => x = r
                      /\ \A i \in DOMAIN file' : file'[i].run = r =>
                           /\ \A j \in DOMAIN file' :
                                i < j /\ file'[j].run = r => Before(file'[i], file'[j])
                           /\ \A j \in DOMAIN sink'[r].pending :
                                Before(file'[i], sink'[r].pending[j])
                           /\ \A j \in DOMAIN held[r] :
                                sink'[r].next <= j => Before(file'[i], held[r][j])
    BY NestingKept DEF InOrder, Before
  <2>1. \A x \in Runs : \A i \in DOMAIN held[x] : held[x][i].run = r => x = r
    BY DEF InOrder
  <2>2. \A n \in DOMAIN p : p[n].run = r => q = r
    BY <1>5, <2>1
  <2>3. ASSUME NEW i \in DOMAIN file, file[i].run = r
        PROVE  /\ \A j \in DOMAIN file' :
                    i < j /\ file'[j].run = r => Before(file[i], file'[j])
               /\ \A j \in DOMAIN sink'[r].pending :
                    Before(file[i], sink'[r].pending[j])
               /\ \A j \in DOMAIN held[r] :
                    sink'[r].next <= j => Before(file[i], held[r][j])
    <3>1. /\ \A j \in DOMAIN file :
               i < j /\ file[j].run = r => Before(file[i], file[j])
          /\ \A j \in DOMAIN sink[r].pending : Before(file[i], sink[r].pending[j])
          /\ \A j \in DOMAIN held[r] :
               sink[r].next <= j => Before(file[i], held[r][j])
      BY <2>3 DEF InOrder
    <3>2. ASSUME NEW j \in DOMAIN file', i < j, file'[j].run = r
          PROVE  Before(file[i], file'[j])
      BY <1>2, <2>2, <3>1, <3>2 DEF p
    <3>3. \A j \in DOMAIN sink'[r].pending : Before(file[i], sink'[r].pending[j])
      BY <1>1, <1>2, <3>1 DEF p, new
    <3>4. sink'[r].next = sink[r].next
      BY <1>1
    <3> QED BY <3>1, <3>2, <3>3, <3>4
  <2>4. ASSUME NEW n \in 1 .. m, n \in DOMAIN p, p[n].run = r
        PROVE  /\ \A j \in DOMAIN file' :
                    Len(file) + n < j /\ file'[j].run = r => Before(p[n], file'[j])
               /\ \A j \in DOMAIN sink'[r].pending :
                    Before(p[n], sink'[r].pending[j])
               /\ \A j \in DOMAIN held[r] :
                    sink'[r].next <= j => Before(p[n], held[r][j])
    <3>0. q = r
      BY <2>2, <2>4
    <3>1. /\ \A j \in DOMAIN p : n < j => Before(p[n], p[j])
          /\ \A j \in DOMAIN held[q] :
               sink[q].next <= j => Before(p[n], held[q][j])
      BY <1>3, <2>4 DEF InHand, p
    <3>2. ASSUME NEW j \in DOMAIN file', Len(file) + n < j
          PROVE  Before(p[n], file'[j])
      <4>1. j \notin DOMAIN file
        BY <1>1, <3>2
      <4>2. PICK l \in 1 .. m : j = Len(file) + l /\ l \in DOMAIN p /\ file'[j] = p[l]
        BY <1>2, <4>1
      <4>3. n < l
        BY <1>1, <3>2, <4>2
      <4> QED BY <3>1, <4>2, <4>3
    <3>3. ASSUME NEW j \in DOMAIN new
          PROVE  Before(p[n], new[j])
      <4>1. m + j \in DOMAIN p /\ new[j] = p[m + j] /\ j \in Nat /\ m < m + j
        BY <1>2
      <4>2. n < m + j
        BY <4>1
      <4> QED BY <3>1, <4>1, <4>2
    <3> QED BY <1>1, <3>0, <3>1, <3>2, <3>3 DEF new
  <2>5. ASSUME NEW i \in DOMAIN file', file'[i].run = r
        PROVE  /\ \A j \in DOMAIN file' :
                    i < j /\ file'[j].run = r => Before(file'[i], file'[j])
               /\ \A j \in DOMAIN sink'[r].pending :
                    Before(file'[i], sink'[r].pending[j])
               /\ \A j \in DOMAIN held[r] :
                    sink'[r].next <= j => Before(file'[i], held[r][j])
    <3>1. CASE i \in DOMAIN file /\ file'[i] = file[i]
      BY <2>3, <2>5, <3>1
    <3>2. ASSUME NEW n \in 1 .. m, i = Len(file) + n, n \in DOMAIN p, file'[i] = p[n]
          PROVE  /\ \A j \in DOMAIN file' :
                      i < j /\ file'[j].run = r => Before(file'[i], file'[j])
                 /\ \A j \in DOMAIN sink'[r].pending :
                      Before(file'[i], sink'[r].pending[j])
                 /\ \A j \in DOMAIN held[r] :
                      sink'[r].next <= j => Before(file'[i], held[r][j])
      BY <2>4, <2>5, <3>2
    <3> QED BY <1>2, <3>1, <3>2
  <2> QED BY <2>1, <2>5
<1> QED BY <1>6, <1>7

\* What a push leaves in the buffer was handed over; a run whose push or close
\* failed, or which is back, has nothing to show.
LEMMA DrainKeepsHandedOver ==
  ASSUME Trail, NEW t \in Threads, NEW q \in Runs,
         \/ Push(t, q)
         \/ \E n, kept \in 0 .. Len(sink[q].pending) : PushFails(t, q, n, kept)
         \/ CloseSink(t, q)
         \/ \E n \in 0 .. Len(sink[q].pending) : CloseFails(t, q, n)
  PROVE  HandedOver'
<1> USE DEF Trail
<1>1. PICK m \in Nat, k \in Nat : Drains(q, m, k)
  BY DrainSteps
<1>2. /\ \A i \in DOMAIN file : i \in DOMAIN file' /\ file'[i] = file[i]
      /\ \A r \in Runs : r # q => sink'[r] = sink[r]
      /\ sink'[q].next = sink[q].next /\ sink'[q].rejected = sink[q].rejected
      /\ UNCHANGED held
  BY <1>1, Drained, DrainSteps
<1>3. Range(file) \subseteq Range(file')
  BY <1>2 DEF Range
<1>4. stage \in [Runs -> Stage] /\ sink \in [Runs -> Sink] /\ file \in Seq(Event)
      /\ Flushing(t, q)
  BY DrainSteps DEF Nest, NestTypes, RecordTypes
<1>5. \A r \in Runs : r # q => stage'[r] = stage[r]
  <2>1. q = Last(stack[t])
    BY <1>4 DEF Flushing
  <2> QED BY <1>4, <2>1
      DEF Push, PushFails, CloseSink, CloseFails, Report, Leave
<1> SUFFICES ASSUME NEW r \in Runs, stage'[r] = "flush", ~sink'[r].failed,
                    sink'[r].rejected = 0, NEW i \in DOMAIN held[r],
                    i < sink'[r].next
             PROVE  held[r][i] \in Range(file') \cup Range(sink'[r].pending)
  BY <1>2 DEF HandedOver
<1>6. CASE r # q
  BY <1>2, <1>3, <1>5, <1>6 DEF HandedOver
<1>7. CASE r = q
  <2>1. Push(t, q)
    <3>1. ~ \E n, kept \in 0 .. Len(sink[q].pending) : PushFails(t, q, n, kept)
      <4> SUFFICES ASSUME NEW n, NEW kept, PushFails(t, q, n, kept) PROVE FALSE
        OBVIOUS
      <4>1. PICK v : sink' = [sink EXCEPT ![q].pending = v, ![q].failed = TRUE]
        BY DEF PushFails
      <4>2. sink'[q].failed = TRUE
        BY <1>4, <4>1 DEF Sink
      <4> QED BY <1>7, <4>2
    <3>2. ~ (CloseSink(t, q) \/ \E n \in 0 .. Len(sink[q].pending) : CloseFails(t, q, n))
      BY <1>4, <1>7 DEF CloseSink, CloseFails, Report, Leave, Flushing
    <3> QED BY <3>1, <3>2
  <2>2. /\ file' = file \o sink[q].pending
        /\ stage[q] = "flush" /\ ~sink[q].failed
    BY <1>4, <2>1 DEF Push, Handing, Flushing, InStage
  <2>3. held[q][i] \in Range(file) \cup Range(sink[q].pending)
    BY <1>2, <1>7, <2>2 DEF HandedOver
  <2>4. Range(sink[q].pending) \subseteq Range(file')
    <3>1. sink[q].pending \in Seq(Event)
      BY SinkTyped
    <3>2. \A j \in DOMAIN sink[q].pending :
            /\ Len(file) + j \in DOMAIN file'
            /\ file'[Len(file) + j] = sink[q].pending[j]
      BY <1>4, <2>2, <3>1, Joined
    <3> QED BY <3>2 DEF Range
  <2> QED BY <1>3, <1>7, <2>3, <2>4
<1> QED BY <1>6, <1>7

-----------------------------------------------------------------------------
(* Every step keeps the trail, and what follows from it.                   *)

\* A step that makes no record and flushes none.
LEMMA MoveKeeps ==
  ASSUME Trail, [Next]_vars, UNCHANGED <<held, sink, file, made>>
  PROVE  Held' /\ InOrder' /\ HandedOver'
<1> USE DEF Trail
<1>1. Held'
  BY DEF Held, InHand, Known, Before
<1>2. InOrder'
  <2>1. \A r \in Runs : Nested(r) => Nested(r)'
    BY Forward DEF MovesForward
  <2> QED BY <2>1 DEF InOrder, Before
<1>3. HandedOver'
  <2> SUFFICES ASSUME NEW r \in Runs, stage'[r] = "flush", ~sink[r].failed,
                      sink[r].rejected = 0, NEW i \in DOMAIN held[r],
                      i < sink[r].next
               PROVE  held[r][i] \in Range(file) \cup Range(sink[r].pending)
    BY DEF HandedOver
  <2>1. stage[r] \in {"verify", "flush"}
    BY Forward DEF MovesForward
  <2>2. stage[r] # "verify"
    <3>1. stage[r] = "verify" => sink[r].next = 1
      BY DEF Early, Closed
    <3>2. i \in 1 .. Len(held[r]) /\ Len(held[r]) \in Nat
      BY Shapes
    <3> QED BY <3>1, <3>2
  <2> QED BY <2>1, <2>2 DEF HandedOver
<1> QED BY <1>1, <1>2, <1>3

LEMMA TrailNext ==
  ASSUME Trail, [Next]_vars
  PROVE  Trail'
<1>0. Nest /\ RecordTypes /\ Early
  BY DEF Trail
<1>1. Nest' /\ RecordTypes' /\ Early'
  BY <1>0, NestNext, RecordTypesNext, EarlyNext
<1>2. ASSUME NEW t \in Threads, NEW r \in Runs, Flush(t, r)
      PROVE  Held' /\ InOrder' /\ HandedOver'
  <2>1. CASE OpenSink(t, r)
    BY <2>1, MoveKeeps DEF OpenSink, Report
  <2>2. CASE \E accepted \in BOOLEAN : HandOver(t, r, accepted)
    BY <2>2, HandOverKeeps
  <2>3. CASE \/ Push(t, r)
             \/ \E n, kept \in 0 .. Len(sink[r].pending) : PushFails(t, r, n, kept)
             \/ CloseSink(t, r)
             \/ \E n \in 0 .. Len(sink[r].pending) : CloseFails(t, r, n)
    <3>1. PICK m \in Nat, k \in Nat : Drains(r, m, k)
      BY <1>0, <2>3, DrainSteps
    <3>2. UNCHANGED <<held, made, token>>
      BY <1>0, <2>3, DrainSteps
    <3>3. Held' /\ InOrder'
      BY <3>1, <3>2, DrainKeepsOrder
    <3> QED BY <2>3, <3>3, DrainKeepsHandedOver
  <2> QED BY <1>2, <2>1, <2>2, <2>3 DEF Flush
<1>3. ASSUME NEW t \in Threads,
             EventRejected(t) \/ EventCollected(t) \/ EventToFile(t)
      PROVE  Held' /\ InOrder' /\ HandedOver'
  <2>1. PICK e : Makes(t, e) /\
          \/ ~e.valid /\ UNCHANGED <<held, file, warned>>
          \/ /\ ctx[t].collector # NoRun /\ ctx[t].collector \in Runs
             /\ stage[ctx[t].collector] = "execute"
             /\ held' = [held EXCEPT ![ctx[t].collector] = Append(@, e)]
             /\ UNCHANGED <<file, warned>>
          \/ /\ ctx[t].collector = NoRun
             /\ \/ file' = Append(file, e) /\ UNCHANGED warned
                \/ warned' = warned \cup {e} /\ UNCHANGED file
             /\ UNCHANGED held
    BY <1>0, <1>3, MakeSteps
  <2> QED BY <2>1, MadeOutside, MadeInside
<1>4. ASSUME NEW t \in Threads,
             \/ \E r \in Runs : \E x \in {r, NoRun} : BeginRun(t, r, x)
             \/ RouterOutcome(t) \/ StageRaises(t) \/ EnterExecute(t) \/ LeaveExecute(t)
      PROVE  Held' /\ InOrder' /\ HandedOver'
  BY <1>4, MoveKeeps DEF BeginRun, RouterOutcome, StageRaises, EnterExecute,
     LeaveExecute
<1>5. ASSUME UNCHANGED vars
      PROVE  Held' /\ InOrder' /\ HandedOver'
  <2>1. UNCHANGED <<held, sink, file, made>>
    BY <1>5 DEF vars
  <2> QED BY <2>1, MoveKeeps
<1>6. Held' /\ InOrder' /\ HandedOver'
  BY <1>2, <1>3, <1>4, <1>5 DEF Next, Idle
<1> QED BY <1>1, <1>6 DEF Trail

\* A loss stays reported when the file and the warnings only grow and every
\* run that comes back reports it, has it in the file, or came back before.
LEMMA LossAsBefore ==
  ASSUME LossIsReported, UNCHANGED <<made, held>>,
         Range(file) \subseteq Range(file'), warned \subseteq warned',
         \A r \in Runs : stage'[r] = "returned" =>
           \/ result'[r].persisted = "false"
           \/ stage[r] = "returned" /\ result'[r] = result[r]
           \/ Range(held[r]) \subseteq Range(file')
  PROVE  LossIsReported'
<1> SUFFICES ASSUME NEW e \in Valid
             PROVE  \/ e \in Range(file')
                    \/ e \in warned'
                    \/ \E r \in Runs :
                         /\ e \in Range(held[r])
                         /\ stage'[r] = "returned" => result'[r].persisted = "false"
  BY DEF LossIsReported, Valid
<1> QED BY DEF LossIsReported

LEMMA LossAfterMake ==
  ASSUME Trail, LossIsReported, NEW t \in Threads,
         EventRejected(t) \/ EventCollected(t) \/ EventToFile(t)
  PROVE  LossIsReported'
<1> USE DEF Trail
<1>1. PICK e : Makes(t, e) /\
        \/ ~e.valid /\ UNCHANGED <<held, file, warned>>
        \/ /\ ctx[t].collector # NoRun /\ ctx[t].collector \in Runs
           /\ stage[ctx[t].collector] = "execute"
           /\ held' = [held EXCEPT ![ctx[t].collector] = Append(@, e)]
           /\ UNCHANGED <<file, warned>>
        \/ /\ ctx[t].collector = NoRun
           /\ \/ file' = Append(file, e) /\ UNCHANGED warned
              \/ warned' = warned \cup {e} /\ UNCHANGED file
           /\ UNCHANGED held
  BY MakeSteps
<1>2. /\ e \in Event /\ made' = Append(made, e) /\ made \in Seq(Event)
      /\ file \in Seq(Event) /\ held \in [Runs -> Seq(Event)]
      /\ UNCHANGED <<stage, result>>
  BY <1>1 DEF Makes, Nest, NestTypes, RecordTypes
<1>3. ASSUME NEW s \in Seq(Event)
      PROVE  Range(Append(s, e)) = Range(s) \cup {e}
  <2>1. /\ \A i \in DOMAIN Append(s, e) :
             \/ i \in DOMAIN s /\ Append(s, e)[i] = s[i]
             \/ i = Len(s) + 1 /\ Append(s, e)[i] = e
        /\ \A i \in DOMAIN s : i \in DOMAIN Append(s, e) /\ Append(s, e)[i] = s[i]
        /\ Len(s) + 1 \in DOMAIN Append(s, e) /\ Append(s, e)[Len(s) + 1] = e
    BY <1>2, Appended
  <2> QED BY <2>1 DEF Range
<1>4. Range(made') = Range(made) \cup {e}
  BY <1>2, <1>3
<1>5. Range(file) \subseteq Range(file') /\ warned \subseteq warned'
      /\ \A r \in Runs : Range(held[r]) \subseteq Range(held'[r])
  BY <1>1, <1>2, <1>3
<1>6. ~e.valid \/ e \in Range(file') \/ e \in warned'
      \/ \E r \in Runs : e \in Range(held'[r]) /\ stage[r] # "returned"
  <2>1. CASE /\ ctx[t].collector \in Runs /\ stage[ctx[t].collector] = "execute"
             /\ held' = [held EXCEPT ![ctx[t].collector] = Append(@, e)]
    <3>1. e \in Range(held'[ctx[t].collector])
      BY <1>2, <1>3, <2>1
    <3> QED BY <2>1, <3>1
  <2>2. CASE file' = Append(file, e)
    BY <1>2, <1>3, <2>2
  <2> QED BY <1>1, <2>1, <2>2
<1> SUFFICES ASSUME NEW f \in Range(made'), f.valid
             PROVE  \/ f \in Range(file')
                    \/ f \in warned'
                    \/ \E r \in Runs :
                         /\ f \in Range(held'[r])
                         /\ stage[r] = "returned" => result[r].persisted = "false"
  BY <1>2 DEF LossIsReported, Valid
<1>7. CASE f = e
  BY <1>6, <1>7
<1>8. CASE f \in Range(made)
  <2>1. f \in Valid
    BY <1>8 DEF Valid
  <2> QED BY <1>5, <2>1 DEF LossIsReported
<1> QED BY <1>4, <1>7, <1>8

LEMMA LossAfterFlush ==
  ASSUME Trail, LossIsReported, NEW t \in Threads, NEW q \in Runs, Flush(t, q)
  PROVE  LossIsReported'
<1> USE DEF Trail
<1>0. /\ stage \in [Runs -> Stage] /\ result \in [Runs -> Result]
      /\ file \in Seq(Event) /\ sink[q].pending \in Seq(Event)
  BY SinkTyped DEF Nest, NestTypes, RecordTypes
<1>1. ASSUME NEW p, NEW n, Report(t, q, p, n), q = Last(stack[t])
      PROVE  /\ UNCHANGED <<made, held, warned>> /\ result'[q].persisted = p
             /\ \A r \in Runs : r # q => stage'[r] = stage[r] /\ result'[r] = result[r]
  BY <1>0, <1>1 DEF Report, Leave
<1>2. ASSUME NEW n \in 0 .. Len(sink[q].pending),
             file' = file \o SubSeq(sink[q].pending, 1, n)
      PROVE  Range(file) \subseteq Range(file')
  <2>1. SubSeq(sink[q].pending, 0 + 1, n) \in Seq(Event)
    <3>1. 0 \in 0 .. Len(sink[q].pending) /\ n \in 0 .. Len(sink[q].pending)
      BY <1>0, LenProperties
    <3> QED BY <1>0, <3>1, Cut
  <2>2. SubSeq(sink[q].pending, 1, n) \in Seq(Event)
    BY <2>1
  <2>3. \A i \in DOMAIN file : i \in DOMAIN file' /\ file'[i] = file[i]
    BY <1>0, <1>2, <2>2, Joined
  <2> QED BY <2>3 DEF Range
<1>3. CASE OpenSink(t, q)
  <2>1. CASE stage' = [stage EXCEPT ![q] = "flush"] /\ UNCHANGED <<held, made, file, warned, result>>
    <3>1. \A r \in Runs : stage'[r] = "returned" => stage[r] = "returned"
      BY <1>0, <2>1
    <3> QED BY <2>1, <3>1, LossAsBefore
  <2>2. CASE Report(t, q, "false", Lost(q)) /\ UNCHANGED file /\ q = Last(stack[t])
    BY <1>1, <2>2, LossAsBefore
  <2> QED BY <1>3, <2>1, <2>2 DEF OpenSink
<1>4. CASE \E accepted \in BOOLEAN : HandOver(t, q, accepted)
  <2>1. UNCHANGED <<made, held, file, warned, stage, result>>
    BY <1>4 DEF HandOver
  <2> QED BY <2>1, LossAsBefore
<1>5. CASE Push(t, q) \/ \E n, kept \in 0 .. Len(sink[q].pending) : PushFails(t, q, n, kept)
  <2>1. UNCHANGED <<made, held, warned, stage, result>>
    BY <1>5 DEF Push, PushFails
  <2>2. Range(file) \subseteq Range(file')
    BY <1>2, <1>5, WholeBuffer DEF Push, PushFails
  <2> QED BY <2>1, <2>2, LossAsBefore
<1>6. CASE \E n \in 0 .. Len(sink[q].pending) : CloseFails(t, q, n)
  <2>1. PICK n \in 0 .. Len(sink[q].pending) : CloseFails(t, q, n)
    BY <1>6
  <2>2. /\ Report(t, q, "false", Lost(q)) /\ q = Last(stack[t])
        /\ file' = file \o SubSeq(sink[q].pending, 1, n)
    BY <2>1 DEF CloseFails, AtClose, Flushing
  <2> QED BY <1>1, <1>2, <2>2, LossAsBefore
<1>7. CASE CloseSink(t, q)
  <2>1. /\ Flushing(t, q) /\ ~Handing(q) /\ q = Last(stack[t])
        /\ file' = file \o sink[q].pending
        /\ \/ Report(t, q, "false", Lost(q))
           \/ ~sink[q].failed /\ sink[q].rejected = 0 /\ Report(t, q, "true", 0)
           \/ Report(t, q, "false", 0)
    BY <1>7 DEF CloseSink, AtClose, Flushing
  <2>2. Range(file) \subseteq Range(file')
    BY <1>2, <2>1, WholeBuffer
  <2>3. ASSUME ~sink[q].failed, sink[q].rejected = 0
        PROVE  Range(held[q]) \subseteq Range(file')
    <3>1. \A i \in DOMAIN held[q] : i < sink[q].next
      <4>1. ~(sink[q].next <= Len(held[q]))
        BY <2>1, <2>3 DEF Handing
      <4>2. /\ DOMAIN held[q] = 1 .. Len(held[q])
            /\ Len(held[q]) \in Nat /\ sink[q].next \in Nat
        BY Shapes
      <4> QED BY <4>1, <4>2
    <3>2. stage[q] = "flush"
      BY <2>1 DEF Flushing, InStage
    <3>3. \A i \in DOMAIN held[q] :
            held[q][i] \in Range(file) \cup Range(sink[q].pending)
      BY <2>3, <3>1, <3>2 DEF HandedOver
    <3>4. Range(sink[q].pending) \subseteq Range(file')
      <4>1. \A j \in DOMAIN sink[q].pending :
              /\ Len(file) + j \in DOMAIN file'
              /\ file'[Len(file) + j] = sink[q].pending[j]
        BY <1>0, <2>1, Joined
      <4> QED BY <4>1 DEF Range
    <3> QED BY <2>2, <3>3, <3>4 DEF Range
  <2>4. CASE \E n : Report(t, q, "false", n)
    BY <1>1, <2>1, <2>2, <2>4, LossAsBefore
  <2>5. CASE ~sink[q].failed /\ sink[q].rejected = 0 /\ Report(t, q, "true", 0)
    BY <1>1, <2>1, <2>2, <2>3, <2>5, LossAsBefore
  <2> QED BY <2>1, <2>4, <2>5
<1> QED BY <1>3, <1>4, <1>5, <1>6, <1>7 DEF Flush

LEMMA LossNext ==
  ASSUME Trail, LossIsReported, [Next]_vars
  PROVE  LossIsReported'
<1>0. stage \in [Runs -> Stage]
  BY DEF Trail, Nest, NestTypes
<1>1. ASSUME UNCHANGED <<made, held, file, warned, result>>,
             \A r \in Runs :
               stage'[r] = "returned" => stage[r] = "returned" \/ held[r] = <<>>
      PROVE  LossIsReported'
  <2>1. \A r \in Runs : held[r] = <<>> => Range(held[r]) = {}
    BY DEF Range
  <2> QED BY <1>1, <2>1, LossAsBefore
<1>2. ASSUME NEW t \in Threads,
             RouterOutcome(t) \/ StageRaises(t) \/ EnterExecute(t) \/ LeaveExecute(t)
      PROVE  LossIsReported'
  <2>1. Last(stack[t]) \in Runs
    BY <1>2, InnermostIsRun
       DEF Trail, RouterOutcome, StageRaises, EnterExecute, LeaveExecute, InStage
  <2>2. stage[Last(stack[t])] = "plan" => held[Last(stack[t])] = <<>>
    BY <2>1 DEF Trail, Early
  <2>3. UNCHANGED <<made, held, file, warned, result>>
    BY <1>2 DEF RouterOutcome, StageRaises, EnterExecute, LeaveExecute
  <2>4. \A r \in Runs :
          stage'[r] = "returned" => stage[r] = "returned" \/ held[r] = <<>>
    BY <1>0, <1>2, <2>1, <2>2
       DEF RouterOutcome, StageRaises, EnterExecute, LeaveExecute, Leave, InStage
  <2> QED BY <1>1, <2>3, <2>4
<1>3. ASSUME NEW t \in Threads, NEW q \in Runs, NEW x \in {q, NoRun},
             BeginRun(t, q, x)
      PROVE  LossIsReported'
  <2>1. UNCHANGED <<made, held, file, warned, result>>
    BY <1>3 DEF BeginRun
  <2>2. \A r \in Runs : stage'[r] = "returned" => stage[r] = "returned"
    BY <1>0, <1>3 DEF BeginRun
  <2> QED BY <1>1, <2>1, <2>2
<1>4. CASE UNCHANGED vars
  BY <1>1, <1>4 DEF vars
<1> QED BY <1>2, <1>3, <1>4, LossAfterMake, LossAfterFlush DEF Next, Idle

\* In every reachable state of the program each record is known, held in order
\* by the run that collected it, and buffered or in the file once handed over.
THEOREM TrailKept == Spec => []Trail
<1>1. Init => Trail
  <2> SUFFICES ASSUME Init PROVE Trail
    OBVIOUS
  <2>1. Nest /\ RecordTypes
    BY InitNest, InitRecordTypes
  <2>2. /\ \A r \in Runs : stage[r] = "fresh" /\ token[r].run = NoRun
                           /\ held[r] = <<>> /\ sink[r] = Closed
        /\ \A t \in Threads : ~Busy(t)
        /\ DOMAIN made = {} /\ DOMAIN file = {}
    BY DEF Init, Busy
  <2>3. \A r \in Runs : DOMAIN held[r] = {} /\ DOMAIN sink[r].pending = {}
    BY <2>2 DEF Closed
  <2>4. Early
    BY <2>2 DEF Early, InStage
  <2>5. Held /\ InOrder
    BY <2>2, <2>3 DEF Held, InHand, InOrder
  <2>6. HandedOver
    BY <2>2 DEF HandedOver
  <2> QED BY <2>1, <2>4, <2>5, <2>6 DEF Trail
<1> QED BY <1>1, TrailNext, PTL DEF Spec

\* The records of a run with no run inside or around it are in the file once
\* and in the order they were made (audit.py, runner.py).
THEOREM FileOrderKept == Spec => []FileKeepsOrder
<1>1. Trail => FileKeepsOrder
  <2> SUFFICES ASSUME Trail, NEW i \in DOMAIN file, NEW j \in DOMAIN file, i < j,
                      file[i].run = file[j].run, file[i].run # NoRun,
                      ~Nested(file[i].run)
               PROVE  file[i].seq < file[j].seq
    BY DEF FileKeepsOrder
  <2>1. file[i].run \in Runs
    BY Shapes DEF Trail, RunOrNone
  <2>2. file[i].event_id < file[j].event_id
    BY <2>1 DEF Trail, InOrder, Before
  <2>3. /\ file[i].event_id \in DOMAIN made /\ made[file[i].event_id] = file[i]
        /\ file[j].event_id \in DOMAIN made /\ made[file[j].event_id] = file[j]
    BY DEF Trail, Held, Known
  <2>4. SequenceIncreases
    BY DEF Trail, Nest
  <2> QED BY <2>2, <2>3, <2>4 DEF SequenceIncreases
<1> QED BY <1>1, TrailKept, PTL

\* A valid record is in the file or its loss was told to somebody, whatever
\* append, push or close of the audit sink fails (audit.py, runner.py).
THEOREM LossAlwaysReported == Spec => []LossIsReported
<1>1. Init => LossIsReported
  BY DEF Init, LossIsReported, Valid, Range
<1> QED BY <1>1, LossNext, TrailKept, PTL DEF Spec
=============================================================================
