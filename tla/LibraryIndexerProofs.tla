------------------------ MODULE LibraryIndexerProofs ------------------------
(***************************************************************************)
(* No document vanishes, whatever the buffers, the log and the bounds.     *)
(*                                                                         *)
(* Every step but the crash and the commits drains at most one buffer, by  *)
(* GoOn.  The argument is therefore in two parts: a step first leaves the  *)
(* buffers and calls in good order (Good) with no document missing, and    *)
(* then GoOn keeps both.                                                   *)
(***************************************************************************)
EXTENDS LibraryIndexer, FiniteSetTheorems, TLAPS

Maps == [Buffers -> SUBSET Offsets]
Calls == [Tasks -> 0 .. NBuffers]
Sendings == [Tasks -> SUBSET Offsets]

Held(o, bufs, sending) ==
    \/ \E b \in Buffers : o \in bufs[b]
    \/ \E u \in Tasks : o \in sending[u]

\* HeldOnce of any buffers and calls of which n messages have been taken.
Good(bufs, calls, sending, n) ==
    /\ \A b \in Buffers : \A o \in bufs[b] : o <= n /\ Log[o] = b
    /\ \A u \in Tasks : \A o \in sending[u] : o <= n /\ Log[o] = calls[u]
    /\ \A u \in Tasks : \A b \in Buffers : sending[u] \intersect bufs[b] = {}
    /\ \A u, v \in Tasks : u # v => sending[u] \intersect sending[v] = {}

\* A task that awaits nothing holds nothing, and each stage of the shutdown
\* has the tasks behind it at rest.
AtRest ==
    /\ \A t \in Tasks : at[t] = 0 => sent[t] = {}
    /\ life = "down" => \A t \in Tasks : at[t] = 0
    /\ life = "down" => \A b \in Buffers : docs[b] = {}
    /\ life # "running" => at["consume"] = 0
    /\ life = "stopping" => at["flush"] = 0
    /\ life # "stopping" => at["stop"] = 0

\* NothingVanishes but for what overwrites a document once it is written.
Accounted ==
    \A o \in 1 .. next :
        Log[o] # 0 => index[o] > 0 \/ o \in InMemory \/ o \in lost

IInv ==
    /\ TypeOK
    /\ committed <= next
    /\ AtRest
    /\ HeldOnce
    /\ Accounted

LEMMA InMemoryHeld ==
    \A o : o \in InMemory <=> Held(o, docs, sent)
<1> TAKE o
<1>1. o \in UNION {docs[b] : b \in Buffers} <=> \E b \in Buffers : o \in docs[b]
    OBVIOUS
<1>2. o \in UNION {sent[t] : t \in Tasks} <=> \E t \in Tasks : o \in sent[t]
    OBVIOUS
<1>3. o \in InMemory <=> \/ o \in UNION {docs[b] : b \in Buffers}
                         \/ o \in UNION {sent[t] : t \in Tasks}
    BY DEF InMemory
<1> QED
    BY <1>1, <1>2, <1>3 DEF Held

LEMMA InMemoryHeldPrime ==
    \A o : o \in InMemory' <=> Held(o, docs', sent')
<1> TAKE o
<1>1. o \in UNION {docs'[b] : b \in Buffers} <=> \E b \in Buffers : o \in docs'[b]
    OBVIOUS
<1>2. o \in UNION {sent'[t] : t \in Tasks} <=> \E t \in Tasks : o \in sent'[t]
    OBVIOUS
<1>3. o \in InMemory' <=> \/ o \in UNION {docs'[b] : b \in Buffers}
                         \/ o \in UNION {sent'[t] : t \in Tasks}
    BY DEF InMemory
<1> QED
    BY <1>1, <1>2, <1>3 DEF Held

LEMMA LogType == Len(Log) \in Nat /\ \A o \in Offsets : Log[o] \in 0 .. NBuffers
BY LogAssumption, BuffersAssumption DEF Offsets

\* What a round of the buffers does: it ends, or it drains the first due one.
LEMMA GoOnResult ==
    ASSUME NEW t \in Tasks, NEW from \in 0 .. NBuffers, NEW bufs \in Maps,
           NEW calls \in Calls, NEW sending \in Sendings,
           GoOn(t, from, bufs, calls, sending)
    PROVE  /\ docs' \in Maps /\ at' \in Calls /\ sent' \in Sendings
           /\ \A u \in Tasks \ {t} : at'[u] = calls[u] /\ sent'[u] = sending[u]
           /\ \/ at'[t] = 0 /\ sent'[t] = {} /\ docs' = bufs
              \/ \E b \in Buffers :
                    /\ at'[t] = b /\ sent'[t] = bufs[b]
                    /\ docs' = [bufs EXCEPT ![b] = {}]
           /\ t # "consume" =>
                \A b \in Buffers :
                    docs'[b] # {} /\ b > from => at'[t] # 0 /\ b > at'[t]
<1>1. PICK due \in DueSets(t, bufs) :
        LET rest == {b \in due : b > from} IN
        \/ /\ rest = {}
           /\ docs' = bufs
           /\ at' = [calls EXCEPT ![t] = 0]
           /\ sent' = [sending EXCEPT ![t] = {}]
        \/ \E b \in rest :
           /\ \A c \in rest : b <= c
           /\ docs' = [bufs EXCEPT ![b] = {}]
           /\ at' = [calls EXCEPT ![t] = b]
           /\ sent' = [sending EXCEPT ![t] = bufs[b]]
    BY DEF GoOn
<1>2. /\ due \subseteq Buffers
      /\ t # "consume" => \A b \in Buffers : bufs[b] # {} => b \in due
    BY DEF DueSets, Filled
<1>3. ASSUME docs' = bufs,
             at' = [calls EXCEPT ![t] = 0],
             sent' = [sending EXCEPT ![t] = {}]
      PROVE  /\ docs' \in Maps /\ at' \in Calls /\ sent' \in Sendings
             /\ \A u \in Tasks \ {t} : at'[u] = calls[u] /\ sent'[u] = sending[u]
             /\ at'[t] = 0 /\ sent'[t] = {}
    BY <1>3, BuffersAssumption DEF Maps, Calls, Sendings
<1>4. ASSUME NEW b \in Buffers, \A c \in due : c > from => b <= c,
             docs' = [bufs EXCEPT ![b] = {}],
             at' = [calls EXCEPT ![t] = b],
             sent' = [sending EXCEPT ![t] = bufs[b]]
      PROVE  /\ docs' \in Maps /\ at' \in Calls /\ sent' \in Sendings
             /\ \A u \in Tasks \ {t} : at'[u] = calls[u] /\ sent'[u] = sending[u]
             /\ \E c \in Buffers :
                    /\ at'[t] = c /\ sent'[t] = bufs[c]
                    /\ docs' = [bufs EXCEPT ![c] = {}]
             /\ t # "consume" =>
                  \A c \in Buffers :
                      docs'[c] # {} /\ c > from => at'[t] # 0 /\ c > at'[t]
    <2>1. b \in 0 .. NBuffers /\ b # 0
        BY BuffersAssumption DEF Buffers
    <2>2. \A c \in Buffers : docs'[c] # {} => c # b /\ bufs[c] # {}
        BY <1>4 DEF Maps
    <2>3. at'[t] = b
        BY <1>4 DEF Calls
    <2>4. ASSUME t # "consume", NEW c \in Buffers, docs'[c] # {}, c > from
          PROVE  at'[t] # 0 /\ c > at'[t]
        <3>1. c # b /\ b <= c
            BY <1>2, <1>4, <2>2, <2>4
        <3> QED
            BY <2>1, <2>3, <3>1, BuffersAssumption DEF Buffers
    <2>5. /\ docs' \in Maps /\ at' \in Calls /\ sent' \in Sendings
          /\ \A u \in Tasks \ {t} : at'[u] = calls[u] /\ sent'[u] = sending[u]
          /\ at'[t] = b /\ sent'[t] = bufs[b]
        BY <1>4, <2>1 DEF Maps, Calls, Sendings
    <2> QED
        BY <1>4, <2>4, <2>5
<1>5. CASE {b \in due : b > from} = {} /\ docs' = bufs
    <2>1. t # "consume" => \A b \in Buffers : docs'[b] # {} => ~ b > from
        BY <1>2, <1>5
    <2> QED
        BY <1>1, <1>3, <1>5, <2>1
<1>6. CASE {b \in due : b > from} # {}
    <2>1. PICK b \in {c \in due : c > from} :
              /\ \A c \in {d \in due : d > from} : b <= c
              /\ docs' = [bufs EXCEPT ![b] = {}]
              /\ at' = [calls EXCEPT ![t] = b]
              /\ sent' = [sending EXCEPT ![t] = bufs[b]]
        BY <1>1, <1>6
    <2>2. b \in Buffers /\ \A c \in due : c > from => b <= c
        BY <1>2, <2>1
    <2> QED
        BY <1>4, <2>1, <2>2
<1> QED
    BY <1>1, <1>5, <1>6

\* GoOn keeps what is held, and holds it in good order.
LEMMA GoOnKeeps ==
    ASSUME NEW t \in Tasks, NEW from \in 0 .. NBuffers, NEW bufs \in Maps,
           NEW calls \in Calls, NEW sending \in Sendings, NEW n,
           Good(bufs, calls, [sending EXCEPT ![t] = {}], n),
           GoOn(t, from, bufs, calls, sending)
    PROVE  /\ Good(docs', at', sent', n)
           /\ \A o : Held(o, bufs, [sending EXCEPT ![t] = {}]) <=> Held(o, docs', sent')
<1> DEFINE others == [sending EXCEPT ![t] = {}]
<1>1. /\ docs' \in Maps /\ at' \in Calls /\ sent' \in Sendings
      /\ \A u \in Tasks \ {t} : at'[u] = calls[u] /\ sent'[u] = sending[u]
      /\ \/ at'[t] = 0 /\ sent'[t] = {} /\ docs' = bufs
         \/ \E b \in Buffers :
               /\ at'[t] = b /\ sent'[t] = bufs[b]
               /\ docs' = [bufs EXCEPT ![b] = {}]
    BY GoOnResult
<1>2. /\ others[t] = {}
      /\ \A u \in Tasks \ {t} : others[u] = sending[u]
    BY DEF Sendings
<1>3. CASE at'[t] = 0 /\ sent'[t] = {} /\ docs' = bufs
    <2>1. \A u \in Tasks : sent'[u] = others[u]
        BY <1>1, <1>2, <1>3
    <2>2. \A u \in Tasks : \A o \in sent'[u] : at'[u] = calls[u]
        BY <1>1, <1>3
    <2> QED
        BY <1>3, <2>1, <2>2 DEF Good, Held
<1>4. ASSUME NEW b \in Buffers, at'[t] = b, sent'[t] = bufs[b],
             docs' = [bufs EXCEPT ![b] = {}]
      PROVE  /\ Good(docs', at', sent', n)
             /\ \A o : Held(o, bufs, others) <=> Held(o, docs', sent')
    <2>1. \A c \in Buffers : docs'[c] = IF c = b THEN {} ELSE bufs[c]
        BY <1>4 DEF Maps
    <2>2. \A u \in Tasks : sent'[u] = IF u = t THEN bufs[b] ELSE others[u]
        BY <1>1, <1>2, <1>4
    <2>3. \A c \in Buffers : \A o \in docs'[c] : o <= n /\ Log[o] = c
        BY <2>1 DEF Good
    <2>4. \A u \in Tasks : \A o \in sent'[u] : o <= n /\ Log[o] = at'[u]
        BY <1>1, <1>4, <2>2 DEF Good
    <2>5. \A u \in Tasks : \A c \in Buffers : sent'[u] \intersect docs'[c] = {}
        BY <2>1, <2>2 DEF Good
    <2>6. \A u, v \in Tasks : u # v => sent'[u] \intersect sent'[v] = {}
        BY <2>2 DEF Good
    <2>7. \A o : Held(o, bufs, others) <=> Held(o, docs', sent')
        BY <2>1, <2>2, <1>2 DEF Held
    <2> QED
        BY <2>3, <2>4, <2>5, <2>6, <2>7 DEF Good
<1> QED
    BY <1>1, <1>3, <1>4

-----------------------------------------------------------------------------
(***************************************************************************)
(* The inductive invariant.  While nothing has failed a document is held   *)
(* only before it is written, and stop() has behind it only empty buffers: *)
(* Clean is what StopLosesOnlyCancelled needs beyond itself.               *)
(***************************************************************************)
Clean ==
    faults = 0 =>
        /\ lost \subseteq cancelled
        /\ \A o \in Offsets : index[o] <= 1
        /\ \A o \in Offsets : o > next \/ Held(o, docs, sent) => index[o] = 0
        /\ life = "stopping" =>
             \A b \in Buffers : docs[b] # {} => at["stop"] # 0 /\ b > at["stop"]

IndInv == IInv /\ Clean

LEMMA HeldOnceIsGood == HeldOnce <=> Good(docs, at, sent, next)
BY DEF HeldOnce, Good

LEMMA HeldOnceIsGoodPrime == HeldOnce' <=> Good(docs', at', sent', next')
BY DEF HeldOnce, Good

LEMMA InitInd == Init => IndInv
<1> SUFFICES ASSUME Init PROVE IndInv
    OBVIOUS
<1> USE DEF Init, Empty, Idle, Nothing
<1>1. TypeOK
    BY LogType, BoundsAssumption, BuffersAssumption DEF TypeOK
<1>2. committed <= next
    OBVIOUS
<1>3. AtRest
    BY DEF AtRest, Tasks
<1>4. HeldOnce
    BY DEF HeldOnce
<1>5. Accounted
    BY DEF Accounted
<1>6. Clean
    <2>1. \A o : ~ Held(o, docs, sent)
        BY DEF Held
    <2> QED
        BY <2>1 DEF Clean, Offsets
<1> QED
    BY <1>1, <1>2, <1>3, <1>4, <1>5, <1>6 DEF IndInv, IInv

\* What a bulk write does to the index.
LEMMA WriteAllKeeps ==
    ASSUME NEW these \in SUBSET Offsets, TypeOK, WriteAll(these)
    PROVE  /\ index' \in [Offsets -> Nat] /\ stored' \subseteq Offsets
           /\ \A o \in Offsets : index[o] > 0 => index'[o] > 0
           /\ \A o \in Offsets : o \in these => index'[o] > 0 /\ index'[o] = index[o] + 1
           /\ \A o \in Offsets : o \notin these => index'[o] = index[o]
BY DEF WriteAll, TypeOK

\* A round begun in good order ends in good order, with the same documents.
LEMMA Round ==
    ASSUME NEW t \in Tasks, NEW from \in 0 .. NBuffers, NEW bufs \in Maps,
           NEW calls \in Calls, NEW sending \in Sendings,
           GoOn(t, from, bufs, calls, sending),
           Good(bufs, calls, [sending EXCEPT ![t] = {}], next'),
           \A u \in Tasks \ {t} : calls[u] = 0 => sending[u] = {}
    PROVE  /\ docs' \in Maps /\ at' \in Calls /\ sent' \in Sendings
           /\ HeldOnce'
           /\ \A u \in Tasks : at'[u] = 0 => sent'[u] = {}
           /\ \A u \in Tasks \ {t} : at'[u] = calls[u]
           /\ \A o : Held(o, bufs, [sending EXCEPT ![t] = {}]) <=> Held(o, docs', sent')
<1>1. /\ Good(docs', at', sent', next')
      /\ \A o : Held(o, bufs, [sending EXCEPT ![t] = {}]) <=> Held(o, docs', sent')
    BY GoOnKeeps
<1>2. /\ docs' \in Maps /\ at' \in Calls /\ sent' \in Sendings
      /\ \A u \in Tasks \ {t} : at'[u] = calls[u] /\ sent'[u] = sending[u]
      /\ at'[t] = 0 => sent'[t] = {}
    <2>1. \A b \in Buffers : b # 0
        BY BuffersAssumption DEF Buffers
    <2> QED
        BY GoOnResult, <2>1
<1> QED
    BY <1>1, <1>2, HeldOnceIsGoodPrime

LEMMA ConsumeInd == IndInv /\ Consume => IndInv'
<1> SUFFICES ASSUME IndInv, Consume PROVE IndInv'
    OBVIOUS
<1> USE DEF IndInv, IInv, kafkaVars, indexVars, ghostVars, countVars
<1> DEFINE to == Log[next + 1]
           bufs == IF to = 0 THEN docs ELSE [docs EXCEPT ![to] = @ \union {next + 1}]
<1>1. /\ next + 1 \in Offsets /\ to \in 0 .. NBuffers /\ next \in Nat
      /\ docs \in Maps /\ at \in Calls /\ sent \in Sendings
    BY LogType DEF Consume, TypeOK, Offsets, Maps, Calls, Sendings
<1>2. /\ bufs \in Maps
      /\ \A b \in Buffers : bufs[b] = IF b = to THEN docs[b] \union {next + 1} ELSE docs[b]
    <2>1. CASE to = 0
        BY <1>1, <2>1, BuffersAssumption DEF Maps, Buffers
    <2>2. CASE to # 0
        <3>1. to \in Buffers /\ docs[to] \union {next + 1} \in SUBSET Offsets
            BY <1>1, <2>2, BuffersAssumption DEF Maps, Buffers
        <3> QED
            BY <1>1, <2>2, <3>1 DEF Maps
    <2> QED
        BY <2>1, <2>2
<1>3. [sent EXCEPT !["consume"] = {}] = sent
    BY <1>1 DEF AtRest, Consume, Sendings, Tasks
<1>4. Good(bufs, at, sent, next')
    <2>1. next' = next + 1 /\ Good(docs, at, sent, next)
        BY HeldOnceIsGood DEF Consume
    <2>2. \A b \in Buffers : \A o \in docs[b] : o \in Nat /\ o <= next
        BY <1>1, <2>1 DEF Good, Maps, Offsets
    <2>3. \A u \in Tasks : \A o \in sent[u] : o \in Nat /\ o <= next
        BY <1>1, <2>1 DEF Good, Sendings, Offsets
    <2>4. \A b \in Buffers : \A o \in bufs[b] : o <= next + 1 /\ Log[o] = b
        BY <1>1, <1>2, <2>1, <2>2 DEF Good
    <2>5. \A u \in Tasks : \A o \in sent[u] : o <= next + 1 /\ Log[o] = at[u]
        BY <1>1, <2>1, <2>3 DEF Good
    <2>6. \A u \in Tasks : \A b \in Buffers : sent[u] \intersect bufs[b] = {}
        <3>1. \A u \in Tasks : next + 1 \notin sent[u]
            BY <1>1, <2>3
        <3> QED
            BY <1>2, <2>1, <3>1 DEF Good
    <2> QED
        BY <2>1, <2>4, <2>5, <2>6 DEF Good
<1>5. /\ docs' \in Maps /\ at' \in Calls /\ sent' \in Sendings
      /\ HeldOnce'
      /\ \A u \in Tasks : at'[u] = 0 => sent'[u] = {}
      /\ \A u \in Tasks \ {"consume"} : at'[u] = at[u]
      /\ \A o : Held(o, bufs, sent) <=> Held(o, docs', sent')
    <2>1. GoOn("consume", 0, bufs, at, sent)
        BY DEF Consume
    <2>2. "consume" \in Tasks /\ 0 \in 0 .. NBuffers
        BY BuffersAssumption DEF Tasks
    <2>3. \A u \in Tasks \ {"consume"} : at[u] = 0 => sent[u] = {}
        BY DEF AtRest
    <2> HIDE DEF bufs
    <2> QED
        BY <1>1, <1>2, <1>3, <1>4, <2>1, <2>2, <2>3, Round
<1>6. TypeOK'
    BY <1>1, <1>5 DEF TypeOK, Consume, Maps, Calls, Sendings, Offsets
<1>7. AtRest'
    BY <1>5 DEF AtRest, Consume, Tasks
<1>8. \A o : Held(o, docs', sent') <=> Held(o, docs, sent) \/ (o = next + 1 /\ to # 0)
    <2>1. to # 0 <=> \E b \in Buffers : b = to
        BY <1>1, BuffersAssumption DEF Buffers
    <2> HIDE DEF bufs, to
    <2>2. ASSUME NEW o
          PROVE  (\E b \in Buffers : o \in bufs[b]) <=>
                    (\E b \in Buffers : o \in docs[b]) \/ (o = next + 1 /\ to # 0)
        BY <1>2, <2>1
    <2> QED
        BY <1>5, <2>2 DEF Held
<1>9. Accounted'
    <2> SUFFICES ASSUME NEW o \in 1 .. next', Log[o] # 0
                 PROVE  index'[o] > 0 \/ Held(o, docs', sent') \/ o \in lost'
        BY InMemoryHeldPrime DEF Accounted, Consume
    <2>1. o = next + 1 \/ o \in 1 .. next
        BY <1>1 DEF Consume
    <2>2. next' = next + 1 /\ index' = index /\ lost' = lost
        BY DEF Consume
    <2>3. CASE o = next + 1
        BY <1>8, <2>3
    <2>4. CASE o \in 1 .. next
        BY <1>8, <2>2, <2>4, InMemoryHeld DEF Accounted
    <2> QED
        BY <2>1, <2>3, <2>4
<1>10. Clean'
    <2>1. index' = index /\ lost' = lost /\ cancelled' = cancelled /\ faults' = faults
          /\ next' = next + 1 /\ life' = "running"
        BY DEF Consume
    <2>2. ASSUME faults = 0, NEW o \in Offsets, o > next' \/ Held(o, docs', sent')
          PROVE  index[o] = 0
        <3>1. o > next \/ Held(o, docs, sent)
            BY <1>1, <1>8, <2>1, <2>2 DEF Offsets
        <3> QED
            BY <2>2, <3>1 DEF Clean
    <2> QED
        BY <2>1, <2>2 DEF Clean
<1>11. committed' <= next'
    BY <1>1 DEF Consume, TypeOK
<1> QED
    BY <1>5, <1>6, <1>7, <1>9, <1>10, <1>11

\* A task that awaits nothing: its sending is already empty.
LEMMA WakeInd == IndInv /\ Wake => IndInv'
<1> SUFFICES ASSUME IndInv, Wake PROVE IndInv'
    OBVIOUS
<1> USE DEF IndInv, IInv, kafkaVars, indexVars, ghostVars, countVars
<1>1. docs \in Maps /\ at \in Calls /\ sent \in Sendings
    BY DEF TypeOK, Maps, Calls, Sendings
<1>2. [sent EXCEPT !["flush"] = {}] = sent
    BY <1>1 DEF AtRest, Wake, Sendings, Tasks
<1>3. /\ docs' \in Maps /\ at' \in Calls /\ sent' \in Sendings
      /\ HeldOnce'
      /\ \A u \in Tasks : at'[u] = 0 => sent'[u] = {}
      /\ \A u \in Tasks \ {"flush"} : at'[u] = at[u]
      /\ \A o : Held(o, docs, sent) <=> Held(o, docs', sent')
    <2>1. GoOn("flush", 0, docs, at, sent) /\ Good(docs, at, sent, next')
        BY HeldOnceIsGood DEF Wake
    <2>2. "flush" \in Tasks /\ 0 \in 0 .. NBuffers
        BY BuffersAssumption DEF Tasks
    <2>3. \A u \in Tasks \ {"flush"} : at[u] = 0 => sent[u] = {}
        BY DEF AtRest
    <2> QED
        BY <1>1, <1>2, <2>1, <2>2, <2>3, Round
<1>4. TypeOK'
    BY <1>3 DEF TypeOK, Wake, Maps, Calls, Sendings
<1>5. AtRest'
    BY <1>3 DEF AtRest, Wake, Tasks
<1>6. Accounted'
    BY <1>3, InMemoryHeld, InMemoryHeldPrime DEF Accounted, Wake
<1>7. Clean'
    BY <1>3 DEF Clean, Wake
<1> QED
    BY <1>3, <1>4, <1>5, <1>6, <1>7 DEF Wake

LEMMA IndexedInd == \A t \in Tasks : IndInv /\ Indexed(t) => IndInv'
<1> SUFFICES ASSUME NEW t \in Tasks, IndInv, Indexed(t) PROVE IndInv'
    OBVIOUS
<1> USE DEF IndInv, IInv, kafkaVars, indexVars, ghostVars, countVars
<1> DEFINE others == [sent EXCEPT ![t] = {}]
<1>1. /\ docs \in Maps /\ at \in Calls /\ sent \in Sendings
      /\ at[t] \in 0 .. NBuffers /\ at[t] # 0
    BY DEF TypeOK, Maps, Calls, Sendings, Indexed
<1>2. /\ others[t] = {}
      /\ \A u \in Tasks \ {t} : others[u] = sent[u]
    BY <1>1 DEF Sendings
<1>3. PICK rejected \in SUBSET sent[t] :
          /\ rejected = {} \/ faults < MaxFaults
          /\ faults' = IF rejected = {} THEN faults ELSE faults + 1
          /\ WriteAll(sent[t] \ rejected)
          /\ lost' = lost \union rejected
    BY DEF Indexed
<1>4. /\ docs' \in Maps /\ at' \in Calls /\ sent' \in Sendings
      /\ HeldOnce'
      /\ \A u \in Tasks : at'[u] = 0 => sent'[u] = {}
      /\ \A u \in Tasks \ {t} : at'[u] = at[u]
      /\ \A o : Held(o, docs, others) <=> Held(o, docs', sent')
    <2>1. GoOn(t, at[t], docs, at, sent) /\ next' = next
        BY DEF Indexed
    <2>2. Good(docs, at, others, next')
        BY <1>2, <2>1, HeldOnceIsGood DEF Good
    <2>3. \A u \in Tasks \ {t} : at[u] = 0 => sent[u] = {}
        BY DEF AtRest
    <2> QED
        BY <1>1, <2>1, <2>2, <2>3, Round
<1>5. /\ index' \in [Offsets -> Nat] /\ stored' \subseteq Offsets
      /\ \A o \in Offsets : index[o] > 0 => index'[o] > 0
      /\ \A o \in Offsets : o \in sent[t] \ rejected => index'[o] > 0 /\ index'[o] = index[o] + 1
      /\ \A o \in Offsets : o \notin sent[t] => index'[o] = index[o]
    <2>1. sent[t] \ rejected \in SUBSET Offsets
        BY <1>1 DEF Sendings
    <2> QED
        BY <1>3, <2>1, WriteAllKeeps
<1>6. TypeOK'
    <2>1. lost' \subseteq Offsets /\ faults' \in 0 .. MaxFaults
        BY <1>1, <1>3, BoundsAssumption DEF TypeOK, Sendings
    <2> QED
        BY <1>4, <1>5, <2>1 DEF TypeOK, Indexed, Maps, Calls, Sendings
<1>7. AtRest'
    <2>1. /\ life # "running" => t # "consume"
          /\ life = "stopping" => t # "flush"
          /\ life # "stopping" => t # "stop"
          /\ life # "down"
        BY <1>1 DEF AtRest
    <2> QED
        BY <1>4, <2>1 DEF AtRest, Indexed, Tasks
<1>8. Accounted'
    <2> SUFFICES ASSUME NEW o \in 1 .. next, Log[o] # 0
                 PROVE  index'[o] > 0 \/ Held(o, docs', sent') \/ o \in lost'
        BY InMemoryHeldPrime DEF Accounted, Indexed
    <2>1. o \in Offsets
        BY DEF TypeOK, Offsets
    <2>2. CASE Held(o, docs, others)
        BY <1>4, <2>2
    <2>3. CASE o \in sent[t]
        BY <1>3, <1>5, <2>1, <2>3
    <2>4. CASE index[o] > 0 \/ o \in lost
        BY <1>3, <1>5, <2>1, <2>4
    <2>5. Held(o, docs, sent) => Held(o, docs, others) \/ o \in sent[t]
        BY <1>2 DEF Held
    <2> QED
        BY <2>2, <2>3, <2>4, <2>5, InMemoryHeld DEF Accounted
<1>9. Clean'
    <2> SUFFICES ASSUME faults' = 0 PROVE Clean'
        BY DEF Clean
    <2>1. rejected = {} /\ faults = 0 /\ lost' = lost
        BY <1>3, BoundsAssumption DEF TypeOK
    <2>2. next' = next /\ life' = life /\ cancelled' = cancelled
        BY DEF Indexed
    <2>3. \A o \in Offsets : o \in sent[t] => index[o] = 0 /\ o <= next
        BY <2>1 DEF Clean, Held, HeldOnce
    <2>4. \A o \in Offsets : index'[o] <= 1
        BY <1>5, <2>1, <2>3 DEF Clean, TypeOK
    <2>5. ASSUME NEW o \in Offsets, o > next \/ Held(o, docs', sent')
          PROVE  index'[o] = 0
        <3>1. o \notin sent[t]
            <4>1. ASSUME Held(o, docs, others), o \in sent[t] PROVE FALSE
                BY <1>2, <4>1 DEF Held, HeldOnce
            <4> QED
                BY <1>4, <2>3, <2>5, <4>1 DEF TypeOK, Offsets
        <3>2. Held(o, docs', sent') => Held(o, docs, sent)
            BY <1>2, <1>4 DEF Held
        <3> QED
            BY <1>5, <2>1, <2>5, <3>1, <3>2 DEF Clean
    <2>6. ASSUME life = "stopping", NEW b \in Buffers, docs'[b] # {}
          PROVE  at'["stop"] # 0 /\ b > at'["stop"]
        <3>1. t = "stop"
            BY <1>1, <2>6 DEF AtRest, Tasks
        <3>2. docs[b] # {}
            <4>1. docs' = docs \/ \E c \in Buffers : docs' = [docs EXCEPT ![c] = {}]
                BY ZenonT(30), <1>1, GoOnResult DEF Indexed
            <4> QED
                BY <1>1, <2>6, <4>1 DEF Maps
        <3>3. b > at[t]
            BY <2>1, <2>6, <3>1, <3>2 DEF Clean
        <3> QED
            BY <1>1, <2>6, <3>1, <3>3, GoOnResult DEF Indexed
    <2> QED
        BY <2>1, <2>2, <2>4, <2>5, <2>6 DEF Clean
<1> QED
    BY <1>4, <1>6, <1>7, <1>8, <1>9 DEF Indexed

LEMMA BulkFailsInd == \A t \in Tasks : IndInv /\ BulkFails(t) => IndInv'
<1> SUFFICES ASSUME NEW t \in Tasks, IndInv, BulkFails(t) PROVE IndInv'
    OBVIOUS
<1> USE DEF IndInv, IInv, kafkaVars, indexVars, ghostVars, countVars
<1> DEFINE others == [sent EXCEPT ![t] = {}]
           bufs == PutBack(t)
<1>1. /\ docs \in Maps /\ at \in Calls /\ sent \in Sendings
      /\ at[t] \in 0 .. NBuffers /\ at[t] # 0 /\ at[t] \in Buffers
    BY BuffersAssumption DEF TypeOK, Maps, Calls, Sendings, BulkFails, Buffers
<1>2. /\ others[t] = {}
      /\ \A u \in Tasks \ {t} : others[u] = sent[u]
    BY <1>1 DEF Sendings
<1>3. /\ bufs \in Maps
      /\ \A b \in Buffers : bufs[b] = IF b = at[t] THEN docs[b] \union sent[t] ELSE docs[b]
    BY <1>1 DEF PutBack, Maps, Sendings
<1> HIDE DEF bufs
<1>4. /\ docs' \in Maps /\ at' \in Calls /\ sent' \in Sendings
      /\ HeldOnce'
      /\ \A u \in Tasks : at'[u] = 0 => sent'[u] = {}
      /\ \A u \in Tasks \ {t} : at'[u] = at[u]
      /\ \A o : Held(o, bufs, others) <=> Held(o, docs', sent')
    <2>1. GoOn(t, at[t], bufs, at, sent) /\ next' = next
        BY DEF BulkFails, bufs
    <2>2. Good(bufs, at, others, next')
        BY ZenonT(30), <1>2, <1>3, <2>1, HeldOnceIsGood DEF Good
    <2>3. \A u \in Tasks \ {t} : at[u] = 0 => sent[u] = {}
        BY DEF AtRest
    <2> QED
        BY <1>1, <1>3, <2>1, <2>2, <2>3, Round
<1>5. \A o : Held(o, docs, sent) => Held(o, docs', sent')
    <2>1. \A o : Held(o, docs, sent) => Held(o, bufs, others)
        BY <1>1, <1>2, <1>3 DEF Held
    <2> QED
        BY <1>4, <2>1
<1>6. /\ index' \in [Offsets -> Nat] /\ stored' \subseteq Offsets
      /\ \A o \in Offsets : index[o] > 0 => index'[o] > 0
    <2>1. PICK these \in SUBSET Offsets : WriteAll(these)
        BY <1>1 DEF BulkFails, Sendings
    <2> QED
        BY <2>1, WriteAllKeeps
<1>7. TypeOK'
    <2>1. faults' \in 0 .. MaxFaults
        BY BoundsAssumption DEF TypeOK, BulkFails
    <2> QED
        BY <1>4, <1>6, <2>1 DEF TypeOK, BulkFails, Maps, Calls, Sendings
<1>8. AtRest'
    <2>1. /\ life # "running" => t # "consume"
          /\ life = "stopping" => t # "flush"
          /\ life # "stopping" => t # "stop"
          /\ life # "down"
        BY <1>1 DEF AtRest
    <2> QED
        BY <1>4, <2>1 DEF AtRest, BulkFails, Tasks
<1>9. Accounted'
    <2> SUFFICES ASSUME NEW o \in 1 .. next, Log[o] # 0
                 PROVE  index'[o] > 0 \/ Held(o, docs', sent') \/ o \in lost'
        BY InMemoryHeldPrime DEF Accounted, BulkFails
    <2>1. o \in Offsets
        BY DEF TypeOK, Offsets
    <2> QED
        BY <1>5, <1>6, <2>1, InMemoryHeld DEF Accounted, BulkFails
<1>10. Clean'
    BY BoundsAssumption DEF Clean, BulkFails, TypeOK
<1> QED
    BY <1>4, <1>7, <1>8, <1>9, <1>10 DEF BulkFails

LEMMA AutoCommitInd == IndInv /\ AutoCommit => IndInv'
<1> SUFFICES ASSUME IndInv, AutoCommit PROVE IndInv'
    OBVIOUS
<1> USE DEF IndInv, IInv, AutoCommit, indexVars, ghostVars, countVars
<1>1. TypeOK' /\ committed' <= next'
    BY DEF TypeOK
<1>2. AtRest' /\ HeldOnce'
    BY DEF AtRest, HeldOnce
<1>3. Accounted' /\ Clean'
    BY DEF Accounted, InMemory, Clean, Held
<1> QED
    BY <1>1, <1>2, <1>3

LEMMA StartInd == IndInv /\ Start => IndInv'
<1> SUFFICES ASSUME IndInv, Start PROVE IndInv'
    OBVIOUS
<1> USE DEF IndInv, IInv, Start, kafkaVars, indexVars, ghostVars
<1>1. TypeOK' /\ committed' <= next'
    BY BoundsAssumption DEF TypeOK
<1>2. AtRest' /\ HeldOnce'
    BY DEF AtRest, HeldOnce, Tasks
<1>3. Accounted' /\ Clean'
    BY DEF Accounted, InMemory, Clean, Held
<1> QED
    BY <1>1, <1>2, <1>3

\* A cancelled task: what it had in flight is written or counted as lost.
LEMMA CutKeeps ==
    ASSUME NEW t \in Tasks, IndInv, Cut(t)
    PROVE  /\ index' \in [Offsets -> Nat] /\ stored' \subseteq Offsets
           /\ cancelled' \subseteq Offsets /\ lost' \subseteq Offsets
           /\ \A o \in Offsets : index[o] > 0 => index'[o] > 0
           /\ \A o \in Offsets : o \notin sent[t] => index'[o] = index[o]
           /\ \A o \in Offsets : o \in sent[t] => index'[o] > 0 \/ o \in lost'
           /\ lost \subseteq lost'
           /\ faults = 0 => /\ lost' \subseteq cancelled'
                           /\ \A o \in Offsets : index'[o] <= 1
<1> USE DEF IndInv, IInv, indexVars, ghostVars
<1>1. sent[t] \subseteq Offsets
    BY DEF TypeOK
<1>2. \A o \in sent[t] : faults = 0 => index[o] = 0
    BY <1>1 DEF Clean, Held
<1>3. CASE WriteAll(sent[t]) /\ UNCHANGED ghostVars
    <2>1. /\ index' \in [Offsets -> Nat] /\ stored' \subseteq Offsets
          /\ \A o \in Offsets : index[o] > 0 => index'[o] > 0
          /\ \A o \in Offsets : o \notin sent[t] => index'[o] = index[o]
          /\ \A o \in Offsets : o \in sent[t] => index'[o] > 0 /\ index'[o] = index[o] + 1
        BY <1>1, <1>3, WriteAllKeeps
    <2>2. cancelled' = cancelled /\ lost' = lost
        BY <1>3
    <2>3. faults = 0 => \A o \in Offsets : index'[o] <= 1
        BY <1>2, <2>1 DEF TypeOK, Clean
    <2> QED
        BY <2>1, <2>2, <2>3 DEF TypeOK, Clean
<1>4. CASE UNCHANGED indexVars /\ cancelled' = cancelled \union sent[t] /\ lost' = lost \union sent[t]
    BY <1>1, <1>4 DEF TypeOK, Clean
<1> QED
    BY <1>3, <1>4 DEF Cut

LEMMA CancelConsumeInd == IndInv /\ CancelConsume => IndInv'
<1> SUFFICES ASSUME IndInv, CancelConsume PROVE IndInv'
    OBVIOUS
<1> USE DEF IndInv, IInv, kafkaVars, indexVars, countVars
<1>1. /\ docs \in Maps /\ at \in Calls /\ sent \in Sendings
      /\ docs' = docs /\ at' = [at EXCEPT !["consume"] = 0]
      /\ sent' = [sent EXCEPT !["consume"] = {}]
      /\ next' = next /\ committed' = committed
      /\ faults' = faults /\ restarts' = restarts
      /\ life = "running" /\ life' = "cancelled"
    BY DEF TypeOK, Maps, Calls, Sendings, CancelConsume
<1>2. /\ at' \in Calls /\ sent' \in Sendings
      /\ at'["consume"] = 0 /\ sent'["consume"] = {}
      /\ \A u \in Tasks \ {"consume"} : at'[u] = at[u] /\ sent'[u] = sent[u]
    BY <1>1, BuffersAssumption DEF Calls, Sendings, Tasks
<1>3. /\ index' \in [Offsets -> Nat] /\ stored' \subseteq Offsets
      /\ cancelled' \subseteq Offsets /\ lost' \subseteq Offsets
      /\ \A o \in Offsets : index[o] > 0 => index'[o] > 0
      /\ \A o \in Offsets : o \notin sent["consume"] => index'[o] = index[o]
      /\ \A o \in Offsets : o \in sent["consume"] => index'[o] > 0 \/ o \in lost'
      /\ lost \subseteq lost'
      /\ faults = 0 => /\ lost' \subseteq cancelled'
                      /\ \A o \in Offsets : index'[o] <= 1
    BY CutKeeps DEF CancelConsume, Tasks
<1>4. TypeOK'
    BY <1>1, <1>2, <1>3 DEF TypeOK, Calls, Sendings
<1>5. AtRest'
    BY <1>1, <1>2 DEF AtRest, Tasks
<1>6. HeldOnce'
    BY <1>1, <1>2, HeldOnceIsGood, HeldOnceIsGoodPrime DEF Good
<1>7. \A o : Held(o, docs, sent) => Held(o, docs', sent') \/ o \in sent["consume"]
    BY <1>1, <1>2 DEF Held
<1>8. Accounted'
    <2> SUFFICES ASSUME NEW o \in 1 .. next, Log[o] # 0
                 PROVE  index'[o] > 0 \/ Held(o, docs', sent') \/ o \in lost'
        BY <1>1, InMemoryHeldPrime DEF Accounted
    <2>1. o \in Offsets
        BY DEF TypeOK, Offsets
    <2> QED
        BY <1>3, <1>7, <2>1, InMemoryHeld DEF Accounted
<1>9. Clean'
    <2>1. \A o \in sent["consume"] : o <= next
        BY DEF HeldOnce, Tasks
    <2>2. ASSUME faults = 0, NEW o \in Offsets, o > next \/ Held(o, docs', sent')
          PROVE  index'[o] = 0
        <3>1. o \notin sent["consume"]
            <4>1. ASSUME Held(o, docs', sent'), o \in sent["consume"] PROVE FALSE
                BY <1>1, <1>2, <4>1 DEF Held, HeldOnce, Tasks
            <4> QED
                BY <2>1, <2>2, <4>1 DEF TypeOK, Offsets
        <3>2. Held(o, docs', sent') => Held(o, docs, sent)
            BY <1>1, <1>2 DEF Held
        <3> QED
            BY <1>3, <2>2, <3>1, <3>2 DEF Clean
    <2> QED
        BY <1>1, <1>3, <2>2 DEF Clean
<1> QED
    BY <1>1, <1>4, <1>5, <1>6, <1>8, <1>9

LEMMA CancelFlushInd == IndInv /\ CancelFlush => IndInv'
<1> SUFFICES ASSUME IndInv, CancelFlush PROVE IndInv'
    OBVIOUS
<1> USE DEF IndInv, IInv, kafkaVars, indexVars, countVars
<1> DEFINE calls == [at EXCEPT !["flush"] = 0]
           sending == [sent EXCEPT !["flush"] = {}]
           others == [sending EXCEPT !["stop"] = {}]
<1>1. /\ docs \in Maps /\ at \in Calls /\ sent \in Sendings
      /\ next' = next /\ committed' = committed
      /\ faults' = faults /\ restarts' = restarts
      /\ life = "cancelled" /\ life' = "stopping"
      /\ GoOn("stop", 0, docs, calls, sending)
    BY DEF TypeOK, Maps, Calls, Sendings, CancelFlush
<1>2. /\ calls \in Calls /\ sending \in Sendings
      /\ calls["flush"] = 0 /\ sending["flush"] = {}
      /\ \A u \in Tasks \ {"flush"} : calls[u] = at[u] /\ sending[u] = sent[u]
      /\ others["flush"] = {}
      /\ \A u \in Tasks \ {"flush"} : others[u] = sent[u]
    BY <1>1, BuffersAssumption DEF Calls, Sendings, Tasks, AtRest
<1>3. /\ index' \in [Offsets -> Nat] /\ stored' \subseteq Offsets
      /\ cancelled' \subseteq Offsets /\ lost' \subseteq Offsets
      /\ \A o \in Offsets : index[o] > 0 => index'[o] > 0
      /\ \A o \in Offsets : o \notin sent["flush"] => index'[o] = index[o]
      /\ \A o \in Offsets : o \in sent["flush"] => index'[o] > 0 \/ o \in lost'
      /\ lost \subseteq lost'
      /\ faults = 0 => /\ lost' \subseteq cancelled'
                      /\ \A o \in Offsets : index'[o] <= 1
    BY CutKeeps DEF CancelFlush, Tasks
<1> HIDE DEF calls, sending
<1>4. /\ docs' \in Maps /\ at' \in Calls /\ sent' \in Sendings
      /\ HeldOnce'
      /\ \A u \in Tasks : at'[u] = 0 => sent'[u] = {}
      /\ \A u \in Tasks \ {"stop"} : at'[u] = calls[u]
      /\ \A o : Held(o, docs, others) <=> Held(o, docs', sent')
    <2>1. Good(docs, at, sent, next)
        BY HeldOnceIsGood
    <2>2. Good(docs, calls, others, next')
        <3>1. \A u \in Tasks : \A o \in others[u] : o \in sent[u] /\ calls[u] = at[u]
            BY <1>2
        <3>2. \A u \in Tasks : others[u] \subseteq sent[u]
            BY <1>2
        <3> QED
            BY <1>1, <2>1, <3>1, <3>2 DEF Good
    <2>3. \A u \in Tasks \ {"stop"} : calls[u] = 0 => sending[u] = {}
        BY <1>2 DEF AtRest
    <2>4. "stop" \in Tasks /\ 0 \in 0 .. NBuffers
        BY BuffersAssumption DEF Tasks
    <2> QED
        BY <1>1, <1>2, <2>2, <2>3, <2>4, Round
<1>5. TypeOK'
    BY <1>1, <1>3, <1>4 DEF TypeOK, Maps, Calls, Sendings
<1>6. AtRest'
    BY <1>1, <1>2, <1>4 DEF AtRest, Tasks
<1>7. \A o : Held(o, docs, sent) => Held(o, docs, others) \/ o \in sent["flush"]
    BY <1>2 DEF Held
<1>8. Accounted'
    <2> SUFFICES ASSUME NEW o \in 1 .. next, Log[o] # 0
                 PROVE  index'[o] > 0 \/ Held(o, docs', sent') \/ o \in lost'
        BY <1>1, InMemoryHeldPrime DEF Accounted
    <2>1. o \in Offsets
        BY DEF TypeOK, Offsets
    <2> QED
        BY <1>3, <1>4, <1>7, <2>1, InMemoryHeld DEF Accounted
<1>9. Clean'
    <2>1. \A o \in sent["flush"] : o <= next
        BY DEF HeldOnce, Tasks
    <2>2. ASSUME faults = 0, NEW o \in Offsets, o > next \/ Held(o, docs', sent')
          PROVE  index'[o] = 0
        <3>1. o \notin sent["flush"]
            <4>1. ASSUME Held(o, docs, others), o \in sent["flush"] PROVE FALSE
                BY <1>1, <1>2, <4>1 DEF Held, HeldOnce, Tasks
            <4> QED
                BY <1>4, <2>1, <2>2, <4>1 DEF TypeOK, Offsets
        <3>2. Held(o, docs', sent') => Held(o, docs, sent)
            BY <1>2, <1>4 DEF Held
        <3> QED
            BY <1>3, <2>2, <3>1, <3>2 DEF Clean
    <2>3. \A b \in Buffers : docs'[b] # {} => at'["stop"] # 0 /\ b > at'["stop"]
        <3>1. \A b \in Buffers : b > 0
            BY BuffersAssumption DEF Buffers
        <3>2. "stop" \in Tasks /\ 0 \in 0 .. NBuffers
            BY BuffersAssumption DEF Tasks
        <3> QED
            BY <1>1, <1>2, <3>1, <3>2, GoOnResult
    <2> QED
        BY <1>1, <1>3, <2>2, <2>3 DEF Clean
<1> QED
    BY <1>1, <1>4, <1>5, <1>6, <1>8, <1>9

LEMMA StoppedInd == IndInv /\ Stopped => IndInv'
<1> SUFFICES ASSUME IndInv, Stopped PROVE IndInv'
    OBVIOUS
<1> USE DEF IndInv, IInv, indexVars, countVars
<1>1. /\ life = "stopping" /\ life' = "down" /\ at["stop"] = 0
      /\ next' = next /\ committed' = next /\ index' = index /\ stored' = stored
      /\ lost' = lost \union InMemory /\ cancelled' = cancelled
      /\ docs' = Empty /\ at' = at /\ sent' = sent
      /\ faults' = faults /\ restarts' = restarts
    BY DEF Stopped
<1>2. \A u \in Tasks : at[u] = 0 /\ sent[u] = {}
    BY <1>1 DEF AtRest, Tasks
<1>3. InMemory \subseteq Offsets
    BY <1>2, InMemoryHeld DEF Held, TypeOK
<1>4. TypeOK'
    BY <1>1, <1>3 DEF TypeOK, Empty
<1>5. AtRest' /\ HeldOnce'
    BY <1>1, <1>2 DEF AtRest, HeldOnce, Empty, Tasks
<1>6. Accounted'
    BY <1>1 DEF Accounted
<1>7. Clean'
    <2>1. \A o : ~ Held(o, docs', sent')
        BY <1>1, <1>2 DEF Held, Empty
    <2>2. faults = 0 => InMemory = {}
        BY <1>1, <1>2, InMemoryHeld DEF Clean, Held
    <2> QED
        BY <1>1, <2>1, <2>2 DEF Clean
<1> QED
    BY <1>1, <1>4, <1>5, <1>6, <1>7 DEF TypeOK

LEMMA CrashInd == IndInv /\ Crash => IndInv'
<1> SUFFICES ASSUME IndInv, Crash PROVE IndInv'
    OBVIOUS
<1> USE DEF IndInv, IInv
<1>1. /\ life' = "down" /\ next' = committed /\ committed' = committed
      /\ faults < MaxFaults /\ faults' = faults + 1 /\ restarts' = restarts
      /\ cancelled' = cancelled
      /\ lost' = lost \union (InMemory \intersect 1 .. committed)
      /\ docs' = Empty /\ at' = Idle /\ sent' = Nothing
    BY DEF Crash
<1>2. /\ index' \in [Offsets -> Nat] /\ stored' \subseteq Offsets
      /\ \A o \in Offsets : index[o] > 0 => index'[o] > 0
    <2>1. PICK done \in SUBSET Tasks : WriteAll(UNION {sent[t] : t \in done})
        BY DEF Crash
    <2>2. UNION {sent[t] : t \in done} \in SUBSET Offsets
        BY DEF TypeOK
    <2> QED
        BY <2>1, <2>2, WriteAllKeeps
<1>3. 1 .. committed \subseteq Offsets /\ 1 .. committed \subseteq 1 .. next
    BY DEF TypeOK, Offsets
<1>4. TypeOK'
    BY <1>1, <1>2, <1>3, BoundsAssumption, BuffersAssumption
    DEF TypeOK, Empty, Idle, Nothing
<1>5. AtRest' /\ HeldOnce'
    BY <1>1 DEF AtRest, HeldOnce, Empty, Idle, Nothing, Tasks
<1>6. Accounted'
    BY <1>1, <1>2, <1>3 DEF Accounted
<1>7. Clean'
    BY <1>1 DEF Clean, TypeOK
<1> QED
    BY <1>1, <1>4, <1>5, <1>6, <1>7 DEF TypeOK

LEMMA StepInd == IndInv /\ [Next]_vars => IndInv'
<1> SUFFICES ASSUME IndInv, [Next]_vars PROVE IndInv'
    OBVIOUS
<1>1. CASE UNCHANGED vars
    BY <1>1 DEF vars, kafkaVars, indexVars, ghostVars, countVars, IndInv, IInv, TypeOK,
                AtRest, HeldOnce, Accounted, InMemory, Clean, Held
<1> QED
    BY <1>1, ConsumeInd, WakeInd, IndexedInd, BulkFailsInd, AutoCommitInd,
       CancelConsumeInd, CancelFlushInd, StoppedInd, CrashInd, StartInd DEF Next

LEMMA IndAlways == Spec => []IndInv
BY InitInd, StepInd, PTL DEF Spec

-----------------------------------------------------------------------------
\* The types of the indexer, for any buffers, log, limits and bounds.
THEOREM TypeCorrect == Spec => []TypeOK
<1>1. IndInv => TypeOK
    BY DEF IndInv, IInv
<1> QED
    BY <1>1, IndAlways, PTL

\* drain before the await and the put-back after it keep every document in
\* one place, for any interleaving of the three tasks.
THEOREM DocumentsHeldOnce == Spec => []HeldOnce
<1>1. IndInv => HeldOnce
    BY DEF IndInv, IInv
<1> QED
    BY <1>1, IndAlways, PTL

\* Overwriting leaves a document where one was written.
Written == \A o \in Offsets : index[o] > 0 => Present(o)

\* Only a bulk write changes what Elasticsearch holds.
LEMMA OnlyWrites ==
    ASSUME TypeOK, [Next]_vars, ~UNCHANGED indexVars
    PROVE  \E these \in SUBSET Offsets : WriteAll(these)
<1>1. \A t \in Tasks : sent[t] \in SUBSET Offsets
    BY DEF TypeOK
<1>2. ASSUME NEW t \in Tasks, Indexed(t)
      PROVE  \E these \in SUBSET Offsets : WriteAll(these)
    BY <1>1, <1>2 DEF Indexed
<1>3. ASSUME NEW t \in Tasks, BulkFails(t) \/ Cut(t)
      PROVE  \E these \in SUBSET Offsets : WriteAll(these)
    BY <1>1, <1>3 DEF BulkFails, Cut
<1>4. ASSUME Crash PROVE \E these \in SUBSET Offsets : WriteAll(these)
    <2>1. PICK done \in SUBSET Tasks : WriteAll(UNION {sent[t] : t \in done})
        BY <1>4 DEF Crash
    <2>2. UNION {sent[t] : t \in done} \in SUBSET Offsets
        BY <1>1
    <2> QED
        BY <2>1, <2>2
<1>5. ASSUME CancelConsume \/ CancelFlush PROVE \E t \in Tasks : Cut(t)
    BY <1>5 DEF CancelConsume, CancelFlush, Tasks
<1> QED
    BY <1>2, <1>3, <1>4, <1>5
    DEF Next, Consume, Wake, AutoCommit, Stopped, Start, vars

LEMMA WrittenNext == TypeOK /\ Written /\ [Next]_vars => Written'
<1> SUFFICES ASSUME TypeOK, Written, [Next]_vars PROVE Written'
    OBVIOUS
<1>1. CASE UNCHANGED indexVars
    BY <1>1 DEF Written, Present, indexVars
<1>2. CASE ~UNCHANGED indexVars
    <2>1. PICK these \in SUBSET Offsets : WriteAll(these)
        BY <1>2, OnlyWrites
    <2>2. PICK w \in SUBSET these :
              /\ \A o \in these : \E d \in w : SameDoc(d, o)
              /\ stored' = {d \in stored : \A o \in these : ~SameDoc(d, o)} \union w
        BY <2>1 DEF WriteAll
    <2>3. \A d, o, x : SameDoc(d, o) /\ SameDoc(d, x) => SameDoc(o, x)
        BY DEF SameDoc
    <2>4. \A d, o : SameDoc(d, o) => SameDoc(o, d)
        BY DEF SameDoc
    <2>5. \A d, x, o : SameDoc(d, x) /\ SameDoc(x, o) => SameDoc(d, o)
        BY DEF SameDoc
    <2>6. ASSUME NEW o \in Offsets, index'[o] > 0
          PROVE  \E d \in stored' : SameDoc(d, o)
        <3>1. CASE o \in these
            BY <2>2, <3>1
        <3>2. CASE o \notin these
            <4>1. PICK d \in stored : SameDoc(d, o)
                BY <2>1, <2>6, <3>2, WriteAllKeeps DEF Written, Present
            <4>2. CASE \A x \in these : ~SameDoc(d, x)
                BY <2>2, <4>1, <4>2
            <4>3. ASSUME NEW x \in these, SameDoc(d, x)
                  PROVE  \E e \in stored' : SameDoc(e, o)
                <5>1. PICK e \in w : SameDoc(e, x)
                    BY <2>2
                <5>2. SameDoc(x, o)
                    BY <2>3, <4>1, <4>3
                <5> QED
                    BY <2>2, <2>5, <5>1, <5>2
            <4> QED
                BY <4>2, <4>3
        <3> QED
            BY <3>1, <3>2
    <2> QED
        BY <2>6 DEF Written, Present
<1> QED
    BY <1>1, <1>2

\* _flush_buffer, _periodic_flush and stop() let no message drop out unnoticed,
\* through any failed writes, commits, crashes and restarts, and what bulk_index
\* overwrites still has a document of its _id.
THEOREM DocumentsNeverVanish == Spec => []NothingVanishes
<1>1. Init => Written
    BY DEF Init, Written
<1>2. IndInv => TypeOK
    BY DEF IndInv, IInv
<1>3. IndInv /\ Written => NothingVanishes
    BY DEF IndInv, IInv, Accounted, NothingVanishes, Written, TypeOK, Offsets
<1> QED
    BY <1>1, <1>2, <1>3, WrittenNext, IndAlways, PTL DEF Spec

\* Without a fault a stop costs at most what the two cancelled tasks had in
\* flight, and nothing is indexed twice, over any number of restarts.
THEOREM StopsLoseOnlyCancelled == Spec => []StopLosesOnlyCancelled
<1>1. IndInv => StopLosesOnlyCancelled
    BY DEF IndInv, Clean, StopLosesOnlyCancelled
<1> QED
    BY <1>1, IndAlways, PTL

-----------------------------------------------------------------------------
(***************************************************************************)
(* The size of the batches.  Without a fault nothing is put back, so that  *)
(* only Consume lets a buffer grow, by one document; while the consumer    *)
(* runs, a buffer that has become full lies ahead of its round, and when   *)
(* the round has ended none is full.  Cancelled, it adds nothing more.     *)
(***************************************************************************)
Full(buf) == Cardinality(buf) >= MaxBuffer

Small(bufs, sending) ==
    /\ \A b \in Buffers : Cardinality(bufs[b]) <= MaxBuffer
    /\ \A t \in Tasks : Cardinality(sending[t]) <= MaxBuffer

FullAhead(bufs, place) == \A b \in Buffers : Full(bufs[b]) => place # 0 /\ b > place

Batches ==
    faults = 0 =>
        /\ Small(docs, sent)
        /\ life = "running" => FullAhead(docs, at["consume"])

LEMMA EmptyFits == Cardinality({}) <= MaxBuffer /\ ~Full({})
BY FS_EmptySet, BoundsAssumption DEF Full

\* A round drains the full buffers that lie ahead of it, the first one first.
LEMMA RoundFits ==
    ASSUME NEW t \in Tasks, NEW from \in 0 .. NBuffers, NEW bufs \in Maps,
           NEW calls \in Calls, NEW sending \in Sendings,
           GoOn(t, from, bufs, calls, sending), Small(bufs, sending)
    PROVE  /\ Small(docs', sent')
           /\ t = "consume" /\ (\A b \in Buffers : Full(bufs[b]) => b > from)
                => FullAhead(docs', at'["consume"])
           /\ t # "consume" /\ FullAhead(bufs, calls["consume"])
                => FullAhead(docs', at'["consume"])
<1>1. PICK due \in DueSets(t, bufs) :
        LET rest == {b \in due : b > from} IN
        \/ /\ rest = {}
           /\ docs' = bufs
           /\ at' = [calls EXCEPT ![t] = 0]
           /\ sent' = [sending EXCEPT ![t] = {}]
        \/ \E b \in rest :
           /\ \A c \in rest : b <= c
           /\ docs' = [bufs EXCEPT ![b] = {}]
           /\ at' = [calls EXCEPT ![t] = b]
           /\ sent' = [sending EXCEPT ![t] = bufs[b]]
    BY DEF GoOn
<1>2. /\ due \subseteq Buffers
      /\ t = "consume" => \A b \in Buffers : Full(bufs[b]) => b \in due
    BY DEF DueSets, Filled, ShouldFlush, Full
<1>3. "consume" \in Tasks /\ t # "consume" => at'["consume"] = calls["consume"]
    BY <1>1 DEF Tasks, Calls
<1>4. CASE /\ {b \in due : b > from} = {} /\ docs' = bufs
           /\ at' = [calls EXCEPT ![t] = 0] /\ sent' = [sending EXCEPT ![t] = {}]
    <2>1. Small(docs', sent')
        BY <1>4, EmptyFits DEF Small, Sendings
    <2>2. t = "consume" /\ (\A b \in Buffers : Full(bufs[b]) => b > from)
            => \A b \in Buffers : ~Full(bufs[b])
        BY <1>2, <1>4
    <2> QED
        BY <1>3, <1>4, <2>1, <2>2 DEF FullAhead
<1>5. ASSUME NEW b \in due, b > from, \A c \in due : c > from => b <= c,
             docs' = [bufs EXCEPT ![b] = {}], at' = [calls EXCEPT ![t] = b],
             sent' = [sending EXCEPT ![t] = bufs[b]]
      PROVE  /\ Small(docs', sent')
             /\ t = "consume" /\ (\A c \in Buffers : Full(bufs[c]) => c > from)
                  => FullAhead(docs', at'["consume"])
             /\ t # "consume" /\ FullAhead(bufs, calls["consume"])
                  => FullAhead(docs', at'["consume"])
    <2>1. b \in Buffers /\ b # 0 /\ at'[t] = b
        BY <1>2, <1>5, BuffersAssumption DEF Buffers, Calls
    <2>2. \A c \in Buffers : docs'[c] = IF c = b THEN {} ELSE bufs[c]
        BY <1>5 DEF Maps
    <2>3. \A u \in Tasks : sent'[u] = IF u = t THEN bufs[b] ELSE sending[u]
        BY <1>5 DEF Sendings
    <2>4. Small(docs', sent')
        BY <2>1, <2>2, <2>3, EmptyFits DEF Small
    <2>5. ASSUME t = "consume", \A c \in Buffers : Full(bufs[c]) => c > from,
                 NEW c \in Buffers, Full(docs'[c])
          PROVE  c > b
        <3>1. c # b /\ Full(bufs[c])
            BY <2>2, <2>5, EmptyFits
        <3>2. b <= c
            BY <1>2, <1>5, <2>5, <3>1
        <3> QED
            BY <2>1, <3>1, <3>2, BuffersAssumption DEF Buffers
    <2>6. \A c \in Buffers : Full(docs'[c]) => Full(bufs[c])
        BY <2>2, EmptyFits
    <2>7. CASE t = "consume"
        BY <2>1, <2>4, <2>5, <2>7 DEF FullAhead
    <2>8. CASE t # "consume"
        <3>1. at'["consume"] = calls["consume"]
            BY <1>3, <2>8 DEF Tasks
        <3>2. FullAhead(bufs, calls["consume"]) => FullAhead(docs', at'["consume"])
            BY ONLY <2>6, <3>1 DEF FullAhead
        <3> QED
            BY <2>4, <2>8, <3>2
    <2> QED
        BY <2>7, <2>8
<1> QED
    BY <1>1, <1>4, <1>5

LEMMA BatchesInit == Init => Batches
<1> SUFFICES ASSUME Init PROVE Batches
    OBVIOUS
<1>1. /\ \A b \in Buffers : docs[b] = {}
      /\ \A t \in Tasks : sent[t] = {}
    BY DEF Init, Empty, Nothing
<1> QED
    BY <1>1, EmptyFits DEF Batches, Small, FullAhead

LEMMA ConsumeFits == IndInv /\ Batches /\ Consume => Batches'
<1> SUFFICES ASSUME IndInv, Batches, Consume, faults = 0, faults' = faults, life = "running"
             PROVE  Small(docs', sent') /\ FullAhead(docs', at'["consume"])
    BY DEF Batches, Consume, countVars
<1> DEFINE to == Log[next + 1]
           bufs == IF to = 0 THEN docs ELSE [docs EXCEPT ![to] = @ \union {next + 1}]
<1>1. /\ next + 1 \in Offsets /\ to \in 0 .. NBuffers /\ docs \in Maps
      /\ at \in Calls /\ sent \in Sendings /\ at["consume"] = 0
      /\ GoOn("consume", 0, bufs, at, sent)
    BY LogType DEF IndInv, IInv, Consume, TypeOK, Offsets, Maps, Calls, Sendings
<1>2. bufs \in Maps /\ \A b \in Buffers : bufs[b] = docs[b] \/ bufs[b] = docs[b] \union {next + 1}
    <2>1. CASE to = 0
        BY <1>1, <2>1
    <2>2. CASE to # 0
        <3>1. docs[to] \union {next + 1} \in SUBSET Offsets
            BY <1>1, <2>2, BuffersAssumption DEF Maps, Buffers
        <3>2. bufs = [docs EXCEPT ![to] = docs[to] \union {next + 1}]
            BY <2>2
        <3> QED
            BY <1>1, <3>1, <3>2 DEF Maps
    <2> QED
        BY <2>1, <2>2
<1> HIDE DEF bufs
<1>3. ASSUME NEW b \in Buffers PROVE Cardinality(bufs[b]) <= MaxBuffer
    <2>1. IsFiniteSet(docs[b]) /\ Cardinality(docs[b]) \in Nat
        <3>1. IsFiniteSet(Offsets)
            BY LogType, FS_Interval DEF Offsets
        <3> QED
            BY <1>1, <3>1, FS_Subset, FS_CardinalityType DEF Maps
    <2>2. ~Full(docs[b])
        BY <1>1 DEF Batches, FullAhead
    <2> DEFINE o == next + 1
    <2> HIDE DEF o
    <2>3. Cardinality(docs[b] \union {o}) <= Cardinality(docs[b]) + 1
        <3>1. Cardinality(docs[b] \union {o}) =
                IF o \in docs[b] THEN Cardinality(docs[b]) ELSE Cardinality(docs[b]) + 1
            BY <2>1, FS_AddElement
        <3> QED
            BY <2>1, <3>1
    <2>4. Cardinality(docs[b]) <= MaxBuffer - 1
        BY <2>1, <2>2, BoundsAssumption DEF Full
    <2>5. Cardinality(docs[b] \union {o}) \in Nat
        BY <2>1, FS_AddElement, FS_CardinalityType
    <2>6. bufs[b] = docs[b] \/ bufs[b] = docs[b] \union {o}
        BY <1>2 DEF o
    <2> QED
        <3>1. CASE bufs[b] = docs[b]
            BY <2>1, <2>4, <3>1, BoundsAssumption
        <3>2. CASE bufs[b] = docs[b] \union {o}
            <4>1. Cardinality(docs[b] \union {o}) <= MaxBuffer
                BY <2>1, <2>3, <2>4, <2>5, BoundsAssumption
            <4> QED
                BY <3>2, <4>1
        <3> QED
            BY <2>6, <3>1, <3>2
<1>4. Small(bufs, sent)
    BY <1>3 DEF Batches, Small
<1>5. "consume" \in Tasks /\ 0 \in 0 .. NBuffers /\ \A b \in Buffers : b > 0
    BY BuffersAssumption DEF Tasks, Buffers
<1> QED
    BY <1>1, <1>2, <1>4, <1>5, RoundFits

\* A round of a bulk call's return, of the timer or of stop().
LEMMA OtherFits ==
    ASSUME IndInv, Batches, NEW t \in Tasks, NEW from \in 0 .. NBuffers,
           NEW calls \in Calls, NEW sending \in Sendings,
           GoOn(t, from, docs, calls, sending),
           faults = 0, \A u \in Tasks : Cardinality(sending[u]) <= MaxBuffer,
           life' = "running" => life = "running" /\ calls["consume"] = at["consume"],
           t = "consume" => from = at["consume"] /\ from # 0
    PROVE  Small(docs', sent') /\ (life' = "running" => FullAhead(docs', at'["consume"]))
<1>1. docs \in Maps
    BY DEF IndInv, IInv, TypeOK, Maps
<1>2. Small(docs, sending)
    BY DEF Batches, Small
<1>3. Small(docs', sent')
    BY <1>1, <1>2, RoundFits
<1>4. ASSUME life' = "running" PROVE FullAhead(docs', at'["consume"])
    <2>1. FullAhead(docs, calls["consume"])
        BY <1>4 DEF Batches
    <2>2. t = "consume" => \A b \in Buffers : Full(docs[b]) => b > from
        BY <1>4, <2>1 DEF FullAhead
    <2> QED
        BY <1>1, <1>2, <2>1, <2>2, RoundFits
<1> QED
    BY <1>3, <1>4

LEMMA BatchesNext == IndInv /\ Batches /\ [Next]_vars => Batches'
<1> SUFFICES ASSUME IndInv, Batches, [Next]_vars, faults' = 0
             PROVE  Small(docs', sent') /\ (life' = "running" => FullAhead(docs', at'["consume"]))
    BY DEF Batches
<1>1. /\ faults \in Nat /\ docs \in Maps /\ at \in Calls /\ sent \in Sendings
      /\ \A t \in Tasks : at[t] \in 0 .. NBuffers
    BY BoundsAssumption DEF IndInv, IInv, TypeOK, Maps, Calls, Sendings
<1>2. faults = 0 => Small(docs, sent) /\ (life = "running" => FullAhead(docs, at["consume"]))
    BY DEF Batches
<1>3. CASE Consume
    BY <1>3, ConsumeFits DEF Batches
<1>4. CASE Wake
    <2>1. faults = 0 /\ life' = life /\ GoOn("flush", 0, docs, at, sent)
        BY <1>4 DEF Wake, countVars
    <2>2. "flush" \in Tasks /\ 0 \in 0 .. NBuffers /\ \A u \in Tasks : Cardinality(sent[u]) <= MaxBuffer
        BY <1>2, <2>1, BuffersAssumption DEF Tasks, Small
    <2> QED
        BY <1>1, <2>1, <2>2, OtherFits
<1>5. ASSUME NEW t \in Tasks, Indexed(t) PROVE
             Small(docs', sent') /\ (life' = "running" => FullAhead(docs', at'["consume"]))
    <2>1. faults = 0 /\ life' = life /\ GoOn(t, at[t], docs, at, sent) /\ at[t] # 0
        BY <1>1, <1>5 DEF Indexed
    <2>2. \A u \in Tasks : Cardinality(sent[u]) <= MaxBuffer
        BY <1>2, <2>1 DEF Small
    <2> QED
        BY <1>1, <2>1, <2>2, OtherFits
<1>6. ASSUME NEW t \in Tasks, BulkFails(t) \/ Crash PROVE FALSE
    <2>1. faults' = faults + 1
        BY <1>6 DEF BulkFails, Crash
    <2> QED
        BY <1>1, <2>1
<1>7. CASE AutoCommit
    BY <1>2, <1>7 DEF AutoCommit, countVars
<1>8. CASE CancelConsume
    <2>1. /\ faults = 0 /\ life' = "cancelled" /\ docs' = docs
          /\ sent' = [sent EXCEPT !["consume"] = {}]
        BY <1>8 DEF CancelConsume, countVars
    <2>2. \A u \in Tasks : sent'[u] = sent[u] \/ sent'[u] = {}
        BY <1>1, <2>1 DEF Sendings
    <2> QED
        BY <1>2, <2>1, <2>2, EmptyFits DEF Small
<1>9. CASE CancelFlush
    <2> DEFINE calls == [at EXCEPT !["flush"] = 0]
               sending == [sent EXCEPT !["flush"] = {}]
    <2>1. faults = 0 /\ life' = "stopping" /\ GoOn("stop", 0, docs, calls, sending)
        BY <1>9 DEF CancelFlush, countVars
    <2>2. calls \in Calls /\ sending \in Sendings
        <3>1. 0 \in 0 .. NBuffers /\ {} \in SUBSET Offsets
            BY BuffersAssumption
        <3> QED
            BY <1>1, <3>1 DEF Calls, Sendings
    <2>3. \A u \in Tasks : sending[u] = sent[u] \/ sending[u] = {}
        BY <1>1 DEF Sendings
    <2> HIDE DEF calls, sending
    <2>4. \A u \in Tasks : Cardinality(sending[u]) <= MaxBuffer
        BY <1>2, <2>1, <2>3, EmptyFits DEF Small
    <2>5. "stop" \in Tasks /\ 0 \in 0 .. NBuffers
        BY BuffersAssumption DEF Tasks
    <2> QED
        BY <2>1, <2>2, <2>4, <2>5, OtherFits
<1>10. CASE Stopped
    <2>1. faults = 0 /\ life' = "down" /\ docs' = Empty /\ sent' = sent
        BY <1>10 DEF Stopped, countVars
    <2> QED
        BY <1>2, <2>1, EmptyFits DEF Small, Empty
<1>11. CASE Start
    <2>1. /\ faults = 0 /\ UNCHANGED <<docs, at, sent>>
          /\ \A b \in Buffers : docs[b] = {}
        BY <1>11 DEF Start, kafkaVars, IndInv, IInv, AtRest
    <2> QED
        BY <1>2, <2>1, EmptyFits DEF FullAhead
<1>12. CASE UNCHANGED vars
    BY <1>2, <1>12 DEF vars, countVars
<1>13. "stop" \in Tasks
    BY DEF Tasks
<1> QED
    BY <1>3, <1>4, <1>5, <1>6, <1>7, <1>8, <1>9, <1>10, <1>11, <1>12, <1>13 DEF Next

\* While Elasticsearch answers, should_flush keeps every buffer and every
\* bulk request within MAX_BUFFER_SIZE, although the three tasks drain the
\* same buffers between its calls.
THEOREM BatchesStaySmall == Spec => []SmallBatches
<1>1. Batches => SmallBatches
    BY DEF Batches, Small, SmallBatches
<1> QED
    BY <1>1, BatchesInit, BatchesNext, InitInd, StepInd, PTL DEF Spec
=============================================================================
