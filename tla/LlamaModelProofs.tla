-------------------------- MODULE LlamaModelProofs --------------------------
(***************************************************************************)
(* Proofs about LlamaModel, for every vocabulary, every stack of layers,   *)
(* every number and shape of caches, every batch size.                     *)
(***************************************************************************)
EXTENDS LlamaModelInv, SequenceTheorems, TLAPS

Id == Token \cup {Invalid}

-----------------------------------------------------------------------------
(* Sequences.                                                              *)

LEMMA BatchIsSeq ==
  ASSUME NEW toks \in Batches
  PROVE  toks \in Seq(Id) /\ Len(toks) \in 1..MaxBatch
<1>1. PICK n \in 1..MaxBatch : toks \in [1..n -> Id]
  BY DEF Batches, Id
<1>2. n \in Nat
  BY BoundsAssumption
<1>3. QED
  BY <1>1, <1>2, SMT

(* The first n tokens of a history, when all of them have an embedding.    *)
LEMMA PrefixName ==
  ASSUME NEW h \in Seq(Id), NEW n \in 0..Len(h), \A k \in 1..n : h[k] \in Token
  PROVE  /\ SubSeq(h, 1, n) \in Seq(Token)
         /\ SubSeq(h, 1, n) # Garbage
         /\ Len(SubSeq(h, 1, n)) = n
         /\ \A k \in 1..n : SubSeq(h, 1, n)[k] = h[k]
<1>1. n \in Int /\ 1 \in Int
  BY LenProperties, SMT
<1>2. /\ SubSeq(h, 1, n) \in Seq(Token)
      /\ Len(SubSeq(h, 1, n)) = IF 1 <= n THEN n - 1 + 1 ELSE 0
      /\ \A k \in 1..(n - 1 + 1) : SubSeq(h, 1, n)[k] = h[1 + k - 1]
  BY <1>1, SubSeqProperties
<1>3. QED
  BY <1>1, <1>2, GarbageAssumption, SMT

LEMMA PrefixOfPrefix ==
  ASSUME NEW h \in Seq(Id), NEW n \in 0..Len(h), NEW m \in 0..n,
         \A k \in 1..n : h[k] \in Token
  PROVE  SubSeq(SubSeq(h, 1, n), 1, m) = SubSeq(h, 1, m)
<1> DEFINE g == SubSeq(h, 1, n)
<1>1. /\ g \in Seq(Token) /\ Len(g) = n
      /\ \A k \in 1..n : g[k] = h[k]
  BY PrefixName
<1>2. g \in Seq(Id) /\ m \in 0..Len(g) /\ \A k \in 1..m : g[k] \in Token
  BY <1>1, SeqMonotonic, SMT DEF Id
<1>3. /\ SubSeq(g, 1, m) \in Seq(Token) /\ Len(SubSeq(g, 1, m)) = m
      /\ \A k \in 1..m : SubSeq(g, 1, m)[k] = g[k]
  BY <1>2, PrefixName
<1>4. m \in 0..Len(h) /\ \A k \in 1..m : h[k] \in Token
  BY LenProperties, SMT
<1>5. /\ SubSeq(h, 1, m) \in Seq(Token) /\ Len(SubSeq(h, 1, m)) = m
      /\ \A k \in 1..m : SubSeq(h, 1, m)[k] = h[k]
  BY <1>4, PrefixName
<1>6. \A k \in 1..m : SubSeq(g, 1, m)[k] = SubSeq(h, 1, m)[k]
  BY <1>1, <1>3, <1>5, SMT
<1>7. QED
  BY <1>3, <1>5, <1>6, SeqEqual

(* An embedding, and what an attention layer 1 writes to a slot.           *)
LEMMA SingleName ==
  ASSUME NEW e \in Token
  PROVE  /\ <<e>> \in Seq(Token) /\ <<e>> # Garbage /\ <<e>> # Unwritten
         /\ <<e>>[1] = e
<1>1. <<e>> \in Seq(Token) /\ Len(<<e>>) = 1 /\ <<e>>[1] = e
  OBVIOUS
<1>2. Len(<<>>) = 0
  OBVIOUS
<1>3. QED
  BY <1>1, <1>2, GarbageAssumption DEF Unwritten

-----------------------------------------------------------------------------
(* The two mixers.                                                         *)

(* The name of the activation entering layer i at position p of history h. *)
Entering(h, i, p) == IF i = 1 THEN Embed(h[p + 1]) ELSE SubSeq(h, 1, p + 1)

(* Attention over the right slots yields the right activation.             *)
LEMMA AttendExact ==
  ASSUME NEW h \in Seq(Id), NEW p \in 0..(Len(h) - 1), NEW i \in Nat \ {0}, NEW slots,
         \A k \in 1..(p + 1) : h[k] \in Token,
         \A k \in 0..p : slots[k] = Reference(h, i, k)
  PROVE  Attend(i, slots, Entering(h, i, p), p) = SubSeq(h, 1, p + 1)
<1> DEFINE own == Entering(h, i, p)
<1>0. Len(h) \in Nat /\ p \in Nat /\ p + 1 \in 0..Len(h)
  BY LenProperties, SMT
<1>1. /\ SubSeq(h, 1, p + 1) \in Seq(Token) /\ SubSeq(h, 1, p + 1) # Garbage
      /\ Len(SubSeq(h, 1, p + 1)) = p + 1
      /\ \A k \in 1..(p + 1) : SubSeq(h, 1, p + 1)[k] = h[k]
  BY <1>0, PrefixName
<1>2. CASE i = 1
  <2>1. \A k \in 0..p : slots[k] = <<h[k + 1]>> /\ h[k + 1] \in Token
    BY <1>2, <1>0, SMT DEF Reference
  <2>2. \A k \in 0..p : slots[k] \notin {Unwritten, Garbage} /\ slots[k][1] = h[k + 1]
    <3> SUFFICES ASSUME NEW k \in 0..p
                 PROVE  slots[k] \notin {Unwritten, Garbage} /\ slots[k][1] = h[k + 1]
      OBVIOUS
    <3> DEFINE e == h[k + 1]
    <3>1. e \in Token /\ slots[k] = <<e>>
      BY <2>1
    <3> HIDE DEF e
    <3>2. <<e>> # Garbage /\ <<e>> # Unwritten /\ <<e>>[1] = e
      BY <3>1, SingleName
    <3>3. slots[k][1] = e
      BY <3>1, <3>2
    <3>4. slots[k] # Unwritten /\ slots[k] # Garbage
      BY <3>1, <3>2, Zenon
    <3>5. QED
      BY <3>3, <3>4 DEF e
  <2>3. own = <<h[p + 1]>> /\ own # Garbage /\ slots[p] = own
    BY <1>2, <1>0, <2>1, <2>2, SMT DEF Entering, Embed
  <2> DEFINE r == [k \in 1..(p + 1) |-> slots[k - 1][1]]
  <2>4. \A k \in 1..(p + 1) : r[k] = h[k] /\ h[k] \in Token
    BY <2>2, <1>0, SMT
  <2>5. r \in Seq(Token) /\ Len(r) = p + 1
    <3>1. r \in [1..(p + 1) -> Token]
      BY <2>4
    <3>2. QED
      BY <3>1, <1>0, SMT
  <2>6. r = SubSeq(h, 1, p + 1)
    BY <2>4, <2>5, <1>1, SeqEqual
  <2>7. Attend(i, slots, own, p) = r
    BY <1>2, <2>2, <2>3 DEF Attend
  <2>8. QED
    BY <2>6, <2>7
<1>3. CASE i # 1
  <2>1. own = SubSeq(h, 1, p + 1)
    BY <1>3 DEF Entering
  <2>2. \A k \in 0..p : /\ slots[k] = SubSeq(h, 1, k + 1)
                        /\ slots[k] # Garbage /\ slots[k] # Unwritten
                        /\ SubSeq(own, 1, k + 1) = SubSeq(h, 1, k + 1)
    <3> SUFFICES ASSUME NEW k \in 0..p
                 PROVE  /\ slots[k] = SubSeq(h, 1, k + 1)
                        /\ slots[k] # Garbage /\ slots[k] # Unwritten
                        /\ SubSeq(own, 1, k + 1) = SubSeq(h, 1, k + 1)
      OBVIOUS
    <3>1. k + 1 \in 0..Len(h) /\ k + 1 \in 0..(p + 1) /\ k + 1 # 0
          /\ \A m \in 1..(k + 1) : h[m] \in Token
      BY <1>0, SMT
    <3>2. slots[k] = SubSeq(h, 1, k + 1)
      BY <1>3 DEF Reference
    <3>3. SubSeq(h, 1, k + 1) # Garbage /\ Len(SubSeq(h, 1, k + 1)) = k + 1
      BY <3>1, PrefixName
    <3>4. SubSeq(own, 1, k + 1) = SubSeq(h, 1, k + 1)
      BY <2>1, <3>1, <1>0, PrefixOfPrefix
    <3>5. Len(<<>>) = 0
      BY EmptySeq
    <3>6. QED
      BY <3>1, <3>2, <3>3, <3>4, <3>5 DEF Unwritten
  <2>3. QED
    BY <1>1, <1>3, <2>1, <2>2 DEF Attend
<1>4. QED
  BY <1>2, <1>3

(* A recurrence that has absorbed the tokens before absorbs the next.      *)
LEMMA RecurExact ==
  ASSUME NEW h \in Seq(Id), NEW p \in 0..(Len(h) - 1), NEW i \in Nat \ {0},
         \A k \in 1..(p + 1) : h[k] \in Token
  PROVE  Recur(i, SubSeq(h, 1, p), Entering(h, i, p)) = SubSeq(h, 1, p + 1)
<1> DEFINE mem == SubSeq(h, 1, p)
           own == Entering(h, i, p)
           all == SubSeq(h, 1, p + 1)
<1>0. Len(h) \in Nat /\ p \in Nat /\ p \in 0..Len(h) /\ p + 1 \in 0..Len(h)
      /\ (\A k \in 1..p : h[k] \in Token) /\ h[p + 1] \in Token
  BY LenProperties, SMT
<1>1. /\ all \in Seq(Token) /\ all # Garbage /\ Len(all) = p + 1
      /\ \A k \in 1..(p + 1) : all[k] = h[k]
  BY <1>0, PrefixName
<1>2. /\ mem \in Seq(Token) /\ mem # Garbage /\ Len(mem) = p
      /\ \A k \in 1..p : mem[k] = h[k]
  BY <1>0, PrefixName
<1>3. /\ Append(mem, h[p + 1]) \in Seq(Token)
      /\ Len(Append(mem, h[p + 1])) = p + 1
      /\ \A k \in 1..(p + 1) : Append(mem, h[p + 1])[k] = h[k]
  <2>1. /\ Append(mem, h[p + 1]) \in Seq(Token)
        /\ Len(Append(mem, h[p + 1])) = Len(mem) + 1
        /\ \A k \in 1..Len(mem) : Append(mem, h[p + 1])[k] = mem[k]
        /\ Append(mem, h[p + 1])[Len(mem) + 1] = h[p + 1]
    BY <1>0, <1>2, AppendProperties
  <2>2. QED
    BY <2>1, <1>0, <1>2, SMT
<1>4. Append(mem, h[p + 1]) = all
  BY <1>1, <1>3, SeqEqual
<1>5. CASE i = 1
  <2>1. own = <<h[p + 1]>> /\ own # Garbage
    BY <1>5, <1>0, SingleName DEF Entering, Embed
  <2>2. mem \o own = Append(mem, h[p + 1])
    BY <2>1, <1>0, <1>2, AppendIsConcat
  <2>3. QED
    BY <1>5, <2>1, <2>2, <1>2, <1>4 DEF Recur
<1>6. CASE i # 1
  <2>1. own = all
    BY <1>6 DEF Entering
  <2>2. own[Len(own)] = h[p + 1]
    BY <2>1, <1>1, <1>0, SMT
  <2>3. QED
    BY <1>6, <2>1, <2>2, <1>1, <1>2, <1>4 DEF Recur
<1>7. QED
  BY <1>5, <1>6

-----------------------------------------------------------------------------
(* Types.                                                                  *)

LEMMA EmbedName ==
  ASSUME NEW id \in Id
  PROVE  Embed(id) \in Name /\ (Embed(id) # Garbage <=> id \in Token)
<1>1. CASE id \in Token
  BY <1>1, SingleName, Zenon DEF Embed, Name
<1>2. CASE id \notin Token
  BY <1>2 DEF Embed, Name
<1>3. QED
  BY <1>1, <1>2

LEMMA AttendName ==
  ASSUME NEW i, NEW p \in Nat, NEW own \in Name,
         NEW slots, \A k \in 0..p : slots[k] \in Name
  PROVE  Attend(i, slots, own, p) \in Name
<1>1. CASE own = Garbage \/ \E k \in 0..p : slots[k] \in {Unwritten, Garbage}
  BY <1>1 DEF Attend, Name
<1>2. CASE ~(own = Garbage \/ \E k \in 0..p : slots[k] \in {Unwritten, Garbage})
  <2> DEFINE r == [k \in 1..(p + 1) |-> slots[k - 1][1]]
  <2>1. r \in Seq(Token)
    <3>1. ASSUME NEW k \in 1..(p + 1)
          PROVE  slots[k - 1][1] \in Token
      <4>1. k - 1 \in 0..p
        OBVIOUS
      <4>2. slots[k - 1] \in Seq(Token) /\ slots[k - 1] # <<>>
        BY <4>1, <1>2 DEF Name, Unwritten
      <4>3. QED
        BY <4>2, SMT
    <3>2. r \in [1..(p + 1) -> Token]
      BY <3>1
    <3>3. QED
      BY <3>2, SMT
  <2>2. Attend(i, slots, own, p) \in {r, own, Garbage}
    BY <1>2 DEF Attend
  <2>3. QED
    BY <2>1, <2>2 DEF Name
<1>3. QED
  BY <1>1, <1>2

LEMMA RecurName ==
  ASSUME NEW i, NEW mem \in Name, NEW own \in Name
  PROVE  Recur(i, mem, own) \in Name
<1>1. CASE Garbage \in {mem, own}
  BY <1>1 DEF Recur, Name
<1>2. CASE Garbage \notin {mem, own}
  <2>1. mem \in Seq(Token) /\ own \in Seq(Token)
    BY <1>2 DEF Name
  <2>2. mem \o own \in Seq(Token)
    BY <2>1, ConcatProperties
  <2>3. QED
    BY <1>2, <2>1, <2>2 DEF Recur, Name
<1>3. QED
  BY <1>1, <1>2

(* The part of the invariant that types and bounds a pass.                 *)
Shape == TypeOK /\ PassShape /\ Embedded /\ Served

Slot(n) == 0..(n - 1)

LEMMA ConstantFacts ==
  ASSUME model \in Models, geom \in Geometries
  PROVE  /\ model.layers \in Seq(Kind) /\ Depth \in Nat \ {0} /\ 1 \in Layers
         /\ model.path \in Path /\ model.faulty \in Nat
         /\ geom \in [Cache -> Geometry]
         /\ \A i \in Layers : i \in Nat \ {0} /\ i <= Depth /\ model.layers[i] \in Kind
         /\ \A c \in Cache : geom[c].max_seq \in Nat \ {0} /\ geom[c].dtype \in Dtype
<1>1. model \in ModelSet /\ geom \in [Cache -> Geometry]
  BY ModelsAssumption, GeometriesAssumption
<1>2. /\ model.layers \in Seq(Kind) /\ model.layers # <<>>
      /\ model.path \in Path /\ model.faulty \in Nat
  BY <1>1 DEF ModelSet
<1>3. Depth \in Nat \ {0} /\ model.layers \in [1..Depth -> Kind]
  BY <1>2, EmptySeq, LenProperties DEF Depth
<1>4. \A c \in Cache : geom[c] \in Geometry
  BY <1>1
<1>5. QED
  BY <1>1, <1>2, <1>3, <1>4, SMT DEF Layers, Geometry

LEMMA PassFacts ==
  ASSUME Shape, state = "taken"
  PROVE  /\ job.cache \in Cache /\ job.toks \in Seq(Id) /\ job.toks \in Batches
         /\ Width \in Nat \ {0} /\ t \in 1..Width /\ job.start \in Nat
         /\ Position \in Slot(geom[job.cache].max_seq)
         /\ Position = Len(seq[job.cache]) + t - 1
         /\ x \in [1..Width -> Name] /\ x[t] \in Name
         /\ layer \in Nat \ {0} /\ layer <= Depth + 1
         /\ (layer <= Depth => layer \in Layers)
<1>1. /\ job.cache \in Cache /\ job.toks \in Batches \cup {<<>>} /\ job.start \in Nat
      /\ x \in Seq(Name) /\ Len(x) = Width /\ layer \in 1..(Depth + 1)
      /\ model \in Models /\ geom \in Geometries
  BY DEF Shape, TypeOK
<1>2. /\ Width >= 1 /\ t \in 1..Width
      /\ job.start = Len(seq[job.cache])
      /\ job.start + Width <= geom[job.cache].max_seq
  BY DEF Shape, PassShape
<1>3. job.toks \in Batches
  BY <1>1, <1>2, EmptySeq DEF Width
<1>4. job.toks \in Seq(Id) /\ Width \in Nat
  BY <1>3, BatchIsSeq, LenProperties DEF Width
<1>5. Depth \in Nat /\ geom[job.cache].max_seq \in Nat
  BY <1>1, ConstantFacts
<1>6. x \in [1..Width -> Name]
  BY <1>1, <1>4, LenProperties
<1>7. QED
  BY <1>1, <1>2, <1>3, <1>4, <1>5, <1>6, SMT DEF Position, Slot, Layers

LEMMA SlotsType ==
  ASSUME Shape, state = "taken"
  PROVE  /\ Slots \in [Layers -> [Slot(geom[job.cache].max_seq) -> Name]]
         /\ OnCpu  => Slots = kv[job.cache]
         /\ ~OnCpu => Slots = gpu.slots
<1>1. job.cache \in Cache
  BY PassFacts
<1>2. CASE OnCpu
  BY <1>1, <1>2 DEF Shape, TypeOK, Slots, Slot
<1>3. CASE ~OnCpu
  BY <1>1, <1>3 DEF Shape, TypeOK, PassShape, Slots, Slot
<1>4. QED
  BY <1>2, <1>3

LEMMA BlankType ==
  ASSUME NEW g, g.max_seq \in Nat
  PROVE  Blank(g) \in [Layers -> [Slot(g.max_seq) -> Name]]
<1>1. Unwritten \in Name
  BY EmptySeq DEF Unwritten, Name
<1>2. QED
  BY <1>1 DEF Blank, Slot

-----------------------------------------------------------------------------
(* Shape is an invariant.                                                  *)

LEMMA ShapeInit == Init => Shape
<1> SUFFICES ASSUME Init PROVE Shape
  OBVIOUS
<1>0. model \in Models /\ geom \in Geometries /\ state = "present"
  BY DEF Init
<1>1. NoJob.cache \in Cache /\ NoJob.toks = <<>> /\ NoJob.start = 0
  <2>1. \E c \in Cache : TRUE
    BY CacheAssumption
  <2>2. QED
    BY <2>1 DEF NoJob
<1>2. <<>> \in Seq(Token) /\ <<>> \in Seq(Name) /\ Len(<<>>) = 0 /\ <<>> \in Name
  BY EmptySeq DEF Name
<1>3. TypeOK
  <2>1. kv = [c \in Cache |-> kv[c]]
    BY DEF Init
  <2>2. \A c \in Cache : kv[c] \in [Layers -> [0..(geom[c].max_seq - 1) -> Name]]
    BY <1>0, ConstantFacts, BlankType DEF Init, Slot
  <2>3. /\ gpu = [geom |-> gpu.geom, slots |-> gpu.slots]
        /\ gpu.geom \in {NoGpuCache.geom} \cup {geom[c] : c \in Cache}
    BY DEF Init, NoGpuCache
  <2>4. gpu.slots \in [Layers -> [0..(gpu.geom.max_seq - 1) -> Name]]
    <3>1. gpu.geom.max_seq = 0 /\ gpu.slots = [i \in Layers |-> [p \in {} |-> Unwritten]]
      BY DEF Init, NoGpuCache
    <3>2. 0..(0 - 1) = {}
      OBVIOUS
    <3>3. [p \in {} |-> Unwritten] \in [{} -> Name]
      OBVIOUS
    <3>4. QED
      BY <3>1, <3>2, <3>3
  <2>5. rec \in [Layers -> Name] /\ state \in {"present", "taken"}
    BY <1>2 DEF Init
  <2>6. /\ job.cache \in Cache /\ job.toks \in Batches \cup {<<>>} /\ job.start \in Nat
        /\ Width = 0
    BY <1>1, <1>2 DEF Init, Width
  <2>7. layer \in 1..(Depth + 1) /\ t \in Nat \ {0} /\ (state = "taken" => t <= Width)
    BY <1>0, ConstantFacts DEF Init
  <2>8. x \in Seq(Name) /\ Len(x) = Width
    BY <1>2, <2>6 DEF Init
  <2>9. logits \in [Cache -> Name] /\ seq \in [Cache -> Seq(Token)]
    BY <1>2 DEF Init, NoLogits
  <2>10. calls \in 0..MaxCalls /\ users \subseteq Cache /\ linear \in BOOLEAN
    BY BoundsAssumption DEF Init
  <2>11. QED
    BY <1>0, <2>1, <2>2, <2>3, <2>4, <2>5, <2>6, <2>7, <2>8, <2>9, <2>10 DEF TypeOK
<1>4. PassShape /\ Embedded
  BY <1>0 DEF PassShape, Embedded
<1>5. Served
  BY <1>0, <1>2, ConstantFacts DEF Served, Init
<1>6. QED
  BY <1>3, <1>4, <1>5 DEF Shape

(* What a step leaves alone, for the definitions built on it.              *)
LEMMA SameModel ==
  ASSUME UNCHANGED model
  PROVE  Depth' = Depth /\ Layers' = Layers /\ OnCpu' = OnCpu
BY DEF Depth, Layers, OnCpu

LEMMA PlacedPrefix ==
  ASSUME NEW h \in Seq(Token), NEW n \in 0..Len(h)
  PROVE  SubSeq(h, 1, n) \in Seq(Token) /\ Len(SubSeq(h, 1, n)) = n
<1>1. h \in Seq(Id)
  BY SeqMonotonic DEF Id
<1>2. \A k \in 1..n : h[k] \in Token
  BY LenProperties, SMT
<1>3. QED
  BY <1>1, <1>2, PrefixName

LEMMA ShapeBegin ==
  ASSUME Shape, NEW c \in Cache, NEW toks \in Batches, NEW start \in 0..Len(seq[c]),
         Begin(c, toks, start)
  PROVE  Shape'
<1>0. /\ model \in Models /\ geom \in Geometries /\ seq \in [Cache -> Seq(Token)]
      /\ logits \in [Cache -> Name] /\ users \subseteq Cache
      /\ calls \in 0..MaxCalls /\ linear \in BOOLEAN
  BY DEF Shape, TypeOK
<1>1. UNCHANGED <<model, geom, kv, rec>>
  BY DEF Begin
<1>2. Depth' = Depth /\ Layers' = Layers /\ OnCpu' = OnCpu
  BY <1>1, SameModel
<1>3. toks \in Seq(Id) /\ Len(toks) \in Nat \ {0}
  BY BatchIsSeq, BoundsAssumption
<1>4. start \in Nat /\ start <= Len(seq[c])
  <2>1. seq[c] \in Seq(Token)
    BY <1>0
  <2>2. QED
    BY <2>1, LenProperties
<1>5. /\ state' = "taken" /\ job' = [cache |-> c, toks |-> toks, start |-> start]
      /\ layer' = 1 /\ t' = 1 /\ x' = [k \in 1..Len(toks) |-> Embed(toks[k])]
      /\ start + Len(toks) <= geom[c].max_seq
      /\ Width' = Len(toks)
  BY DEF Begin, Width
<1>6. /\ seq' = [seq EXCEPT ![c] = SubSeq(seq[c], 1, start)]
      /\ SubSeq(seq[c], 1, start) \in Seq(Token)
      /\ Len(SubSeq(seq[c], 1, start)) = start
  BY <1>0, PlacedPrefix DEF Begin
<1>7. /\ logits' = [logits EXCEPT ![c] = NoLogits] /\ users' = users \cup {c}
      /\ calls' = calls + 1 /\ calls < MaxCalls
      /\ linear' = (linear /\ start = Len(seq[c]))
  BY DEF Begin
<1>8. NoLogits \in Name
  BY EmptySeq DEF NoLogits, Name
<1>9. /\ gpu' = [geom |-> gpu'.geom, slots |-> gpu'.slots]
      /\ gpu'.geom \in {NoGpuCache.geom} \cup {geom[d] : d \in Cache}
      /\ gpu'.slots \in [Layers -> [0..(gpu'.geom.max_seq - 1) -> Name]]
      /\ ~OnCpu => gpu'.geom = geom[c]
  <2>1. /\ gpu = [geom |-> gpu.geom, slots |-> gpu.slots]
        /\ gpu.geom \in {NoGpuCache.geom} \cup {geom[d] : d \in Cache}
        /\ gpu.slots \in [Layers -> [0..(gpu.geom.max_seq - 1) -> Name]]
    BY DEF Shape, TypeOK
  <2>2. CASE OnCpu \/ gpu.geom = geom[c]
    BY <2>1, <2>2 DEF Begin, EnsureGpuKvCache
  <2>3. CASE ~OnCpu /\ gpu.geom # geom[c]
    <3>1. gpu' = [geom |-> geom[c], slots |-> Blank(geom[c])]
      BY <2>3 DEF Begin, EnsureGpuKvCache
    <3>2. Blank(geom[c]) \in [Layers -> [0..(geom[c].max_seq - 1) -> Name]]
      BY <1>0, ConstantFacts, BlankType DEF Slot
    <3>3. QED
      BY <3>1, <3>2
  <2>4. QED
    BY <2>2, <2>3
<1>10. TypeOK'
  <2>1. x' \in Seq(Name) /\ Len(x') = Width'
    <3>1. \A k \in 1..Len(toks) : toks[k] \in Id
      BY <1>3
    <3>2. x' \in [1..Len(toks) -> Name]
      BY <1>5, <3>1, EmbedName
    <3>3. QED
      BY <1>3, <1>5, <3>2, SMT
  <2>2. job'.cache \in Cache /\ job'.toks \in Batches \cup {<<>>} /\ job'.start \in Nat
    BY <1>4, <1>5
  <2>3. layer' \in 1..(Depth + 1) /\ t' \in Nat \ {0} /\ (state' = "taken" => t' <= Width')
    BY <1>0, <1>3, <1>5, ConstantFacts
  <2>4. logits' \in [Cache -> Name] /\ seq' \in [Cache -> Seq(Token)]
    BY <1>0, <1>6, <1>7, <1>8
  <2>5. calls' \in 0..MaxCalls /\ users' \subseteq Cache /\ linear' \in BOOLEAN
    BY <1>0, <1>7, BoundsAssumption
  <2>6. /\ kv' = [d \in Cache |-> kv'[d]] /\ rec' \in [Layers -> Name]
        /\ \A d \in Cache : kv'[d] \in [Layers -> [0..(geom[d].max_seq - 1) -> Name]]
        /\ model' = model /\ geom' = geom
    BY <1>1 DEF Shape, TypeOK
  <2>7. /\ model' \in Models /\ geom' \in Geometries /\ state' \in {"present", "taken"}
        /\ NoGpuCache'.geom = NoGpuCache.geom
    BY <1>0, <1>5, <2>6 DEF NoGpuCache
  <2>8. /\ gpu'.geom \in {NoGpuCache'.geom} \cup {geom'[d] : d \in Cache}
        /\ gpu'.slots \in [Layers' -> [0..(gpu'.geom.max_seq - 1) -> Name]]
        /\ \A d \in Cache : kv'[d] \in [Layers' -> [0..(geom'[d].max_seq - 1) -> Name]]
    BY <1>2, <1>9, <2>6, <2>7, Zenon
  <2>9. QED
    BY <1>2, <1>9, <2>1, <2>2, <2>3, <2>4, <2>5, <2>6, <2>7, <2>8, Zenon DEF TypeOK
<1>11. PassShape'
  <2>1. ~(layer' > Depth)
    BY <1>0, <1>5, ConstantFacts
  <2>2. seq'[c] = SubSeq(seq[c], 1, start) /\ logits'[c] = NoLogits
    BY <1>0, <1>6, <1>7
  <2>3. QED
    BY <1>1, <1>2, <1>3, <1>5, <1>6, <1>7, <1>9, <2>1, <2>2 DEF PassShape
<1>12. Embedded'
  BY <1>2, <1>5 DEF Embedded
<1>13. Served'
  <2> SUFFICES ASSUME NEW d \in Cache
               PROVE  /\ d \notin users' => seq'[d] = <<>> /\ logits'[d] = NoLogits
                      /\ Len(seq'[d]) <= geom[d].max_seq
                      /\ ~OnCpu /\ users' = {d} => gpu'.geom = geom[d]
    BY <1>1, <1>2 DEF Served
  <2>1. /\ d \notin users => seq[d] = <<>> /\ logits[d] = NoLogits
        /\ Len(seq[d]) <= geom[d].max_seq
    BY DEF Shape, Served
  <2>2. d \notin users' => seq'[d] = <<>> /\ logits'[d] = NoLogits
    BY <2>1, <1>0, <1>6, <1>7
  <2>3. Len(seq'[d]) <= geom[d].max_seq
    <3>1. CASE d = c
      <4>1. Len(seq'[d]) = start
        BY <3>1, <1>0, <1>6
      <4>2. geom[c].max_seq \in Nat
        BY <1>0, ConstantFacts
      <4>3. QED
        BY <3>1, <4>1, <4>2, <1>3, <1>4, <1>5
    <3>2. CASE d # c
      BY <3>2, <2>1, <1>0, <1>6
    <3>3. QED
      BY <3>1, <3>2
  <2>4. ~OnCpu /\ users' = {d} => gpu'.geom = geom[d]
    <3>1. users' = {d} => c = d
      BY <1>7
    <3>2. QED
      BY <3>1, <1>9
  <2>5. QED
    BY <2>2, <2>3, <2>4
<1>14. QED
  BY <1>10, <1>11, <1>12, <1>13 DEF Shape

(* Every token of the positions that have left layer 1 has an embedding.   *)
LEMMA CursorMoves ==
  ASSUME Shape, Mixing, Advance, UNCHANGED <<model, job>>
  PROVE  /\ layer' \in 1..(Depth + 1) /\ t' \in 1..Width
         /\ layer' > Depth => t' = IF OnCpu THEN 1 ELSE Width
         /\ \A k \in 1..Width :
              (IF OnCpu THEN layer' > 1 \/ t' > 1 ELSE k < t' \/ (k = t' /\ layer' > 1))
              => job.toks[k] \in Token
<1>0. /\ state = "taken" /\ layer <= Depth /\ ~EmbedErr
      /\ Width \in Nat \ {0} /\ t \in 1..Width /\ layer \in Nat \ {0} /\ Depth \in Nat
      /\ job.toks \in Seq(Id)
  BY PassFacts, ConstantFacts DEF Mixing, Shape, TypeOK
<1>1. \A k \in 1..Width : job.toks[k] # Invalid => job.toks[k] \in Token
  BY <1>0, LenProperties DEF Id, Width
<1>2. \A k \in 1..Width :
        (IF OnCpu THEN layer > 1 \/ t > 1 ELSE k < t \/ (k = t /\ layer > 1))
        => job.toks[k] \in Token
  BY <1>0 DEF Shape, Embedded
<1>3. CASE OnCpu
  <2>1. AdvanceBatch
    BY <1>3 DEF Advance
  <2>2. \A k \in 1..Width : job.toks[k] \in Token
    BY <1>0, <1>1, <1>2, <1>3, SMT DEF EmbedErr
  <2>3. QED
    BY <1>0, <1>3, <2>1, <2>2, SMT DEF AdvanceBatch
<1>4. CASE ~OnCpu
  <2>1. AdvanceResident
    BY <1>4 DEF Advance
  <2>2. job.toks[t] \in Token
    BY <1>0, <1>1, <1>2, <1>4, SMT DEF EmbedErr
  <2>3. \A k \in 1..Width : k <= t => job.toks[k] \in Token
    BY <1>0, <1>2, <1>4, <2>2, SMT
  <2>4. QED
    BY <1>0, <1>4, <2>1, <2>3, SMT DEF AdvanceResident
<1>5. QED
  BY <1>3, <1>4

LEMMA ShapeMixing ==
  ASSUME Shape, Mixing, Advance,
         UNCHANGED <<model, geom, state, job, logits, seq, calls, users, linear>>,
         kv' = [c \in Cache |-> kv'[c]],
         \A c \in Cache : kv'[c] \in [Layers -> [Slot(geom[c].max_seq) -> Name]],
         gpu' = [geom |-> gpu.geom, slots |-> gpu'.slots],
         gpu'.slots \in [Layers -> [Slot(gpu.geom.max_seq) -> Name]],
         rec' \in [Layers -> Name],
         x' \in [1..Width -> Name]
  PROVE  Shape'
<1>0. /\ model' = model /\ geom' = geom /\ state' = state /\ job' = job
      /\ logits' = logits /\ seq' = seq /\ calls' = calls /\ users' = users
      /\ linear' = linear /\ Width' = Width /\ gpu'.geom = gpu.geom
      /\ Depth' = Depth /\ Layers' = Layers /\ OnCpu' = OnCpu
      /\ NoGpuCache'.geom = NoGpuCache.geom
  BY SameModel DEF Width, NoGpuCache
<1>1. /\ state = "taken" /\ Width \in Nat \ {0}
  BY PassFacts DEF Mixing
<1>2. /\ layer' \in 1..(Depth + 1) /\ t' \in 1..Width
      /\ layer' > Depth => t' = IF OnCpu THEN 1 ELSE Width
      /\ \A k \in 1..Width :
           (IF OnCpu THEN layer' > 1 \/ t' > 1 ELSE k < t' \/ (k = t' /\ layer' > 1))
           => job.toks[k] \in Token
  BY CursorMoves
<1>3. TypeOK'
  <2>1. x' \in Seq(Name) /\ Len(x') = Width'
    BY <1>0, <1>1, SMT
  <2>2. t' \in Nat \ {0} /\ (state' = "taken" => t' <= Width')
    BY <1>0, <1>1, <1>2, SMT
  <2>3. /\ gpu' = [geom |-> gpu'.geom, slots |-> gpu'.slots]
        /\ gpu'.geom \in {NoGpuCache'.geom} \cup {geom'[d] : d \in Cache}
    BY <1>0, Zenon DEF Shape, TypeOK
  <2>4. /\ gpu'.slots \in [Layers' -> [0..(gpu'.geom.max_seq - 1) -> Name]]
        /\ \A c \in Cache : kv'[c] \in [Layers' -> [0..(geom'[c].max_seq - 1) -> Name]]
        /\ rec' \in [Layers' -> Name]
        /\ layer' \in 1..(Depth' + 1)
    BY <1>0, <1>2, Zenon DEF Slot
  <2>5. /\ model' \in Models /\ geom' \in Geometries /\ state' \in {"present", "taken"}
        /\ job'.cache \in Cache /\ job'.toks \in Batches \cup {<<>>} /\ job'.start \in Nat
        /\ logits' \in [Cache -> Name] /\ seq' \in [Cache -> Seq(Token)]
        /\ calls' \in 0..MaxCalls /\ users' \subseteq Cache /\ linear' \in BOOLEAN
    BY <1>0, Zenon DEF Shape, TypeOK
  <2>6. QED
    BY <2>1, <2>2, <2>3, <2>4, <2>5, Zenon DEF TypeOK
<1>4. PassShape'
  BY <1>0, <1>1, <1>2 DEF Shape, PassShape
<1>5. Embedded'
  BY <1>0, <1>2, Zenon DEF Embedded
<1>6. Served'
  BY <1>0, Zenon DEF Shape, Served
<1>7. QED
  BY <1>3, <1>4, <1>5, <1>6 DEF Shape

LEMMA ShapeAttention == Shape /\ AttentionLayer => Shape'
<1> SUFFICES ASSUME Shape, AttentionLayer PROVE Shape'
  OBVIOUS
<1> DEFINE written == [Slots EXCEPT ![layer][Position] = x[t]]
           M == Slot(geom[job.cache].max_seq)
<1>0. /\ Mixing /\ Advance /\ state = "taken"
      /\ UNCHANGED <<model, geom, rec, state, job, logits, seq, calls, users, linear>>
      /\ x' = [x EXCEPT ![t] = Attend(layer, written[layer], x[t], Position)]
      /\ IF OnCpu THEN kv' = [kv EXCEPT ![job.cache] = written] /\ UNCHANGED gpu
                  ELSE gpu' = [gpu EXCEPT !.slots = written] /\ UNCHANGED kv
  BY DEF AttentionLayer, Mixing
<1>1. /\ job.cache \in Cache /\ Position \in M /\ x[t] \in Name
      /\ x \in [1..Width -> Name] /\ layer \in Layers
  BY <1>0, PassFacts DEF Mixing
<1>2. Slots \in [Layers -> [M -> Name]]
  BY <1>0, SlotsType
<1> HIDE DEF M
<1>3. written \in [Layers -> [M -> Name]]
  BY <1>1, <1>2
<1>4. Attend(layer, written[layer], x[t], Position) \in Name
  <2>1. Position \in Nat /\ \A k \in 0..Position : k \in M
    <3>1. geom[job.cache].max_seq \in Nat
      BY <1>1, ConstantFacts DEF Shape, TypeOK
    <3>2. QED
      BY <1>1, <3>1, SMT DEF M, Slot
  <2>2. \A k \in 0..Position : written[layer][k] \in Name
    BY <1>1, <1>3, <2>1
  <2>3. QED
    BY <1>1, <2>1, <2>2, AttendName
<1>5. x' \in [1..Width -> Name]
  BY <1>0, <1>1, <1>4
<1>6. rec' \in [Layers -> Name]
  BY <1>0 DEF Shape, TypeOK
<1>7. /\ kv = [c \in Cache |-> kv[c]]
      /\ \A c \in Cache : kv[c] \in [Layers -> [Slot(geom[c].max_seq) -> Name]]
      /\ gpu = [geom |-> gpu.geom, slots |-> gpu.slots]
      /\ gpu.slots \in [Layers -> [Slot(gpu.geom.max_seq) -> Name]]
  BY DEF Shape, TypeOK, Slot
<1> HIDE DEF written
<1>8. CASE OnCpu
  <2>1. /\ kv' = [c \in Cache |-> kv'[c]]
        /\ \A c \in Cache : kv'[c] = IF c = job.cache THEN written ELSE kv[c]
    BY <1>0, <1>1, <1>7, <1>8
  <2>2. \A c \in Cache : kv'[c] \in [Layers -> [Slot(geom[c].max_seq) -> Name]]
    BY <1>3, <1>7, <2>1 DEF M
  <2>3. gpu' = gpu
    BY <1>0, <1>8
  <2>4. QED
    BY <1>0, <1>5, <1>6, <1>7, <2>1, <2>2, <2>3, ShapeMixing
<1>9. CASE ~OnCpu
  <2>1. gpu' = [geom |-> gpu.geom, slots |-> written] /\ kv' = kv
    BY <1>0, <1>7, <1>9
  <2>2. M = Slot(gpu.geom.max_seq)
    BY <1>0, <1>9 DEF M, Shape, PassShape
  <2>3. gpu' = [geom |-> gpu.geom, slots |-> gpu'.slots] /\ gpu'.slots = written
    BY <2>1
  <2>4. QED
    BY <1>0, <1>3, <1>5, <1>6, <1>7, <2>1, <2>2, <2>3, ShapeMixing
<1>10. QED
  BY <1>8, <1>9

LEMMA ShapeRecurrent == Shape /\ RecurrentLayer => Shape'
<1> SUFFICES ASSUME Shape, RecurrentLayer PROVE Shape'
  OBVIOUS
<1>0. /\ Mixing /\ Advance /\ state = "taken"
      /\ UNCHANGED <<model, geom, kv, gpu, state, job, logits, seq, calls, users, linear>>
      /\ rec' = [rec EXCEPT ![layer] = Recur(layer, rec[layer], x[t])]
      /\ x' = [x EXCEPT ![t] = rec'[layer]]
  BY DEF RecurrentLayer, Mixing
<1>1. x[t] \in Name /\ x \in [1..Width -> Name] /\ layer \in Layers
  BY <1>0, PassFacts DEF Mixing
<1>2. rec \in [Layers -> Name]
  BY DEF Shape, TypeOK
<1>3. Recur(layer, rec[layer], x[t]) \in Name
  BY <1>1, <1>2, RecurName
<1>4. rec' \in [Layers -> Name] /\ x' \in [1..Width -> Name]
  BY <1>0, <1>1, <1>2, <1>3
<1>5. /\ kv' = [c \in Cache |-> kv'[c]]
      /\ \A c \in Cache : kv'[c] \in [Layers -> [Slot(geom[c].max_seq) -> Name]]
      /\ gpu' = [geom |-> gpu.geom, slots |-> gpu'.slots]
      /\ gpu'.slots \in [Layers -> [Slot(gpu.geom.max_seq) -> Name]]
  BY <1>0 DEF Shape, TypeOK, Slot
<1>6. QED
  BY <1>0, <1>4, <1>5, ShapeMixing

LEMMA ShapeEndPass ==
  ASSUME Shape, EndPass, UNCHANGED <<model, geom, kv, gpu, rec, calls, users>>,
         linear' \in BOOLEAN,
         logits' \in [Cache -> Name], seq' \in [Cache -> Seq(Token)],
         \A c \in Cache : /\ c \notin users => seq'[c] = <<>> /\ logits'[c] = NoLogits
                          /\ Len(seq'[c]) <= geom[c].max_seq
  PROVE  Shape'
<1>0. /\ model' = model /\ geom' = geom /\ kv' = kv /\ gpu' = gpu /\ rec' = rec
      /\ calls' = calls /\ users' = users
      /\ Depth' = Depth /\ Layers' = Layers /\ OnCpu' = OnCpu
      /\ NoGpuCache'.geom = NoGpuCache.geom
  BY SameModel DEF NoGpuCache
<1>1. /\ state' = "present" /\ job' = NoJob /\ layer' = 1 /\ t' = 1 /\ x' = <<>>
      /\ <<>> \in Seq(Name) /\ Len(<<>>) = 0
  BY EmptySeq DEF EndPass
<1>2. NoJob.cache \in Cache /\ NoJob.toks = <<>> /\ NoJob.start = 0
  <2>1. \E c \in Cache : TRUE
    BY CacheAssumption
  <2>2. QED
    BY <2>1 DEF NoJob
<1>3. TypeOK'
  <2>1. x' \in Seq(Name) /\ Len(x') = Width'
    BY <1>1, <1>2 DEF Width
  <2>2. layer' \in 1..(Depth' + 1)
    BY <1>0, <1>1, ConstantFacts DEF Shape, TypeOK
  <2>3. t' \in Nat \ {0} /\ (state' = "taken" => t' <= Width') /\ state' \in {"present", "taken"}
    BY <1>1
  <2>4. /\ model' \in Models /\ geom' \in Geometries
        /\ kv' = [c \in Cache |-> kv'[c]]
        /\ \A c \in Cache : kv'[c] \in [Layers' -> [0..(geom'[c].max_seq - 1) -> Name]]
        /\ gpu' = [geom |-> gpu'.geom, slots |-> gpu'.slots]
        /\ gpu'.geom \in {NoGpuCache'.geom} \cup {geom'[c] : c \in Cache}
        /\ gpu'.slots \in [Layers' -> [0..(gpu'.geom.max_seq - 1) -> Name]]
        /\ rec' \in [Layers' -> Name]
        /\ calls' \in 0..MaxCalls /\ users' \subseteq Cache
    BY <1>0, Zenon DEF Shape, TypeOK
  <2>5. job'.cache \in Cache /\ job'.toks \in Batches \cup {<<>>} /\ job'.start \in Nat
    BY <1>1, <1>2
  <2>6. QED
    BY <2>1, <2>2, <2>3, <2>4, <2>5, Zenon DEF TypeOK
<1>4. PassShape' /\ Embedded'
  BY <1>1 DEF PassShape, Embedded
<1>5. Served'
  BY <1>0, Zenon DEF Shape, Served
<1>6. QED
  BY <1>3, <1>4, <1>5 DEF Shape

(* A pass that ends with logits has embedded all its tokens.               *)
LEMMA AllEmbedded ==
  ASSUME Shape, state = "taken", layer > Depth
  PROVE  job.toks \in Seq(Token)
<1>1. /\ Width \in Nat \ {0} /\ job.toks \in Seq(Id) /\ layer \in Nat /\ Depth \in Nat \ {0}
      /\ (~OnCpu => t = Width)
  BY PassFacts, ConstantFacts DEF Shape, TypeOK, PassShape
<1>2. \A k \in 1..Width : job.toks[k] \in Token
  BY <1>1, SMT DEF Shape, Embedded
<1>3. job.toks \in [1..Width -> Token]
  BY <1>1, <1>2, LenProperties DEF Width
<1>4. QED
  BY <1>1, <1>3, SMT

LEMMA ShapeFinish == Shape /\ Finish => Shape'
<1> SUFFICES ASSUME Shape, Finish PROVE Shape'
  OBVIOUS
<1>0. /\ state = "taken" /\ layer > Depth /\ EndPass
      /\ logits' = [logits EXCEPT ![job.cache] = x[Width]]
      /\ seq' = [seq EXCEPT ![job.cache] = seq[job.cache] \o job.toks]
      /\ UNCHANGED <<model, geom, kv, gpu, rec, calls, users, linear>>
  BY DEF Finish
<1>1. /\ job.cache \in Cache /\ x \in [1..Width -> Name] /\ Width \in Nat \ {0}
      /\ logits \in [Cache -> Name] /\ seq \in [Cache -> Seq(Token)]
      /\ linear \in BOOLEAN /\ job.cache \in users
      /\ Len(seq[job.cache]) + Width <= geom[job.cache].max_seq
  BY <1>0, PassFacts DEF Shape, TypeOK, PassShape
<1>2. job.toks \in Seq(Token) /\ Len(job.toks) = Width
  BY <1>0, AllEmbedded DEF Width
<1>3. /\ seq[job.cache] \o job.toks \in Seq(Token)
      /\ Len(seq[job.cache] \o job.toks) = Len(seq[job.cache]) + Width
  <2>1. seq[job.cache] \in Seq(Token)
    BY <1>1
  <2>2. QED
    BY <1>2, <2>1, ConcatProperties
<1>4. logits' \in [Cache -> Name] /\ seq' \in [Cache -> Seq(Token)]
  BY <1>0, <1>1, <1>3
<1>5. ASSUME NEW c \in Cache
      PROVE  /\ c \notin users => seq'[c] = <<>> /\ logits'[c] = NoLogits
             /\ Len(seq'[c]) <= geom[c].max_seq
  <2>1. /\ c \notin users => seq[c] = <<>> /\ logits[c] = NoLogits
        /\ Len(seq[c]) <= geom[c].max_seq
    BY DEF Shape, Served
  <2>2. CASE c = job.cache
    BY <2>2, <1>0, <1>1, <1>3
  <2>3. CASE c # job.cache
    BY <2>1, <2>3, <1>0, <1>1
  <2>4. QED
    BY <2>2, <2>3
<1>6. linear' \in BOOLEAN
  BY <1>0, <1>1
<1>7. QED
  BY <1>0, <1>4, <1>5, <1>6, ShapeEndPass

LEMMA ShapeFail == Shape /\ (FailEmbedding \/ FailWeights) => Shape'
<1> SUFFICES ASSUME Shape, FailEmbedding \/ FailWeights PROVE Shape'
  OBVIOUS
<1>1. EndPass /\ UNCHANGED <<model, geom, kv, gpu, rec, logits, seq, calls, users>>
  BY DEF FailEmbedding, FailWeights, Fail
<1>2. linear' \in BOOLEAN
  BY DEF FailEmbedding, FailWeights, Shape, TypeOK
<1>3. /\ logits' \in [Cache -> Name] /\ seq' \in [Cache -> Seq(Token)]
      /\ \A c \in Cache : /\ c \notin users => seq'[c] = <<>> /\ logits'[c] = NoLogits
                          /\ Len(seq'[c]) <= geom[c].max_seq
  BY <1>1 DEF Shape, TypeOK, Served
<1>4. QED
  BY <1>1, <1>2, <1>3, ShapeEndPass

LEMMA ShapeStep == Shape /\ [Next]_vars => Shape'
<1> SUFFICES ASSUME Shape, [Next]_vars PROVE Shape'
  OBVIOUS
<1>1. CASE Call
  BY <1>1, ShapeBegin DEF Call
<1>2. CASE AttentionLayer
  BY <1>2, ShapeAttention
<1>3. CASE RecurrentLayer
  BY <1>3, ShapeRecurrent
<1>4. CASE Finish
  BY <1>4, ShapeFinish
<1>5. CASE FailEmbedding \/ FailWeights
  BY <1>5, ShapeFail
<1>6. CASE UNCHANGED vars
  <2>1. /\ model' = model /\ geom' = geom /\ kv' = kv /\ gpu' = gpu /\ rec' = rec
        /\ state' = state /\ job' = job /\ layer' = layer /\ t' = t /\ x' = x
        /\ logits' = logits /\ seq' = seq /\ calls' = calls /\ users' = users
        /\ linear' = linear
    BY <1>6 DEF vars
  <2>2. /\ Width' = Width /\ Depth' = Depth /\ Layers' = Layers /\ OnCpu' = OnCpu
        /\ NoGpuCache'.geom = NoGpuCache.geom
    BY <2>1 DEF Width, Depth, Layers, OnCpu, NoGpuCache
  <2>3. TypeOK'
    BY <2>1, <2>2, Zenon DEF Shape, TypeOK
  <2>4. PassShape' /\ Embedded' /\ Served'
    BY <2>1, <2>2, Zenon DEF Shape, PassShape, Embedded, Served
  <2>5. QED
    BY <2>3, <2>4 DEF Shape
<1>7. QED
  BY <1>1, <1>2, <1>3, <1>4, <1>5, <1>6 DEF Next, Step

(* The type invariant, for every model, cache geometry and batch size: in  *)
(* particular the position a layer writes is always inside the cache, and  *)
(* the cursor inside the batch and the stack.                              *)
THEOREM TypeCorrect == Spec => []TypeOK
<1>1. Shape => TypeOK
  BY DEF Shape
<1>2. QED
  BY ShapeInit, ShapeStep, <1>1, PTL DEF Spec

-----------------------------------------------------------------------------
(* LogitsExact and CachedPrefixExact: IInv is inductive.                  *)

Exact == Fresh /\ CachedPrefixExact /\ InFlight /\ AtRest /\ LogitsExact

-----------------------------------------------------------------------------
(* The history of the running pass.                                        *)

LEMMA HistoryFacts ==
  ASSUME Shape, state = "taken"
  PROVE  /\ seq[job.cache] \in Seq(Token) /\ Len(seq[job.cache]) = job.start
         /\ History \in Seq(Id) /\ Len(History) = job.start + Width
         /\ \A k \in 1..job.start : History[k] = seq[job.cache][k] /\ History[k] \in Token
         /\ \A k \in 1..Width : History[job.start + k] = job.toks[k]
<1> DEFINE h == seq[job.cache]
<1>1. h \in Seq(Token) /\ Len(h) = job.start
  BY PassFacts DEF Shape, TypeOK, PassShape
<1>2. h \in Seq(Id)
  BY <1>1, SeqMonotonic DEF Id
<1>3. job.toks \in Seq(Id) /\ Len(job.toks) = Width /\ Width \in Nat /\ job.start \in Nat
  BY PassFacts DEF Width
<1> HIDE DEF h
<1>4. /\ h \o job.toks \in Seq(Id) /\ Len(h \o job.toks) = job.start + Width
      /\ \A k \in 1..(job.start + Width) :
           (h \o job.toks)[k] = IF k <= job.start THEN h[k] ELSE job.toks[k - job.start]
  <2>1. /\ h \o job.toks \in Seq(Id)
        /\ Len(h \o job.toks) = Len(h) + Len(job.toks)
        /\ \A k \in 1..(Len(h) + Len(job.toks)) :
             (h \o job.toks)[k] = IF k <= Len(h) THEN h[k] ELSE job.toks[k - Len(h)]
    BY <1>2, <1>3, ConcatProperties, Zenon
  <2>2. QED
    BY <2>1, <1>1, <1>3
<1>5. \A k \in 1..job.start : (h \o job.toks)[k] = h[k] /\ h[k] \in Token
  <2>1. \A k \in 1..job.start : h[k] \in Token
    BY <1>1, LenProperties
  <2>2. QED
    BY <1>3, <1>4, <2>1, SMT
<1>6. ASSUME NEW k \in 1..Width
      PROVE  (h \o job.toks)[job.start + k] = job.toks[k]
  <2> DEFINE n == job.start
             j == job.start + k
  <2>1. n \in Nat /\ Width \in Nat /\ k \in 1..Width /\ j = n + k
    BY <1>3
  <2> HIDE DEF n, j
  <2>2. j \in 1..(n + Width) /\ ~(j <= n) /\ j - n = k
    BY <2>1, SMT
  <2>3. (h \o job.toks)[j] = job.toks[j - n]
    BY <1>4, <2>2 DEF n
  <2>4. QED
    BY <2>2, <2>3 DEF j
<1>7. QED
  BY <1>1, <1>4, <1>5, <1>6 DEF History, h

(* What was placed before the pass is a prefix of its history.             *)
LEMMA PlacedBefore ==
  ASSUME Shape, state = "taken", NEW p \in 0..(job.start - 1), NEW i \in Layers
  PROVE  Reference(seq[job.cache], i, p) = Reference(History, i, p)
<1> DEFINE h == seq[job.cache]
<1>1. /\ h \in Seq(Token) /\ Len(h) = job.start /\ job.start \in Nat
      /\ History \in Seq(Id) /\ Len(History) = job.start + Width /\ Width \in Nat
      /\ \A k \in 1..job.start : History[k] = h[k] /\ History[k] \in Token
  BY HistoryFacts, PassFacts
<1> HIDE DEF h
<1>2. p + 1 \in 1..job.start /\ p + 1 \in 0..Len(h) /\ p + 1 \in 0..Len(History)
  BY <1>1, SMT
<1>3. History[p + 1] = h[p + 1]
  BY <1>1, <1>2
<1>4. h \in Seq(Id) /\ \A k \in 1..(p + 1) : /\ h[k] \in Token /\ History[k] \in Token
                                            /\ h[k] = History[k]
  BY <1>1, SeqMonotonic, SMT DEF Id
<1>5. /\ SubSeq(h, 1, p + 1) \in Seq(Token) /\ Len(SubSeq(h, 1, p + 1)) = p + 1
      /\ \A k \in 1..(p + 1) : SubSeq(h, 1, p + 1)[k] = h[k]
  BY <1>2, <1>4, PrefixName
<1>6. /\ SubSeq(History, 1, p + 1) \in Seq(Token) /\ Len(SubSeq(History, 1, p + 1)) = p + 1
      /\ \A k \in 1..(p + 1) : SubSeq(History, 1, p + 1)[k] = History[k]
  BY <1>1, <1>2, <1>4, PrefixName
<1>7. SubSeq(h, 1, p + 1) = SubSeq(History, 1, p + 1)
  BY <1>4, <1>5, <1>6, SeqEqual
<1>8. QED
  BY <1>3, <1>7, Zenon DEF Reference, h

(* At the start of a pass nothing but what was placed has been absorbed.   *)
LEMMA HistoryPrefix ==
  ASSUME Shape, state = "taken"
  PROVE  SubSeq(History, 1, job.start) = seq[job.cache]
<1> DEFINE h == seq[job.cache]
<1>1. /\ h \in Seq(Token) /\ Len(h) = job.start /\ job.start \in Nat
      /\ History \in Seq(Id) /\ Len(History) = job.start + Width /\ Width \in Nat
      /\ \A k \in 1..job.start : History[k] = h[k] /\ History[k] \in Token
  BY HistoryFacts, PassFacts
<1> HIDE DEF h
<1>2. job.start \in 0..Len(History)
  BY <1>1
<1>3. /\ SubSeq(History, 1, job.start) \in Seq(Token)
      /\ Len(SubSeq(History, 1, job.start)) = job.start
      /\ \A k \in 1..job.start : SubSeq(History, 1, job.start)[k] = History[k]
  BY <1>1, <1>2, PrefixName
<1>4. QED
  BY <1>1, <1>3, SeqEqual DEF h

(* The tokens the position under way attends to all have an embedding.     *)
LEMMA EmbeddedSoFar ==
  ASSUME Shape, Mixing
  PROVE  /\ state = "taken" /\ job.toks[t] \in Token
         /\ \A k \in 1..(Position + 1) : History[k] \in Token
         /\ Position = job.start + t - 1 /\ Position \in 0..(Len(History) - 1)
         /\ History[Position + 1] = job.toks[t]
<1>1. /\ state = "taken" /\ layer <= Depth /\ ~EmbedErr
      /\ Width \in Nat \ {0} /\ t \in 1..Width /\ layer \in Nat \ {0} /\ Depth \in Nat
      /\ job.toks \in Seq(Id) /\ job.start \in Nat
  BY PassFacts, ConstantFacts DEF Mixing, Shape, TypeOK
<1>2. /\ Len(History) = job.start + Width
      /\ \A k \in 1..job.start : History[k] \in Token
      /\ \A k \in 1..Width : History[job.start + k] = job.toks[k]
  BY <1>1, HistoryFacts
<1>3. \A k \in 1..Width : job.toks[k] # Invalid => job.toks[k] \in Token
  BY <1>1, LenProperties DEF Id, Width
<1>4. \A k \in 1..Width : k <= t => job.toks[k] \in Token
  <2>1. \A k \in 1..Width :
          (IF OnCpu THEN layer > 1 \/ t > 1 ELSE k < t \/ (k = t /\ layer > 1))
          => job.toks[k] \in Token
    BY <1>1 DEF Shape, Embedded
  <2>2. CASE OnCpu
    BY <1>1, <1>3, <2>1, <2>2, SMT DEF EmbedErr
  <2>3. CASE ~OnCpu
    <3>1. job.toks[t] \in Token
      BY <1>1, <1>3, <2>1, <2>3, SMT DEF EmbedErr
    <3>2. QED
      BY <1>1, <2>1, <2>3, <3>1, SMT
  <2>4. QED
    BY <2>2, <2>3
<1>5. Position = job.start + t - 1
  BY DEF Position
<1>6. ASSUME NEW k \in 1..(Position + 1)
      PROVE  History[k] \in Token
  <2>1. CASE k <= job.start
    BY <1>1, <1>2, <1>5, <2>1, SMT
  <2>2. CASE k > job.start
    <3>1. PICK j \in 1..Width : j = k - job.start /\ j <= t
      BY <1>1, <1>5, <2>2, SMT
    <3>2. History[job.start + j] \in Token
      BY <1>2, <1>4, <3>1
    <3>3. QED
      BY <3>1, <3>2, <1>1, SMT
  <2>3. QED
    BY <1>1, <1>5, <2>1, <2>2, SMT
<1>7. History[Position + 1] = job.toks[t]
  <2>1. Position + 1 = job.start + t
    BY <1>1, <1>5, SMT
  <2>2. QED
    BY <1>1, <1>2, <2>1
<1>8. QED
  BY <1>1, <1>2, <1>4, <1>5, <1>6, <1>7, SMT

(* Advance moves exactly one position past exactly one layer.              *)
LEMMA ThroughMoves ==
  ASSUME Shape, Mixing, Advance, UNCHANGED <<model, job>>
  PROVE  /\ \A i \in Layers : Through(i)' = IF i = layer THEN t ELSE Through(i)
         /\ Through(layer) = t - 1
         /\ \A k \in 1..Width : LayerOf(k)' = IF k = t THEN layer + 1 ELSE LayerOf(k)
         /\ LayerOf(t) = layer
<1>1. /\ state = "taken" /\ layer <= Depth
      /\ Width \in Nat \ {0} /\ t \in 1..Width /\ layer \in Nat \ {0} /\ Depth \in Nat
  BY PassFacts, ConstantFacts DEF Mixing, Shape, TypeOK
<1>2. /\ Width' = Width /\ Depth' = Depth /\ OnCpu' = OnCpu
  BY DEF Width, Depth, OnCpu
<1>3. CASE OnCpu
  <2>1. AdvanceBatch
    BY <1>3 DEF Advance
  <2>2. QED
    BY <1>1, <1>2, <1>3, <2>1, SMT DEF AdvanceBatch, Through, LayerOf, Layers
<1>4. CASE ~OnCpu
  <2>1. AdvanceResident
    BY <1>4 DEF Advance
  <2>2. QED
    <3>1. CASE layer < Depth \/ t = Width
      <4>1. layer' = layer + 1 /\ t' = t
        BY <2>1, <3>1 DEF AdvanceResident
      <4>2. QED
        BY <1>1, <1>2, <1>4, <4>1 DEF Through, LayerOf, Layers
    <3>2. CASE ~(layer < Depth \/ t = Width)
      <4>1. layer' = 1 /\ t' = t + 1 /\ layer = Depth
        BY <1>1, <2>1, <3>2 DEF AdvanceResident
      <4>2. QED
        BY <1>1, <1>2, <1>4, <4>1 DEF Through, LayerOf, Layers
    <3>3. QED
      BY <3>1, <3>2
<1>5. QED
  BY <1>3, <1>4

(* Sharing a model only becomes harder to support.                         *)
LEMMA SupportedBefore ==
  ASSUME NEW c, UNCHANGED model, users \subseteq users', linear' => linear, Supported(c)'
  PROVE  Supported(c)
<1>1. OnCpu' = OnCpu /\ HasKind("recurrent")' = HasKind("recurrent")
  BY DEF OnCpu, HasKind, Layers, Depth
<1>2. QED
  BY <1>1 DEF Supported

-----------------------------------------------------------------------------
(* The invariant.                                                          *)

LEMMA ExactInit == Init => Exact
<1> SUFFICES ASSUME Init PROVE Exact
  OBVIOUS
<1>1. Fresh /\ InFlight /\ AtRest /\ LogitsExact
  BY DEF Init, Fresh, InFlight, AtRest, LogitsExact
<1>2. CachedPrefixExact
  <2>1. \A c \in Cache : seq[c] = <<>>
    BY DEF Init
  <2>2. Len(<<>>) = 0 /\ 0..(0 - 1) = {}
    BY EmptySeq
  <2>3. QED
    BY <2>1, <2>2 DEF CachedPrefixExact
<1>3. QED
  BY <1>1, <1>2 DEF Exact

(* The pieces of a slot's name survive a rewind behind it.                 *)
LEMMA RewoundReference ==
  ASSUME NEW h \in Seq(Token), NEW n \in 0..Len(h), NEW p \in 0..(n - 1), NEW i
  PROVE  Reference(SubSeq(h, 1, n), i, p) = Reference(h, i, p)
<1>1. h \in Seq(Id) /\ (\A k \in 1..n : h[k] \in Token) /\ Len(h) \in Nat
  BY SeqMonotonic, LenProperties, SMT DEF Id
<1>2. p + 1 \in 0..n /\ p + 1 \in 1..n
  BY <1>1
<1>3. SubSeq(SubSeq(h, 1, n), 1, p + 1) = SubSeq(h, 1, p + 1)
  BY <1>1, <1>2, PrefixOfPrefix
<1>4. SubSeq(h, 1, n)[p + 1] = h[p + 1]
  BY <1>1, <1>2, PrefixName
<1>5. QED
  BY <1>3, <1>4, Zenon DEF Reference

LEMMA ExactBegin ==
  ASSUME Shape, Exact, NEW c \in Cache, NEW toks \in Batches,
         NEW start \in 0..Len(seq[c]), Begin(c, toks, start)
  PROVE  Exact'
<1>0. /\ seq \in [Cache -> Seq(Token)] /\ logits \in [Cache -> Name] /\ users \subseteq Cache
      /\ model \in Models /\ geom \in Geometries
  BY DEF Shape, TypeOK
<1>1. /\ state = "present" /\ state' = "taken" /\ UNCHANGED <<model, geom, kv, rec>>
      /\ job' = [cache |-> c, toks |-> toks, start |-> start]
      /\ layer' = 1 /\ t' = 1 /\ x' = [k \in 1..Len(toks) |-> Embed(toks[k])]
      /\ gpu' = IF OnCpu THEN gpu ELSE EnsureGpuKvCache(geom[c])
      /\ logits' = [logits EXCEPT ![c] = NoLogits]
      /\ seq' = [seq EXCEPT ![c] = SubSeq(seq[c], 1, start)]
      /\ users' = users \cup {c}
      /\ linear' = (linear /\ start = Len(seq[c]))
  BY DEF Begin
<1>2. Depth' = Depth /\ Layers' = Layers /\ OnCpu' = OnCpu /\ Depth \in Nat \ {0}
  BY <1>0, <1>1, SameModel, ConstantFacts
<1>3. \A d \in Cache : Supported(d)' => Supported(d)
  BY <1>1, SupportedBefore
<1>4. /\ seq[c] \in Seq(Token) /\ Len(seq[c]) \in Nat /\ start \in Nat
      /\ seq'[c] = SubSeq(seq[c], 1, start) /\ logits'[c] = NoLogits
      /\ \A d \in Cache \ {c} : seq'[d] = seq[d] /\ logits'[d] = logits[d]
  BY <1>0, <1>1, LenProperties
<1>5. Len(seq'[c]) = start
  BY <1>4, PlacedPrefix
<1>6. Fresh'
  BY <1>1 DEF Fresh
<1>7. LogitsExact'
  <2> SUFFICES ASSUME NEW d \in Cache, Supported(d)', logits'[d] # NoLogits'
               PROVE  logits'[d] = seq'[d]
    BY DEF LogitsExact
  <2>1. d # c
    BY <1>4 DEF NoLogits
  <2>2. QED
    BY <2>1, <1>3, <1>4 DEF Exact, LogitsExact, NoLogits
<1>8. CachedPrefixExact'
  <2> SUFFICES ASSUME NEW d \in Cache, NEW i \in Layers, Supported(d)',
                      model.layers[i] = "attention", OnCpu \/ d \in users',
                      NEW p \in 0..(Len(seq'[d]) - 1)
               PROVE  (IF OnCpu THEN kv[d] ELSE gpu'.slots)[i][p] = Reference(seq'[d], i, p)
    BY <1>1, <1>2 DEF CachedPrefixExact, Reference
  <2>1. p \in 0..(Len(seq[d]) - 1) /\ Reference(seq'[d], i, p) = Reference(seq[d], i, p)
    <3>1. CASE d = c
      BY <3>1, <1>4, <1>5, RewoundReference
    <3>2. CASE d # c
      BY <3>2, <1>4
    <3>3. QED
      BY <3>1, <3>2
  <2>2. CASE OnCpu
    BY <2>1, <2>2, <1>3 DEF Exact, CachedPrefixExact
  <2>3. CASE ~OnCpu
    <3>1. users' \subseteq {d} /\ d = c
      BY <2>3, <1>1, <1>2 DEF Supported
    <3>2. c \in users
      <4> SUFFICES ASSUME c \notin users PROVE FALSE
        OBVIOUS
      <4>1. seq[c] = <<>>
        BY DEF Shape, Served
      <4>2. QED
        BY <4>1, <2>1, <3>1, EmptySeq
    <3>3. users = {c}
      BY <1>1, <3>1, <3>2
    <3>4. gpu' = gpu
      BY <1>1, <2>3, <3>3 DEF Shape, Served, EnsureGpuKvCache
    <3>5. QED
      BY <2>1, <2>3, <1>3, <3>1, <3>2, <3>4 DEF Exact, CachedPrefixExact
  <2>4. QED
    BY <2>2, <2>3
<1>9. InFlight'
  <2> SUFFICES ASSUME Supported(c)' PROVE InFlight'
    BY <1>1 DEF InFlight
  <2>1. \A i \in Layers : Through(i)' = 0
    BY <1>1, <1>2 DEF Through, Layers
  <2>2. \A k \in 1..Len(toks) : LayerOf(k)' = 1
    <3>1. Len(toks) \in Nat
      BY BatchIsSeq, BoundsAssumption
    <3>2. QED
      BY <1>1, <1>2, <3>1 DEF LayerOf
  <2>3. Width' = Len(toks) /\ \A k \in 1..Len(toks) : x'[k] = Embed(toks[k])
    BY <1>1 DEF Width
  <2>4. Shape' /\ History' = seq'[c] \o toks
    BY <1>1, ShapeBegin DEF History
  <2>5. SubSeq(History', 1, start) = seq'[c]
    <3>1. SubSeq(History, 1, job.start)' = seq'[c]
      <4>1. Shape' /\ (state = "taken")'
        BY <1>1, <2>4
      <4>2. (Shape /\ state = "taken" => SubSeq(History, 1, job.start) = seq[job.cache])'
        BY HistoryPrefix, PTL
      <4>3. QED
        BY <1>1, <4>1, <4>2
    <3>2. QED
      BY <1>1, <3>1
  <2>6. ASSUME NEW i \in Layers, model.layers[i] = "recurrent"
        PROVE  rec[i] = seq'[c]
    <3>1. users' \subseteq {c} /\ linear'
      BY <2>6, <1>1, <1>2 DEF Supported, HasKind
    <3>2. start = Len(seq[c]) /\ users \subseteq {c}
      BY <1>1, <3>1
    <3>3. seq'[c] = seq[c]
      BY <1>4, <3>2, SubSeqFull
    <3>4. CASE c \in users
      BY <1>1, <1>3, <2>6, <3>3, <3>4 DEF Exact, AtRest
    <3>5. CASE c \notin users
      <4>1. users = {} /\ seq[c] = <<>>
        BY <3>2, <3>5 DEF Shape, Served
      <4>2. QED
        BY <3>3, <4>1 DEF Exact, Fresh
    <3>6. QED
      BY <3>4, <3>5
  <2>7. \A i \in Layers' : model'.layers[i] = "attention" =>
          \A k \in 1..Through(i)' :
            Slots'[i][job'.start + k - 1] = Reference(History', i, job'.start + k - 1)
    BY <1>2, <2>1
  <2>8. \A i \in Layers' : model'.layers[i] = "recurrent" =>
          rec'[i] = SubSeq(History', 1, job'.start + Through(i)')
    <3>1. job'.start + 0 = start
      BY <1>1, <1>4
    <3>2. QED
      BY <1>1, <1>2, <2>1, <2>5, <2>6, <3>1
  <2>9. \A k \in 1..Width' :
          x'[k] = IF LayerOf(k)' = 1 THEN Embed(job'.toks[k])
                  ELSE SubSeq(History', 1, job'.start + k)
    BY <1>1, <2>2, <2>3
  <2>10. QED
    BY <2>7, <2>8, <2>9, Zenon DEF InFlight, Reference, Embed
<1>10. AtRest'
  BY <1>1 DEF AtRest
<1>11. QED
  BY <1>6, <1>7, <1>8, <1>9, <1>10 DEF Exact

(* What a layer under way does not touch.                                  *)
LEMMA ExactMixing ==
  ASSUME Shape, Exact, Mixing,
         UNCHANGED <<model, geom, state, job, logits, seq, calls, users, linear>>
  PROVE  /\ Fresh' /\ LogitsExact' /\ AtRest'
         /\ \A d \in Cache : Supported(d)' <=> Supported(d)
         /\ History' = History /\ Width' = Width /\ Layers' = Layers /\ OnCpu' = OnCpu
<1>1. state = "taken" /\ job.cache \in users
  BY DEF Mixing, Shape, PassShape
<1>2. \A d \in Cache : Supported(d)' <=> Supported(d)
  BY DEF Supported, OnCpu, HasKind, Layers, Depth
<1>3. Fresh' /\ AtRest'
  BY <1>1 DEF Fresh, AtRest
<1>4. LogitsExact'
  BY <1>2 DEF Exact, LogitsExact, NoLogits
<1>5. QED
  BY <1>2, <1>3, <1>4 DEF History, Width, Layers, Depth, OnCpu

(* The activation that enters a layer under way.                           *)
LEMMA EnteringNow ==
  ASSUME Shape, InFlight, Mixing, Supported(job.cache), LayerOf(t) = layer
  PROVE  x[t] = Entering(History, layer, Position)
<1>1. /\ state = "taken" /\ t \in 1..Width /\ job.start \in Nat
      /\ Position = job.start + t - 1 /\ History[Position + 1] = job.toks[t]
  BY PassFacts, EmbeddedSoFar
<1>2. x[t] = IF layer = 1 THEN Embed(job.toks[t]) ELSE SubSeq(History, 1, job.start + t)
  BY <1>1 DEF InFlight
<1>3. Position + 1 = job.start + t
  BY <1>1, SMT
<1>4. QED
  BY <1>1, <1>2, <1>3, Zenon DEF Entering

LEMMA ExactAttention == Shape /\ Exact /\ AttentionLayer => Exact'
<1> SUFFICES ASSUME Shape, Exact, AttentionLayer PROVE Exact'
  OBVIOUS
<1> DEFINE written == [Slots EXCEPT ![layer][Position] = x[t]]
           M == Slot(geom[job.cache].max_seq)
           c == job.cache
<1>0. /\ Mixing /\ Advance /\ state = "taken" /\ model.layers[layer] = "attention"
      /\ UNCHANGED <<model, geom, rec, state, job, logits, seq, calls, users, linear>>
      /\ x' = [x EXCEPT ![t] = Attend(layer, written[layer], x[t], Position)]
      /\ IF OnCpu THEN kv' = [kv EXCEPT ![job.cache] = written] /\ UNCHANGED gpu
                  ELSE gpu' = [gpu EXCEPT !.slots = written] /\ UNCHANGED kv
  BY DEF AttentionLayer, Mixing
<1>1. /\ c \in Cache /\ Position \in M /\ layer \in Layers /\ c \in users
      /\ x \in [1..Width -> Name] /\ Width \in Nat \ {0} /\ t \in 1..Width
      /\ job.start \in Nat /\ Len(seq[c]) = job.start /\ layer \in Nat \ {0}
      /\ Slots \in [Layers -> [M -> Name]]
  BY <1>0, PassFacts, SlotsType DEF Mixing, Shape, PassShape
<1>2. /\ Fresh' /\ LogitsExact' /\ AtRest'
      /\ \A d \in Cache : Supported(d)' <=> Supported(d)
      /\ History' = History /\ Width' = Width /\ Layers' = Layers /\ OnCpu' = OnCpu
  BY <1>0, ExactMixing
<1>3. /\ \A i \in Layers : Through(i)' = IF i = layer THEN t ELSE Through(i)
      /\ Through(layer) = t - 1
      /\ \A k \in 1..Width : LayerOf(k)' = IF k = t THEN layer + 1 ELSE LayerOf(k)
      /\ LayerOf(t) = layer
  BY <1>0, ThroughMoves
<1>4. /\ job.toks[t] \in Token /\ \A k \in 1..(Position + 1) : History[k] \in Token
      /\ Position = job.start + t - 1 /\ Position \in 0..(Len(History) - 1)
      /\ History[Position + 1] = job.toks[t] /\ History \in Seq(Id)
  BY <1>0, EmbeddedSoFar, HistoryFacts
<1>5. Position \in Nat /\ Position >= job.start /\ Position + 1 = job.start + t
      /\ \A p \in 0..Position : p \in M
  <2>1. geom[c].max_seq \in Nat
    BY <1>1, ConstantFacts DEF Shape, TypeOK
  <2>2. QED
    BY <1>1, <1>4, <2>1, SMT DEF Slot
<1> HIDE DEF M
<1>6. /\ written[layer][Position] = x[t]
      /\ \A i \in Layers, p \in M :
           i # layer \/ p # Position => written[i][p] = Slots[i][p]
  BY <1>1
<1> HIDE DEF written
<1>7. /\ OnCpu  => kv'[c] = written
      /\ OnCpu  => Slots = kv[c] /\ \A d \in Cache \ {c} : kv'[d] = kv[d]
      /\ ~OnCpu => gpu'.slots = written /\ Slots = gpu.slots
      /\ Slots' = written
  <2>1. kv = [d \in Cache |-> kv[d]] /\ gpu = [geom |-> gpu.geom, slots |-> gpu.slots]
    BY DEF Shape, TypeOK
  <2>2. CASE OnCpu
    <3>1. kv' = [kv EXCEPT ![c] = written]
      BY <1>0, <2>2
    <3>2. kv'[c] = written /\ \A d \in Cache \ {c} : kv'[d] = kv[d]
      BY <1>1, <2>1, <3>1
    <3>3. QED
      BY <1>0, <1>2, <2>2, <3>2 DEF Slots
  <2>3. CASE ~OnCpu
    <3>1. gpu'.slots = written
      BY <1>0, <2>1, <2>3
    <3>2. QED
      BY <1>0, <1>2, <2>3, <3>1 DEF Slots
  <2>4. QED
    BY <2>2, <2>3
<1>8. ASSUME NEW i \in Layers, NEW p \in 0..(job.start - 1)
      PROVE  written[i][p] = Slots[i][p]
  <2>1. p \in M /\ p # Position
    BY <1>1, <1>5, SMT
  <2>2. QED
    BY <1>6, <2>1
<1>9. CachedPrefixExact'
  <2> SUFFICES ASSUME NEW d \in Cache, NEW i \in Layers, Supported(d),
                      model.layers[i] = "attention", OnCpu \/ d \in users,
                      NEW p \in 0..(Len(seq[d]) - 1)
               PROVE  (IF OnCpu THEN kv'[d] ELSE gpu'.slots)[i][p] = Reference(seq[d], i, p)
    BY <1>0, <1>2 DEF CachedPrefixExact, Reference
  <2>1. (IF OnCpu THEN kv[d] ELSE gpu.slots)[i][p] = Reference(seq[d], i, p)
    BY DEF Exact, CachedPrefixExact
  <2>2. CASE OnCpu
    <3>1. CASE d = c
      BY <1>1, <1>7, <1>8, <2>1, <2>2, <3>1
    <3>2. CASE d # c
      BY <1>7, <2>1, <2>2, <3>2
    <3>3. QED
      BY <3>1, <3>2
  <2>3. CASE ~OnCpu
    <3>1. d = c
      BY <1>1, <2>3 DEF Supported
    <3>2. QED
      BY <1>1, <1>7, <1>8, <2>1, <2>3, <3>1
  <2>4. QED
    BY <2>2, <2>3
<1>10. InFlight'
  <2> SUFFICES ASSUME Supported(c) PROVE InFlight'
    BY <1>0, <1>1, <1>2 DEF InFlight
  <2>1. InFlight
    BY DEF Exact
  <2>2. x[t] = Entering(History, layer, Position)
    BY <1>0, <1>3, <2>1, EnteringNow
  <2>3. x[t] = Reference(History, layer, Position)
    BY <1>4, <2>2, Zenon DEF Entering, Reference, Embed
  <2>4. ASSUME NEW i \in Layers, model.layers[i] = "attention", NEW k \in 1..Through(i)'
        PROVE  written[i][job.start + k - 1] = Reference(History, i, job.start + k - 1)
    <3>1. CASE i = layer /\ k = t
      BY <1>4, <1>6, <2>3, <3>1
    <3>2. CASE ~(i = layer /\ k = t)
      <4>1. k \in 1..Through(i)
        BY <1>1, <1>3, <2>4, <3>2, SMT
      <4>2. Slots[i][job.start + k - 1] = Reference(History, i, job.start + k - 1)
        BY <1>0, <2>1, <2>4, <4>1 DEF InFlight
      <4>3. job.start + k - 1 \in M /\ (i = layer => job.start + k - 1 # Position)
        <5>1. k \in 1..Width
          BY <1>1, <4>1, SMT DEF Through
        <5>2. job.start + Width <= geom[c].max_seq /\ geom[c].max_seq \in Nat
          BY <1>0, <1>1, ConstantFacts DEF Shape, TypeOK, PassShape
        <5>3. job.start + k - 1 \in M
          <6> DEFINE n == job.start
                     g == geom[job.cache].max_seq
          <6>1. n \in Nat /\ g \in Nat /\ n + Width <= g /\ k \in 1..Width /\ Width \in Nat
            BY <1>1, <5>1, <5>2
          <6> HIDE DEF n, g
          <6>2. n + k - 1 \in 0..(g - 1)
            BY <6>1, SMT
          <6>3. QED
            BY <6>2 DEF n, g, M, Slot
        <5>4. i = layer => job.start + k - 1 # Position
          BY <1>1, <1>4, <3>2, <5>1, SMT
        <5>5. QED
          BY <5>3, <5>4
      <4>4. QED
        BY <1>6, <4>2, <4>3
    <3>3. QED
      BY <3>1, <3>2
  <2>5. ASSUME NEW p \in 0..Position
        PROVE  written[layer][p] = Reference(History, layer, p)
    <3>1. CASE p < job.start
      <4>1. p \in 0..(job.start - 1)
        BY <1>1, <3>1, SMT
      <4>2. (IF OnCpu THEN kv[c] ELSE gpu.slots)[layer][p] = Reference(seq[c], layer, p)
        BY <1>0, <1>1, <4>1 DEF Exact, CachedPrefixExact
      <4>3. Slots[layer][p] = Reference(seq[c], layer, p)
        BY <1>7, <4>2
      <4>4. Reference(seq[c], layer, p) = Reference(History, layer, p)
        BY <1>0, <1>1, <4>1, PlacedBefore
      <4>5. QED
        BY <1>1, <1>8, <4>1, <4>3, <4>4
    <3>2. CASE p >= job.start
      <4>1. PICK i \in Layers : i = layer
        BY <1>1
      <4>2. PICK k \in 1..t : p = job.start + k - 1
        <5> DEFINE n == job.start
        <5>1. n \in Nat /\ p \in Nat /\ t \in Nat /\ p >= n /\ p <= n + t - 1
          BY <1>1, <1>4, <3>2
        <5> HIDE DEF n
        <5>2. p - n + 1 \in 1..t /\ p = n + (p - n + 1) - 1
          BY <5>1, SMT
        <5>3. QED
          BY <5>2 DEF n
      <4>3. k \in 1..Through(i)'
        BY <1>3, <4>1
      <4>4. written[i][job.start + k - 1] = Reference(History, i, job.start + k - 1)
        BY <1>0, <2>4, <4>1, <4>3
      <4>5. QED
        BY <4>1, <4>2, <4>4
    <3>3. QED
      BY <1>1, <3>1, <3>2, SMT
  <2>6. Attend(layer, written[layer], x[t], Position) = SubSeq(History, 1, Position + 1)
    BY <1>1, <1>4, <2>2, <2>5, AttendExact
  <2>7. \A i \in Layers : model.layers[i] = "recurrent" =>
          rec[i] = SubSeq(History, 1, job.start + Through(i)')
    <3>1. \A i \in Layers : model.layers[i] = "recurrent" => Through(i)' = Through(i)
      BY <1>0, <1>3
    <3>2. QED
      BY <1>0, <2>1, <3>1 DEF InFlight
  <2>8. ASSUME NEW k \in 1..Width
        PROVE  x'[k] = IF LayerOf(k)' = 1 THEN Embed(job.toks[k])
                       ELSE SubSeq(History, 1, job.start + k)
    <3>1. CASE k = t
      <4>1. x'[k] = SubSeq(History, 1, Position + 1)
        BY <1>0, <1>1, <2>6, <3>1
      <4>2. LayerOf(k)' = layer + 1 /\ layer + 1 # 1
        BY <1>1, <1>3, <3>1
      <4>3. QED
        BY <1>5, <3>1, <4>1, <4>2
    <3>2. CASE k # t
      <4>1. x'[k] = x[k] /\ LayerOf(k)' = LayerOf(k)
        BY <1>0, <1>1, <1>3, <3>2
      <4>2. QED
        BY <1>0, <2>1, <4>1 DEF InFlight
    <3>3. QED
      BY <3>1, <3>2
  <2>9. /\ \A i \in Layers' : model'.layers[i] = "attention" =>
             \A k \in 1..Through(i)' :
               Slots'[i][job'.start + k - 1] = Reference(History', i, job'.start + k - 1)
        /\ \A i \in Layers' : model'.layers[i] = "recurrent" =>
             rec'[i] = SubSeq(History', 1, job'.start + Through(i)')
    BY <1>0, <1>2, <1>7, <2>4, <2>7
  <2>10. \A k \in 1..Width' : x'[k] = IF LayerOf(k)' = 1 THEN Embed(job'.toks[k])
                                     ELSE SubSeq(History', 1, job'.start + k)
    BY <1>0, <1>2, <2>8
  <2>11. QED
    BY <2>9, <2>10, Zenon DEF InFlight, Reference, Embed
<1>11. QED
  BY <1>2, <1>9, <1>10 DEF Exact

LEMMA ExactRecurrent == Shape /\ Exact /\ RecurrentLayer => Exact'
<1> SUFFICES ASSUME Shape, Exact, RecurrentLayer PROVE Exact'
  OBVIOUS
<1> DEFINE c == job.cache
<1>0. /\ Mixing /\ Advance /\ state = "taken" /\ model.layers[layer] = "recurrent"
      /\ UNCHANGED <<model, geom, kv, gpu, state, job, logits, seq, calls, users, linear>>
      /\ rec' = [rec EXCEPT ![layer] = Recur(layer, rec[layer], x[t])]
      /\ x' = [x EXCEPT ![t] = rec'[layer]]
  BY DEF RecurrentLayer, Mixing
<1>1. /\ c \in Cache /\ layer \in Layers /\ layer \in Nat \ {0} /\ rec \in [Layers -> Name]
      /\ x \in [1..Width -> Name] /\ Width \in Nat \ {0} /\ t \in 1..Width
      /\ job.start \in Nat
  BY <1>0, PassFacts DEF Mixing, Shape, TypeOK
<1>2. /\ Fresh' /\ LogitsExact' /\ AtRest'
      /\ \A d \in Cache : Supported(d)' <=> Supported(d)
      /\ History' = History /\ Width' = Width /\ Layers' = Layers /\ OnCpu' = OnCpu
  BY <1>0, ExactMixing
<1>3. /\ \A i \in Layers : Through(i)' = IF i = layer THEN t ELSE Through(i)
      /\ Through(layer) = t - 1
      /\ \A k \in 1..Width : LayerOf(k)' = IF k = t THEN layer + 1 ELSE LayerOf(k)
      /\ LayerOf(t) = layer
  BY <1>0, ThroughMoves
<1>4. /\ \A k \in 1..(Position + 1) : History[k] \in Token
      /\ Position = job.start + t - 1 /\ Position \in 0..(Len(History) - 1)
      /\ History \in Seq(Id)
  BY <1>0, EmbeddedSoFar, HistoryFacts
<1>5. Position + 1 = job.start + t /\ Position = job.start + (t - 1)
  BY <1>1, <1>4, SMT
<1>6. CachedPrefixExact'
  BY <1>0, <1>2 DEF Exact, CachedPrefixExact, Reference
<1>7. InFlight'
  <2> SUFFICES ASSUME Supported(c) PROVE InFlight'
    BY <1>0, <1>1, <1>2 DEF InFlight
  <2>1. InFlight
    BY DEF Exact
  <2>2. x[t] = Entering(History, layer, Position)
    BY <1>0, <1>3, <2>1, EnteringNow
  <2>3. rec[layer] = SubSeq(History, 1, Position)
    BY <1>0, <1>1, <1>3, <1>5, <2>1 DEF InFlight
  <2>4. rec'[layer] = SubSeq(History, 1, job.start + t)
    BY <1>0, <1>1, <1>4, <1>5, <2>2, <2>3, RecurExact
  <2>5. ASSUME NEW i \in Layers, model.layers[i] = "recurrent"
        PROVE  rec'[i] = SubSeq(History, 1, job.start + Through(i)')
    <3>1. CASE i = layer
      BY <1>3, <2>4, <3>1
    <3>2. CASE i # layer
      <4>1. rec'[i] = rec[i] /\ Through(i)' = Through(i)
        BY <1>0, <1>1, <1>3, <3>2
      <4>2. QED
        BY <1>0, <2>1, <2>5, <4>1 DEF InFlight
    <3>3. QED
      BY <3>1, <3>2
  <2>6. ASSUME NEW i \in Layers, model.layers[i] = "attention", NEW k \in 1..Through(i)'
        PROVE  Slots'[i][job.start + k - 1] = Reference(History, i, job.start + k - 1)
    <3>1. Through(i)' = Through(i) /\ Slots' = Slots
      BY <1>0, <1>2, <1>3, <2>6 DEF Slots
    <3>2. QED
      BY <1>0, <2>1, <2>6, <3>1 DEF InFlight
  <2>7. ASSUME NEW k \in 1..Width
        PROVE  x'[k] = IF LayerOf(k)' = 1 THEN Embed(job.toks[k])
                       ELSE SubSeq(History, 1, job.start + k)
    <3>1. CASE k = t
      <4>1. x'[k] = SubSeq(History, 1, job.start + t)
        BY <1>0, <1>1, <2>4, <3>1
      <4>2. LayerOf(k)' = layer + 1 /\ layer + 1 # 1
        BY <1>1, <1>3, <3>1
      <4>3. QED
        BY <3>1, <4>1, <4>2
    <3>2. CASE k # t
      <4>1. x'[k] = x[k] /\ LayerOf(k)' = LayerOf(k)
        BY <1>0, <1>1, <1>3, <3>2
      <4>2. QED
        BY <1>0, <2>1, <4>1 DEF InFlight
    <3>3. QED
      BY <3>1, <3>2
  <2>8. /\ \A i \in Layers' : model'.layers[i] = "attention" =>
             \A k \in 1..Through(i)' :
               Slots'[i][job'.start + k - 1] = Reference(History', i, job'.start + k - 1)
        /\ \A i \in Layers' : model'.layers[i] = "recurrent" =>
             rec'[i] = SubSeq(History', 1, job'.start + Through(i)')
    BY <1>0, <1>2, <2>5, <2>6
  <2>9. \A k \in 1..Width' : x'[k] = IF LayerOf(k)' = 1 THEN Embed(job'.toks[k])
                                    ELSE SubSeq(History', 1, job'.start + k)
    BY <1>0, <1>2, <2>7
  <2>10. QED
    BY <2>8, <2>9, Zenon DEF InFlight, Reference, Embed
<1>8. QED
  BY <1>2, <1>6, <1>7 DEF Exact

LEMMA ExactFinish == Shape /\ Exact /\ Finish => Exact'
<1> SUFFICES ASSUME Shape, Exact, Finish PROVE Exact'
  OBVIOUS
<1> DEFINE c == job.cache
<1>0. /\ state = "taken" /\ layer > Depth /\ state' = "present"
      /\ logits' = [logits EXCEPT ![job.cache] = x[Width]]
      /\ seq' = [seq EXCEPT ![job.cache] = seq[job.cache] \o job.toks]
      /\ UNCHANGED <<model, geom, kv, gpu, rec, calls, users, linear>>
  BY DEF Finish, EndPass
<1>1. /\ c \in Cache /\ c \in users /\ Width \in Nat \ {0} /\ t \in 1..Width
      /\ layer \in Nat /\ layer > 1 /\ Depth \in Nat /\ (~OnCpu => t = Width) /\ (OnCpu => t = 1)
      /\ logits \in [Cache -> Name] /\ seq \in [Cache -> Seq(Token)]
      /\ job.start \in Nat /\ Len(seq[c]) = job.start
  BY <1>0, PassFacts, ConstantFacts DEF Shape, TypeOK, PassShape
<1>2. /\ seq'[c] = History /\ logits'[c] = x[Width]
      /\ \A d \in Cache \ {c} : seq'[d] = seq[d] /\ logits'[d] = logits[d]
  BY <1>0, <1>1 DEF History
<1>3. /\ History \in Seq(Id) /\ Len(History) = job.start + Width
      /\ SubSeq(History, 1, job.start + Width) = History
  <2>1. History \in Seq(Id) /\ Len(History) = job.start + Width
    BY <1>0, HistoryFacts
  <2>2. SubSeq(History, 1, Len(History)) = History
    BY <2>1, SubSeqFull
  <2>3. QED
    BY <2>1, <2>2
<1>4. /\ \A i \in Layers : Through(i) = Width
      /\ LayerOf(Width) # 1
  BY <1>0, <1>1 DEF Through, LayerOf, Layers
<1>5. /\ \A d \in Cache : Supported(d)' <=> Supported(d)
      /\ Layers' = Layers /\ OnCpu' = OnCpu
  BY <1>0 DEF Supported, HasKind, OnCpu, Layers, Depth
<1>6. Fresh' /\ InFlight'
  BY <1>0, <1>1 DEF Fresh, InFlight
<1>7. LogitsExact'
  <2> SUFFICES ASSUME NEW d \in Cache, Supported(d), logits'[d] # NoLogits
               PROVE  logits'[d] = seq'[d]
    BY <1>5 DEF LogitsExact, NoLogits
  <2>1. CASE d = c
    <3>1. Width \in 1..Width
      BY <1>1
    <3>2. x[Width] = SubSeq(History, 1, job.start + Width)
      BY <1>0, <1>4, <2>1, <3>1 DEF Exact, InFlight
    <3>3. QED
      BY <1>2, <1>3, <2>1, <3>2
  <2>2. CASE d # c
    BY <1>2, <2>2 DEF Exact, LogitsExact
  <2>3. QED
    BY <2>1, <2>2
<1>8. AtRest'
  <2> SUFFICES ASSUME NEW d \in users, Supported(d), NEW i \in Layers,
                      model.layers[i] = "recurrent"
               PROVE  rec[i] = seq'[d]
    <3>1. users \subseteq Cache /\ users' = users /\ rec' = rec /\ model' = model
      BY <1>0 DEF Shape, TypeOK
    <3>2. QED
      BY <1>5, <3>1, Zenon DEF AtRest
  <2>1. d = c
    BY <1>1 DEF Supported, HasKind
  <2>2. QED
    BY <1>0, <1>2, <1>3, <1>4, <2>1 DEF Exact, InFlight
<1>9. CachedPrefixExact'
  <2> SUFFICES ASSUME NEW d \in Cache, NEW i \in Layers, Supported(d),
                      model.layers[i] = "attention", OnCpu \/ d \in users,
                      NEW p \in 0..(Len(seq'[d]) - 1)
               PROVE  (IF OnCpu THEN kv[d] ELSE gpu.slots)[i][p] = Reference(seq'[d], i, p)
    <3>1. kv' = kv /\ gpu' = gpu /\ users' = users /\ model' = model
      BY <1>0
    <3>2. QED
      BY <1>5, <3>1, Zenon DEF CachedPrefixExact, Reference
  <2>1. CASE d # c
    BY <1>2, <2>1 DEF Exact, CachedPrefixExact
  <2>2. CASE d = c /\ p < job.start
    <3>1. p \in 0..(job.start - 1)
      BY <1>1, <2>2, SMT
    <3>2. (IF OnCpu THEN kv[d] ELSE gpu.slots)[i][p] = Reference(seq[c], i, p)
      BY <1>1, <2>2, <3>1 DEF Exact, CachedPrefixExact
    <3>3. QED
      BY <1>0, <1>2, <2>2, <3>1, <3>2, PlacedBefore
  <2>3. CASE d = c /\ p >= job.start
    <3>1. PICK k \in 1..Width : p = job.start + k - 1
      <4> DEFINE n == job.start
      <4>1. n \in Nat /\ p \in Nat /\ Width \in Nat /\ p >= n /\ p <= n + Width - 1
        BY <1>1, <1>2, <1>3, <2>3
      <4> HIDE DEF n
      <4>2. p - n + 1 \in 1..Width /\ p = n + (p - n + 1) - 1
        BY <4>1, SMT
      <4>3. QED
        BY <4>2 DEF n
    <3>2. Slots[i][p] = Reference(History, i, p)
      BY <1>0, <1>4, <2>3, <3>1 DEF Exact, InFlight
    <3>3. Slots = IF OnCpu THEN kv[d] ELSE gpu.slots
      BY <2>3 DEF Slots
    <3>4. QED
      BY <1>2, <2>3, <3>2, <3>3
  <2>4. QED
    BY <1>1, <2>1, <2>2, <2>3, SMT
<1>10. QED
  BY <1>6, <1>7, <1>8, <1>9 DEF Exact

LEMMA ExactFail == Shape /\ Exact /\ (FailEmbedding \/ FailWeights) => Exact'
<1> SUFFICES ASSUME Shape, Exact, FailEmbedding \/ FailWeights PROVE Exact'
  OBVIOUS
<1> DEFINE c == job.cache
<1>0. /\ state = "taken" /\ state' = "present"
      /\ UNCHANGED <<model, geom, kv, gpu, rec, logits, seq, calls, users>>
      /\ linear' => linear
      /\ linear' => EmbedErr /\ (OnCpu \/ t = 1)
  BY DEF FailEmbedding, FailWeights, Fail, EndPass
<1>1. /\ \A d \in Cache : Supported(d)' => Supported(d)
      /\ Layers' = Layers /\ OnCpu' = OnCpu
  BY <1>0, SupportedBefore DEF OnCpu, Layers, Depth
<1>2. /\ c \in Cache /\ c \in users /\ Width \in Nat \ {0} /\ t \in 1..Width
      /\ job.start \in Nat /\ Depth \in Nat
  BY <1>0, PassFacts, ConstantFacts DEF Shape, TypeOK, PassShape
<1>3. Fresh' /\ InFlight'
  BY <1>0, <1>2 DEF Fresh, InFlight
<1>4. LogitsExact'
  BY <1>0, <1>1 DEF Exact, LogitsExact, NoLogits
<1>5. CachedPrefixExact'
  BY <1>0, <1>1 DEF Exact, CachedPrefixExact, Reference
<1>6. AtRest'
  <2> SUFFICES ASSUME NEW d \in users, Supported(d)', NEW i \in Layers,
                      model.layers[i] = "recurrent"
               PROVE  rec[i] = seq[d]
    BY <1>0, <1>1 DEF AtRest
  <2>1. d \in Cache /\ d = c /\ linear'
    BY <1>0, <1>1, <1>2 DEF Supported, HasKind, Shape, TypeOK
  <2>2. layer = 1 /\ t = 1
    <3>1. layer = 1 /\ EmbedErr
      BY <1>0, <2>1 DEF EmbedErr
    <3>2. CASE OnCpu
      <4>1. PICK k \in 1..Width : job.toks[k] = Invalid
        BY <3>1, <3>2 DEF EmbedErr
      <4>2. t > 1 => job.toks[k] \in Token
        BY <1>0, <3>2, <4>1 DEF Shape, Embedded
      <4>3. QED
        BY <1>2, <3>1, <4>1, <4>2, GarbageAssumption
    <3>3. CASE ~OnCpu
      BY <1>0, <2>1, <3>1, <3>3
    <3>4. QED
      BY <3>2, <3>3
  <2>3. Through(i) = 0 /\ job.start + 0 = job.start
    BY <1>2, <2>2 DEF Through, Layers
  <2>4. rec[i] = SubSeq(History, 1, job.start)
    BY <1>0, <1>1, <2>1, <2>3 DEF Exact, InFlight
  <2>5. QED
    BY <1>0, <2>1, <2>4, HistoryPrefix
<1>7. QED
  BY <1>3, <1>4, <1>5, <1>6 DEF Exact

LEMMA ExactStep == Shape /\ Exact /\ [Next]_vars => Exact'
<1> SUFFICES ASSUME Shape, Exact, [Next]_vars PROVE Exact'
  OBVIOUS
<1>1. CASE Call
  BY <1>1, ExactBegin DEF Call
<1>2. CASE AttentionLayer
  BY <1>2, ExactAttention
<1>3. CASE RecurrentLayer
  BY <1>3, ExactRecurrent
<1>4. CASE Finish
  BY <1>4, ExactFinish
<1>5. CASE FailEmbedding \/ FailWeights
  BY <1>5, ExactFail
<1>6. CASE UNCHANGED vars
  <2>1. /\ model' = model /\ geom' = geom /\ kv' = kv /\ gpu' = gpu /\ rec' = rec
        /\ state' = state /\ job' = job /\ layer' = layer /\ t' = t /\ x' = x
        /\ logits' = logits /\ seq' = seq /\ calls' = calls /\ users' = users
        /\ linear' = linear
    BY <1>6 DEF vars
  <2>2. /\ Width' = Width /\ Depth' = Depth /\ Layers' = Layers /\ OnCpu' = OnCpu
        /\ Slots' = Slots /\ History' = History
        /\ \A d \in Cache : Supported(d)' = Supported(d)
    BY <2>1 DEF Width, Depth, Layers, OnCpu, Slots, History, Supported, HasKind
  <2>3. Fresh' /\ LogitsExact' /\ AtRest' /\ CachedPrefixExact'
    <3>1. Fresh'
      BY <2>1, <2>2, Zenon DEF Exact, Fresh
    <3>2. LogitsExact'
      BY <2>1, <2>2 DEF Exact, LogitsExact, NoLogits
    <3>3. AtRest'
      BY <2>1, Zenon DEF Exact, AtRest, Supported, OnCpu, HasKind, Layers, Depth
    <3>4. CachedPrefixExact'
      BY <2>1, Zenon DEF Exact, CachedPrefixExact, Supported, OnCpu, HasKind, Layers, Depth,
                         Reference
    <3>5. QED
      BY <3>1, <3>2, <3>3, <3>4
  <2>4. InFlight'
    BY <2>1, Zenon DEF Exact, InFlight, Through, LayerOf, Reference, Embed, Width, Depth,
                       Layers, OnCpu, Slots, History, Supported, HasKind
  <2>5. QED
    BY <2>3, <2>4 DEF Exact
<1>7. QED
  BY <1>1, <1>2, <1>3, <1>4, <1>5, <1>6 DEF Next, Step

(* The inductive invariant holds of every model and every use of it.       *)
THEOREM Inductive == Spec => []IInv
<1>1. Shape /\ Exact => IInv
  BY DEF Shape, Exact, IInv
<1>2. QED
  BY ShapeInit, ShapeStep, ExactInit, ExactStep, <1>1, PTL DEF Spec

(* Whatever the stack of layers, the path, the split of a history into     *)
(* prefill batches and single steps, the rewinds and retries of a caller   *)
(* that stays within Supported: the logits a call returned are those of    *)
(* exactly the tokens placed in the cache.                                 *)
THEOREM LogitsAreExact == Spec => []LogitsExact
<1>1. IInv => LogitsExact
  BY DEF IInv
<1>2. QED
  BY Inductive, <1>1, PTL

(* Every placed position of every attention layer holds its own K/V.       *)
THEOREM CachedPrefixIsExact == Spec => []CachedPrefixExact
<1>1. IInv => CachedPrefixExact
  BY DEF IInv
<1>2. QED
  BY Inductive, <1>1, PTL

(* The recurrent layers never skip, repeat or reorder a placed token.      *)
THEOREM RecurrenceStaysInStep == Spec => []RecurrenceInStep
<1>1. Shape /\ Exact => RecurrenceInStep
  <2> SUFFICES ASSUME Shape, Exact, NEW c \in Cache, NEW i \in Layers,
                      Supported(c), c \in users, model.layers[i] = "recurrent"
               PROVE  rec[i] = IF state = "taken"
                               THEN SubSeq(Intended(c), 1, job.start + Absorbed(i))
                               ELSE seq[c]
    BY DEF RecurrenceInStep
  <2>1. CASE state = "taken"
    <3>1. job.cache = c
      BY <2>1 DEF Supported, HasKind, Shape, PassShape
    <3>2. rec[i] = SubSeq(History, 1, job.start + Through(i))
      BY <2>1, <3>1 DEF Exact, InFlight
    <3>3. Through(i) = Absorbed(i)
      <4>1. layer \in Nat /\ i \in Nat /\ t \in Nat
        BY <2>1, PassFacts, ConstantFacts DEF Shape, TypeOK
      <4>2. CASE OnCpu
        BY <4>1, <4>2 DEF Through, Absorbed
      <4>3. CASE ~OnCpu
        BY <4>1, <4>3 DEF Through, Absorbed
      <4>4. QED
        BY <4>2, <4>3
    <3>4. Intended(c) = History
      BY <2>1, <3>1 DEF Intended, Owner, History
    <3>5. QED
      BY <2>1, <3>2, <3>3, <3>4
  <2>2. CASE state # "taken"
    BY <2>2 DEF Exact, AtRest, Shape, TypeOK
  <2>3. QED
    BY <2>1, <2>2
<1>2. QED
  BY ShapeInit, ShapeStep, ExactInit, ExactStep, <1>1, PTL DEF Spec

(* No step of any pass touches a placed slot of any caller's cache.        *)
THEOREM CommittedSlotsAreStable == Spec => CommittedSlotsStable
<1> DEFINE Stable == \A c \in Cache, i \in Layers : \A p \in 0..(Len(seq[c]) - 1) :
                       kv'[c][i][p] = kv[c][i][p]
<1>1. Shape /\ [Next]_vars => [Stable]_vars
  <2> SUFFICES ASSUME Shape, Next, NEW c \in Cache, NEW i \in Layers,
                      NEW p \in 0..(Len(seq[c]) - 1)
               PROVE  kv'[c][i][p] = kv[c][i][p]
    OBVIOUS
  <2>1. CASE AttentionLayer
    <3> DEFINE written == [Slots EXCEPT ![layer][Position] = x[t]]
    <3>1. /\ Mixing /\ state = "taken"
          /\ IF OnCpu THEN kv' = [kv EXCEPT ![job.cache] = written] ELSE UNCHANGED kv
      BY <2>1 DEF AttentionLayer, Mixing
    <3>2. CASE OnCpu /\ c = job.cache
      <4>1. kv'[c] = written
        <5>1. kv = [d \in Cache |-> kv[d]]
          BY DEF Shape, TypeOK
        <5>2. QED
          BY <3>1, <3>2, <5>1
      <4>2. Slots \in [Layers -> [Slot(geom[c].max_seq) -> Name]] /\ Slots = kv[c]
        BY <3>1, <3>2, SlotsType
      <4>3. p # Position /\ p \in Slot(geom[c].max_seq)
        <5> DEFINE n == Len(seq[c])
                   g == geom[c].max_seq
        <5>1. seq[c] \in Seq(Token)
          BY DEF Shape, TypeOK
        <5>2. n \in Nat /\ g \in Nat /\ t \in Nat /\ t >= 1 /\ Position = n + t - 1
              /\ n <= g
          <6>1. n \in Nat
            BY <5>1, LenProperties
          <6>2. Position = n + t - 1 /\ t \in 1..Width /\ Width \in Nat
            BY <3>1, <3>2, PassFacts
          <6>3. g \in Nat
            BY ConstantFacts DEF Shape, TypeOK
          <6>4. n <= g
            BY DEF Shape, Served
          <6> HIDE DEF n, g
          <6>5. QED
            BY <6>1, <6>2, <6>3, <6>4
        <5> HIDE DEF n, g
        <5>3. p \in 0..(n - 1)
          BY DEF n
        <5>4. p # Position /\ p \in 0..(g - 1)
          BY <5>2, <5>3, SMT
        <5>5. QED
          BY <5>4 DEF g, Slot
      <4>4. QED
        BY <4>1, <4>2, <4>3
    <3>3. CASE ~(OnCpu /\ c = job.cache)
      <4>1. kv = [d \in Cache |-> kv[d]]
        BY DEF Shape, TypeOK
      <4>2. QED
        BY <3>1, <3>3, <4>1
    <3>4. QED
      BY <3>2, <3>3
  <2>2. CASE Call \/ RecurrentLayer \/ Finish \/ FailEmbedding \/ FailWeights
    BY <2>2 DEF Call, Begin, RecurrentLayer, Finish, FailEmbedding, FailWeights, Fail
  <2>3. QED
    BY <2>1, <2>2 DEF Next, Step
<1>2. QED
  BY ShapeInit, ShapeStep, <1>1, PTL DEF Spec, CommittedSlotsStable

=============================================================================
