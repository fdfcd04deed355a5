----------------------------- MODULE GgufParser -----------------------------
(***************************************************************************)
(* parse (src/src/parser.rs): the header of a GGUF file, read with a       *)
(* cursor that knows only the bytes ahead of it: how long a string is, how *)
(* many items an array has and how many entries follow is itself read.     *)
(*                                                                         *)
(* A byte is <<v, k, n>>, the k-th of the n bytes of a field of value v;   *)
(* what the reads of little-endian numbers return is the value, provided   *)
(* the read begins and ends with the field.  A string is a record of its   *)
(* text, its length and whether it is UTF-8.                               *)
(***************************************************************************)
EXTENDS Integers, Sequences, SequencesExt, FiniteSets

CONSTANT Documents  \* what the files of the instance were written from

ALIGNMENT == 32
EmptyString == [text |-> "", width |-> 0, utf8 |-> TRUE]

(* What can be written: a value is <<type, v>>, an array <<9, type of the  *)
(* items, items>>; only the items of a known type have a form.             *)
Texts == {s \in [text : STRING, width : Nat, utf8 : BOOLEAN] : s.width = 0 => s = EmptyString}
Valid == 0 .. 12
MetadataValues ==
  ((Nat \ {8, 9}) \X Int) \union ({8} \X Texts) \union ({9} \X Nat \X {<<>>})
    \union ({9} \X (Valid \ {8, 9}) \X Seq(Int)) \union ({9} \X {8} \X Seq(Texts))
Document ==
  [magic : STRING, version : Nat, metadata : Seq([key : Texts, value : MetadataValues]),
   tensors : Seq([name : Texts, dims : Seq(Nat), type : Nat, offset : Nat])]

ASSUME DocumentsAssumption == Documents \subseteq Document

VARIABLES
  document, \* what was written
  data,     \* the bytes of the file, of which an end may be missing
  pos,      \* Cursor.pos
  plan,     \* the fields to read next: <<what it is, bytes>>
  vals,     \* what has been read of the current entry
  gguf,     \* metadata, tensors and data_offset so far
  parsed    \* <<>> while parsing, <<"ok">> or the error

parseVars == <<document, data, pos, plan, vals, gguf, parsed>>

-----------------------------------------------------------------------------
(* The format (docs/03-gguf-format.md), as a writer follows it: a document *)
(* flattened to fields, each with the error a reader owes it if it is not  *)
(* supported.                                                              *)

Field(v, width) == [value |-> v, width |-> width, error |-> <<>>]
WrittenWidth == [t \in 0 .. 12 |-> <<1, 1, 2, 2, 4, 4, 4, 1, 8, 4, 8, 8, 8>>[t + 1]]

StringFields(s) ==
  <<Field(s.width, 8), [value |-> s, width |-> s.width,
                        error |-> IF s.utf8 THEN <<>> ELSE <<"InvalidString">>]>>
ItemFields(t, v) == IF t = 8 THEN StringFields(v) ELSE <<Field(v, WrittenWidth[t])>>

ValueFields(value) ==
  LET t == value[1]
      TypeField(n, known) ==
        [value |-> n, width |-> 4, error |-> IF n \in known THEN <<>> ELSE <<"UnknownMetadataType", n>>]
  IN  IF t = 9
      THEN <<TypeField(9, Valid), TypeField(value[2], Valid \ {9}), Field(Len(value[3]), 8)>>
             \o FlattenSeq([k \in DOMAIN value[3] |-> ItemFields(value[2], value[3][k])])
      ELSE <<TypeField(t, Valid)>> \o (IF t \in Valid THEN ItemFields(t, value[2]) ELSE <<>>)
EntryFields(kv) == StringFields(kv.key) \o ValueFields(kv.value)
TensorFields(t) ==
  StringFields(t.name) \o <<Field(Len(t.dims), 4)>> \o [k \in DOMAIN t.dims |-> Field(t.dims[k], 8)]
    \o <<[value |-> t.type, width |-> 4,
          error |-> IF t.type \in 0 .. 33 \ {4, 5} THEN <<>> ELSE <<"UnknownTensorType", t.type>>],
         Field(t.offset, 8)>>
Written(doc) ==
  <<[value |-> doc.magic, width |-> 4, error |-> IF doc.magic = "GGUF" THEN <<>> ELSE <<"InvalidMagic">>],
    [value |-> doc.version, width |-> 4,
     error |-> IF doc.version \in {2, 3} THEN <<>> ELSE <<"UnsupportedVersion", doc.version>>],
    Field(Len(doc.tensors), 8), Field(Len(doc.metadata), 8)>>
    \o FlattenSeq([k \in DOMAIN doc.metadata |-> EntryFields(doc.metadata[k])])
    \o FlattenSeq([k \in DOMAIN doc.tensors |-> TensorFields(doc.tensors[k])])

Bytes(field) == [k \in 1 .. field.width |-> <<field.value, k, field.width>>]
BytesOf(fields) == FlattenSeq([k \in DOMAIN fields |-> Bytes(fields[k])])
Header(doc) == BytesOf(Written(doc))
DataStart(doc) ==
  LET length == Len(Header(doc)) IN CHOOSE n \in length .. length + ALIGNMENT - 1 : n % ALIGNMENT = 0
File(doc) ==
  Header(doc) \o [k \in 1 .. DataStart(doc) - Len(Header(doc)) |-> <<0, 1, 1>>]
    \o (IF doc.tensors = <<>> THEN <<>> ELSE <<<<0, 1, 1>>>>)

-----------------------------------------------------------------------------
(* The reader.                                                             *)

(* Mutant: the last byte of the file is never read.                        *)
FitsBefore(n) == Len(data) - pos > n

(* Cursor::read_bytes: are n bytes left?                                   *)
Fits(n) == Len(data) - pos >= n

(* The value of the next n bytes.                                          *)
Ahead(n) == IF n = 0 THEN EmptyString ELSE data[pos + 1][1]
InStep(n) == n > 0 => data[pos + 1][2] = 1 /\ data[pos + 1][3] = n

String == <<<<"length", 8>>>>
KeyValue == String \o <<<<"value_type", 4>>, <<"insert", 0>>>>
Tensor == String \o <<<<"n_dims", 4>>, <<"ggml_type", 4>>, <<"byte_offset", 8>>, <<"push", 0>>>>

(* read_metadata_value, but for the items of an array.                     *)
Value(t) ==
  CASE t \in {0, 1} -> <<<<"scalar", 1>>>>
    [] t = 7 -> <<<<"bool", 1>>>>
    [] t \in {2, 3} -> <<<<"scalar", 2>>>>
    [] t \in {4, 5, 6} -> <<<<"scalar", 4>>>>
    [] t \in {10, 11, 12} -> <<<<"scalar", 8>>>>
    [] t = 8 -> String
    [] t = 9 -> <<<<"elem_type", 4>>, <<"count", 8>>>>

Repeat(items, n) == FlattenSeq([k \in 1 .. n |-> items])

(* What the value v of a field makes the parser read next; the tensors     *)
(* come after the metadata, which comes after both counts.                 *)
Then(what, v) ==
  CASE what = "tensor_count" -> Tail(plan) \o Repeat(Tensor, v)
    [] what = "kv_count"     -> Repeat(KeyValue, v) \o Tail(plan)
    [] what = "length"       -> <<<<"string", v>>>> \o Tail(plan)
    [] what = "value_type"   -> Value(v) \o Tail(plan)
    [] what = "count"        -> Repeat(Value(Last(vals)), v) \o Tail(plan)
    [] what = "n_dims"       -> Repeat(<<<<"dim", 8>>>>, v) \o Tail(plan)
    [] OTHER -> Tail(plan)

(* MetadataArrayType::from_u32 knows every type but the array.             *)
MetadataArrayType == 0 .. 12 \ {9}

(* GgmlType::from_u32: 4 and 5 are formats the format no longer has.       *)
GgmlType == 0 .. 33 \ {4, 5}

Rejects(what, v) ==
  CASE what = "magic" /\ v # "GGUF" -> <<"InvalidMagic">>
    [] what = "version" /\ (v < 2 \/ v > 3) -> <<"UnsupportedVersion", v>>
    [] what = "string" /\ ~v.utf8 -> <<"InvalidString", pos>>
    [] what = "value_type" /\ v \notin 0 .. 12 -> <<"UnknownMetadataType", v>>
    [] what = "elem_type" /\ v \notin MetadataArrayType -> <<"UnknownMetadataType", v>>
    [] what = "ggml_type" /\ v \notin GgmlType -> <<"UnknownTensorType", v>>
    [] OTHER -> <<>>

ParseInit ==
  /\ document \in Documents
  /\ LET bytes == File(document) IN \E length \in 0 .. Len(bytes) : data = SubSeq(bytes, 1, length)
  /\ pos = 0 /\ vals = <<>> /\ parsed = <<>>
  /\ plan = <<<<"magic", 4>>, <<"version", 4>>, <<"tensor_count", 8>>, <<"kv_count", 8>>>>
  /\ gguf = [version |-> 0, metadata |-> {}, tensors |-> <<>>, data_offset |-> 0]

(* One read of the cursor.                                                 *)
Read ==
  /\ parsed = <<>> /\ plan # <<>> /\ Head(plan)[1] \notin {"insert", "push"}
  /\ LET what == Head(plan)[1]
         n == Head(plan)[2]
         v == Ahead(n)
     IN  IF ~Fits(n)
         THEN parsed' = <<"UnexpectedEof", pos>> /\ UNCHANGED <<pos, plan, vals, gguf>>
         ELSE IF ~InStep(n)
         THEN parsed' = <<"misread">> /\ UNCHANGED <<pos, plan, vals, gguf>>
         ELSE /\ pos' = pos + n
              /\ parsed' = Rejects(what, v)
              /\ plan' = IF Rejects(what, v) = <<>> THEN Then(what, v) ELSE plan
              /\ vals' = CASE what \in {"magic", "version", "tensor_count", "kv_count", "length",
                                      "count"} -> vals
                           [] what = "bool" -> Append(vals, IF v # 0 THEN 1 ELSE 0)
                           [] OTHER -> Append(vals, v)
              /\ gguf' = IF what = "version" THEN [gguf EXCEPT !.version = v] ELSE gguf
  /\ UNCHANGED <<document, data>>

(* Mutant: the first entry of a key stays.                                 *)
KeepFirst(map, k, v) == IF \E e \in map : e[1] = k THEN map ELSE map \union {<<k, v>>}

(* HashMap::insert: the last entry of a key stays.                         *)
Put(map, k, v) == {e \in map : e[1] # k} \union {<<k, v>>}

Insert ==
  /\ parsed = <<>> /\ plan # <<>> /\ Head(plan)[1] = "insert"
  /\ gguf' = [gguf EXCEPT !.metadata = Put(gguf.metadata, Head(vals), Tail(vals))]
  /\ vals' = <<>> /\ plan' = Tail(plan)
  /\ UNCHANGED <<document, data, pos, parsed>>

Push ==
  /\ parsed = <<>> /\ plan # <<>> /\ Head(plan)[1] = "push"
  /\ gguf' = [gguf EXCEPT !.tensors = Append(gguf.tensors, vals)]
  /\ vals' = <<>> /\ plan' = Tail(plan)
  /\ UNCHANGED <<document, data, pos, parsed>>

(* align_to, as the mask computes it for a power of two.                   *)
AlignTo(offset, alignment) == ((offset + alignment - 1) \div alignment) * alignment

Finish ==
  /\ parsed = <<>> /\ plan = <<>>
  /\ gguf' = [gguf EXCEPT !.data_offset = AlignTo(pos, ALIGNMENT)]
  /\ parsed' = <<"ok">>
  /\ UNCHANGED <<document, data, pos, plan, vals>>

ParseNext == Read \/ Insert \/ Push \/ Finish

ParseSpec == ParseInit /\ [][ParseNext]_parseVars

-----------------------------------------------------------------------------
(* Properties.                                                             *)

(* A bool is TRUE for every byte but 0.                                    *)
Meaning(t, v) == IF t = 7 /\ v # 0 THEN 1 ELSE v
Content(value) ==
  IF value[1] = 9
  THEN <<9, value[2]>> \o [k \in DOMAIN value[3] |-> Meaning(value[2], value[3][k])]
  ELSE <<value[1], Meaning(value[1], value[2])>>
Latest(doc) ==
  {k \in DOMAIN doc.metadata :
     \A n \in k + 1 .. Len(doc.metadata) : doc.metadata[n].key # doc.metadata[k].key}

(* What a successful parse returns is what was written: every entry with   *)
(* its value, the last one of a repeated key, every tensor in its place    *)
(* in the list, and the offset the tensor data was written at.             *)
ParseInvertsWrite ==
  parsed = <<"ok">> =>
    /\ gguf.version = document.version
    /\ gguf.metadata =
         {<<document.metadata[k].key, Content(document.metadata[k].value)>> : k \in Latest(document)}
    /\ gguf.tensors = [k \in DOMAIN document.tensors |->
                         LET t == document.tensors[k]
                         IN  <<t.name, Len(t.dims)>> \o t.dims \o <<t.type, t.offset>>]
    /\ gguf.data_offset = DataStart(document)

(* The error field k of the document deserves, in a file of this length.   *)
Start(fields, k) == Len(BytesOf(SubSeq(fields, 1, k - 1)))
Defect(fields, length, k) ==
  IF Start(fields, k) + fields[k].width > length THEN <<"UnexpectedEof", Start(fields, k)>>
  ELSE IF fields[k].error = <<"InvalidString">> THEN <<"InvalidString", Start(fields, k)>>
  ELSE fields[k].error
FirstDefect(doc, length) ==
  LET fields == Written(doc)
      bad == {k \in DOMAIN fields : Defect(fields, length, k) # <<>>}
  IN  IF bad = {} THEN <<"ok">>
      ELSE Defect(fields, length, CHOOSE k \in bad : \A n \in bad : k <= n)

(* A file that is cut off, or has something the reader does not support,   *)
(* is refused for the first such field, and the offset reported is the one *)
(* that field was written at; no other file is refused.                    *)
FirstDefectDecides == parsed # <<>> => parsed = FirstDefect(document, Len(data))
=============================================================================
