--------------------------- MODULE PayloadPipeline ---------------------------
(***************************************************************************)
(* The payload pipeline (crates/temporal/src/pipeline.rs): a batch of      *)
(* payloads is run through the codec chain, stored as immutable objects    *)
(* under random ids, and replaced by references; decoding checks each      *)
(* reference and its object and reverses the chain.  Clients and workers   *)
(* of several releases share one store, so a reference may be read by      *)
(* another pipeline than the one that wrote it.  The store is the          *)
(* filesystem driver, one system call at a time (FileStore); decoding      *)
(* changes nothing and is an operator.                                     *)
(***************************************************************************)
EXTENDS FileStore, FiniteSets, SequencesExt

CONSTANTS
    Payload,      \* payloads
    SizeOf,       \* the serialized size of each payload
    Pipelines,    \* the configurations that clients and workers run with
    Batches,      \* the batches of payloads the SDK hands to the codec
    MaxBatches    \* batches encoded (a bound of the model)

\* The result of transforms: the payload, and the codec versions applied to it,
\* the last one outermost.  A transform is kept only when it is beneficial
\* (ZstdCodec::encode): it saves one unit of size.
Encoded(payload, layers) == [payload |-> payload, layers |-> layers]

Size(bytes) == SizeOf[bytes.payload] - Len(bytes.layers)

Total(sizes) == FoldLeft(+, 0, sizes)

VARIABLES
    job,       \* the batch each writer encodes: by which pipeline, what is left to
               \* store, and the references made so far
    issued,    \* batches of references handed to callers, and what they stand for
    damaged    \* keys whose object the medium or the operator has harmed

vars == <<disk, call, job, issued, damaged>>

NoJob == [pipeline |-> Absent, todo |-> << >>, refs |-> << >>, payloads |-> << >>]

Init ==
    /\ StoreInit
    /\ job = [w \in Writer |-> NoJob]
    /\ issued = {}
    /\ damaged = {}

-----------------------------------------------------------------------------
(* Encoding. *)

Use(codec) == [id |-> codec.id, version |-> codec.encode]

\* SHA-256 is taken to be injective: a digest is what it is the digest of.
Fingerprint(p) ==
    [i \in DOMAIN p.codecs |->
        [id |-> p.codecs[i].id, encode |-> p.codecs[i].encode, decode |-> p.codecs[i].decode]]

\* What the chain makes of a payload: each codec handles it or declines.
Prepared(p, payload) ==
    LET applied == SelectSeq(p.codecs, LAMBDA codec : payload \in codec.handles)
    IN  Encoded(payload, [i \in DOMAIN applied |-> Use(applied[i])])

PreparedBatch(p, payloads) == [i \in DOMAIN payloads |-> Prepared(p, payloads[i])]

WithinLimits(p, batch) ==
    /\ \A i \in DOMAIN batch :
          /\ SizeOf[batch[i].payload] <= p.decoded_payload_bytes
          /\ Size(batch[i]) <= p.batch_bytes
    /\ Total([i \in DOMAIN batch |-> SizeOf[batch[i].payload]]) \in 0..p.batch_bytes
    /\ Total([i \in DOMAIN batch |-> Size(batch[i])]) \in 0..p.batch_bytes

\* A payload's serialization is never empty, and no codec makes it so; an object
\* with transforms taken off is an object, and no error.
ASSUME PipelineAssumption ==
    /\ SizeOf \in [Payload -> Nat]
    /\ Absent \notin Payload
    /\ \A p \in Pipelines : {p.decoded_payload_bytes, p.batch_bytes} \subseteq Nat
    /\ \A batch \in Batches : batch \in Seq(Payload)
    /\ \A bytes \in Bytes :
          /\ bytes.payload \in Payload
          /\ bytes.layers \in Seq(Range(bytes.layers))
          /\ Size(bytes) > 0
          /\ bytes = Encoded(bytes.payload, bytes.layers)
          /\ \A n \in 0..Len(bytes.layers) :
                Encoded(bytes.payload, SubSeq(bytes.layers, 1, n)) # Absent
    /\ \A p \in Pipelines, payload \in Payload : Prepared(p, payload) \in Bytes

\* ExternalReference::new.
Reference(p, key, bytes) ==
    [key |-> key, encoded_size |-> Size(bytes), sha256 |-> bytes, codecs |-> bytes.layers,
     fingerprint |-> Fingerprint(p)]

\* encode_batch, which the codec of the SDK calls (temporal_codec.rs:60): the whole
\* batch is prepared, within the limits, before anything is stored.  The encode of
\* a single payload, which no code of the crate calls, does not hold its size
\* before the transforms against batch_bytes, and is left out.
Encode(w) ==
    /\ job[w] = NoJob
    /\ \E p \in Pipelines, payloads \in Batches :
          LET batch == PreparedBatch(p, payloads)
          IN  /\ WithinLimits(p, batch)
              /\ job' = [job EXCEPT ![w] = [pipeline |-> p, todo |-> batch, refs |-> << >>,
                                            payloads |-> payloads]]
    /\ UNCHANGED <<disk, call, issued, damaged>>

\* store_prepared: the object goes under a random id, which may be one in use.
BeginStore(w) ==
    /\ job[w].todo # << >>
    /\ call[w].pc = "idle"
    /\ \E key \in Key : Begin(w, key, Head(job[w].todo))
    /\ UNCHANGED <<job, issued, damaged>>

\* The object is stored: its reference is made; the last one of the batch
\* completes it, and only then does the caller see any.
Stored(w) ==
    /\ call[w].pc = "done"
    /\ call[w].result = "ok"
    /\ LET j    == job[w]
           refs == Append(j.refs, Reference(j.pipeline, call[w].key, call[w].bytes))
       IN  IF Len(j.todo) = 1
           THEN /\ issued' = issued \cup {[by |-> j.pipeline, refs |-> refs, payloads |-> j.payloads]}
                /\ job' = [job EXCEPT ![w] = NoJob]
           ELSE /\ job' = [job EXCEPT ![w].todo = Tail(@), ![w].refs = refs]
                /\ UNCHANGED issued
    /\ Release(w)
    /\ UNCHANGED <<disk, damaged>>

\* Faulty variant: a payload that could not be stored is left out.
SkipFailed(w) ==
    /\ call[w].pc = "done"
    /\ call[w].result # "ok"
    /\ job' = [job EXCEPT ![w] = IF Len(@.todo) = 1 THEN NoJob ELSE [@ EXCEPT !.todo = Tail(@)]]
    /\ Release(w)
    /\ UNCHANGED <<disk, issued, damaged>>

\* The first error ends the batch; the objects stored for it stay.
StoreFailed(w) ==
    /\ call[w].pc = "done"
    /\ call[w].result # "ok"
    /\ job' = [job EXCEPT ![w] = NoJob]
    /\ Release(w)
    /\ UNCHANGED <<disk, issued, damaged>>

-----------------------------------------------------------------------------
(* Decoding. *)

Accepted(p) == p.historical \cup {Fingerprint(p)}

\* The codec of the chain that owns a recorded id and version.
Owns(codec, use) == codec.id = use.id /\ use.version \in codec.decode

\* One transform reversed: by the codec that owns it, on bytes that it wrote.
\* Absent is an error.
Unwrap(p, use, bytes) ==
    IF /\ bytes # Absent
       /\ \E i \in DOMAIN p.codecs : Owns(p.codecs[i], use)
       /\ bytes.layers # << >>
       /\ Last(bytes.layers) = use
       /\ Size(bytes) + 1 <= p.decoded_payload_bytes
    THEN [bytes EXCEPT !.layers = Front(@)] ELSE Absent

\* The loop over the recorded transforms, the last one first.
Reversed(p, uses, bytes) ==
    FoldRight(LAMBDA use, acc : Unwrap(p, use, acc), uses, bytes)

\* What the loop comes to: the recorded transforms are the outermost ones of the
\* object, each is owned by a codec, and what it gives back is within the limit.
Reversible(p, uses, bytes) ==
    LET kept == Len(bytes.layers) - Len(uses)
    IN  /\ kept >= 0
        /\ \A j \in 1..Len(uses) :
              /\ \E i \in DOMAIN p.codecs : Owns(p.codecs[i], uses[j])
              /\ bytes.layers[kept + j] = uses[j]
              /\ SizeOf[bytes.payload] - (kept + j - 1) <= p.decoded_payload_bytes

LoopAgrees(p, uses, bytes) ==
    Reversed(p, uses, bytes) =
        IF Reversible(p, uses, bytes)
        THEN [bytes EXCEPT !.layers = SubSeq(@, 1, Len(@) - Len(uses))] ELSE Absent

\* ExternalReference::validate.
Valid(p, ref) ==
    /\ ref.encoded_size = 0 => ref.codecs = << >>
    /\ ref.encoded_size <= p.batch_bytes
    /\ ref.fingerprint \in Accepted(p)

\* Faulty variant: the object is not compared with the digest.
DecodeUnverified(p, ref) ==
    LET bytes == disk[ref.key]
    IN  IF /\ Valid(p, ref)
           /\ bytes \in Bytes
           /\ Size(bytes) = ref.encoded_size
           /\ Len(bytes.layers) = Len(ref.codecs)
           /\ Reversible(p, ref.codecs, bytes)
        THEN bytes.payload ELSE Absent

\* decode: the payload, or Absent for any of its errors.  What is left must be a
\* payload, with no transform on it.
Decode(p, ref) ==
    LET bytes == disk[ref.key]
    IN  IF /\ Valid(p, ref)
           /\ bytes = ref.sha256
           /\ Len(bytes.layers) = Len(ref.codecs)
           /\ Reversible(p, ref.codecs, bytes)
        THEN bytes.payload ELSE Absent

\* decode_batch, on references.
DecodeBatch(p, refs) ==
    LET payloads == [i \in DOMAIN refs |-> Decode(p, refs[i])]
    IN  IF /\ Total([i \in DOMAIN refs |-> refs[i].encoded_size]) <= p.batch_bytes
           /\ \A i \in DOMAIN refs : payloads[i] # Absent
           /\ Total([i \in DOMAIN refs |-> SizeOf[payloads[i]]]) <= p.batch_bytes
        THEN payloads ELSE Absent

-----------------------------------------------------------------------------
(* The store, as the pipeline sees it. *)

StoreStep(w) == Progress(w) /\ UNCHANGED <<job, issued, damaged>>

\* The process of a writer dies between two calls of the store, or inside one,
\* which counts as failed.
WriterKilled(w) ==
    \/ /\ call[w].pc \in {"idle", "done"}
       /\ job[w] # NoJob
       /\ job' = [job EXCEPT ![w] = NoJob]
       /\ Release(w)
       /\ UNCHANGED <<disk, issued, damaged>>
    \/ Killed(w) /\ UNCHANGED <<job, issued, damaged>>

\* Bound: one object is harmed.
ObjectDamaged ==
    /\ damaged = {}
    /\ Damage
    /\ damaged' = {k \in Key : disk'[k] # disk[k]}
    /\ UNCHANGED <<job, issued>>

Begun == Cardinality({w \in Writer : job[w] # NoJob}) + Cardinality(issued)

Next ==
    \/ \E w \in Writer :
          \/ Begun < MaxBatches /\ Encode(w)
          \/ BeginStore(w) \/ StoreStep(w) \/ Stored(w) \/ StoreFailed(w) \/ WriterKilled(w)
    \/ ObjectDamaged

Spec == Init /\ [][Next]_vars

-----------------------------------------------------------------------------
\* Whatever a writer has in the store belongs to the batch it encodes; what a
\* caller holds is a whole batch; and nothing but harm alters or removes an object
\* that one of its references names.
TypeOK ==
    /\ StoreTypeOK
    /\ \A w \in Writer :
          /\ call[w].pc # "idle" => job[w].todo # << >> /\ call[w].bytes = Head(job[w].todo)
          /\ Len(job[w].todo) + Len(job[w].refs) = Len(job[w].payloads)
    /\ \A batch \in issued : Len(batch.refs) = Len(batch.payloads)
    /\ \A batch \in issued : \A i \in DOMAIN batch.refs :
          batch.refs[i].key \notin damaged => disk[batch.refs[i].key] = batch.refs[i].sha256
    /\ damaged \subseteq Key

\* A pipeline that knows the fingerprint of another one, the transforms that it
\* recorded and its sizes.
CanRead(p, batch) ==
    /\ Fingerprint(batch.by) \in Accepted(p)
    /\ \A i \in DOMAIN batch.refs : \A j \in DOMAIN batch.refs[i].codecs :
          \E k \in DOMAIN p.codecs : Owns(p.codecs[k], batch.refs[i].codecs[j])
    /\ batch.by.batch_bytes <= p.batch_bytes
    /\ batch.by.decoded_payload_bytes <= p.decoded_payload_bytes

\* Decoding is exact or it fails: whatever became of the objects and whoever
\* reads, references stand for the payloads they were issued for or for nothing
\* (pipeline.rs:257), and as long as the objects are unharmed every pipeline that
\* is configured to read them does (pipeline.rs:62).
DecodeIsExact ==
    \A batch \in issued, p \in Pipelines :
        LET payloads == DecodeBatch(p, batch.refs)
        IN  /\ payloads \in {batch.payloads, Absent}
            /\ (/\ CanRead(p, batch)
                /\ \A i \in DOMAIN batch.refs : batch.refs[i].key \notin damaged)
                  => payloads = batch.payloads
=============================================================================
