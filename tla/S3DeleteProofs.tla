---------------------------- MODULE S3DeleteProofs ----------------------------
(****************************************************************************)
(* The inductive invariant of S3Delete and what follows from it.              *)
(*                                                                          *)
(* A batch keeps paths of one secret, its key's, so the credentials a request *)
(* refreshes by one path serve all its paths; and a path given to RemoveFiles *)
(* is in a batch, ahead in the batch in work, or gone.  It is gone when the    *)
(* answer is found clean, for an answer of the store's that refuses a key      *)
(* brings the reader token by token to an Error, which it then keeps.          *)
(****************************************************************************)
EXTENDS S3Delete, SequenceTheorems, WellFoundedInduction, TLAPS

Names == {"RemoveFiles", "RemoveFile", "RemoveDirectory"}
InRequest == {"Request", "ReadResponse"}
OwnPaths == ToSet(operation.paths)

TypeInv ==
    /\ operation \in [name : Names, paths : Seq(Path)]
    /\ resolved \in Nat
    /\ resolved <= Len(operation.paths)
    /\ batch \in Seq(Path)
    /\ batch_start \in Nat

\* What a batch holds, and that its key stands for.
IsBatch(held, secret) ==
    /\ held = [auth_params |-> held.auth_params, paths |-> held.paths]
    /\ held.paths \in Seq(Path)
    /\ held.auth_params.secret = secret
    /\ \A i \in DOMAIN held.paths : held.paths[i].secret = secret /\ held.paths[i] \in OwnPaths

BatchesInv ==
    \A key \in DOMAIN delete_batches :
        IsBatch(delete_batches[key], key[4]) /\ delete_batches[key].paths # <<>>

\* The batch in work.
WorkInv ==
    pc \in InRequest =>
        /\ batch_start < Len(batch)
        /\ resolved = Len(operation.paths)
        /\ \A i \in DOMAIN batch : batch[i].secret = session.secret /\ batch[i] \in OwnPaths

\* RemoveFile and RemoveDirectory have not begun.
WaitingInv ==
    /\ pc \in {"RemoveFile", "RemoveDirectory"} => delete_batches = <<>> /\ resolved = 0
    /\ pc = "RemoveFile" => Len(operation.paths) = 1

StoreInv ==
    /\ {Object(path) : path \in AllPaths} \ objects \subseteq Targets
    /\ \A d \in deleted : d.credentials.secret = d.path.secret
    /\ deleted # {} =>
          /\ pc \notin {"InvalidPath", "RemoveFile", "RemoveDirectory"}
          /\ pc = "RemoveFiles" => resolved = Len(operation.paths)

Inv == TypeInv /\ BatchesInv /\ WorkInv /\ WaitingInv /\ StoreInv

\* Every path given is gone, in a batch, or ahead in the batch in work.
Gone(i) == Object(operation.paths[i]) \notin objects
Batched(i) ==
    \E key \in DOMAIN delete_batches : \E j \in DOMAIN delete_batches[key].paths :
        delete_batches[key].paths[j] = operation.paths[i]
Ahead(i) == \E j \in DOMAIN batch : j > batch_start /\ batch[j] = operation.paths[i]

CoveredInv ==
    truthful => \A i \in DOMAIN operation.paths :
        /\ pc = "RemoveFiles" /\ i <= resolved => Gone(i) \/ Batched(i)
        /\ pc \in InRequest => Gone(i) \/ Batched(i) \/ Ahead(i)
        /\ pc = "Returned" => Gone(i)

-----------------------------------------------------------------------------
(* Numbers and chunks. *)

\* The lesser of two numbers.
LEMMA LesserOfTwo ==
  ASSUME NEW a \in Nat, NEW b \in Nat
  PROVE  Min({a, b}) = IF a <= b THEN a ELSE b
  <1> DEFINE m == IF a <= b THEN a ELSE b
  <1>1. m \in {a, b} /\ \A y \in {a, b} : m <= y
    OBVIOUS
  <1>2. \A x \in {a, b} : (\A y \in {a, b} : x <= y) => x = m
    OBVIOUS
  <1> HIDE DEF m
  <1>3. Min({a, b}) = m
    BY <1>1, <1>2 DEF Min
  <1> QED  BY <1>3 DEF m

\* What lies between a position and an end, or a length if that comes first.
LEMMA CutAtEnd ==
  ASSUME NEW a \in Nat, NEW e \in Nat, NEW l \in Nat, NEW n, a < l, e > a,
         n = IF e <= l THEN e ELSE l
  PROVE  /\ n \in Nat /\ n <= l /\ a + 1 <= n
         /\ \A j \in 1..l : j > a /\ j <= e => j - a \in 1..n - a
  OBVIOUS

\* A chunk has the paths of the batch from batch_start on, as many as one request takes.
LEMMA ChunkPaths ==
  ASSUME TypeInv, batch_start < Len(batch)
  PROVE  /\ ToSet(Chunk) \subseteq ToSet(batch)
         /\ \A j \in DOMAIN batch :
               j > batch_start /\ j <= batch_start + MAX_KEYS_PER_REQUEST => batch[j] \in ToSet(Chunk)
         /\ batch_start + 1 \in DOMAIN batch
         /\ Chunk \in Seq(Path)
  <1> DEFINE e == batch_start + MAX_KEYS_PER_REQUEST
             n == Min({e, Len(batch)})
  <1>1. batch \in Seq(Path) /\ batch_start \in Nat /\ Len(batch) \in Nat /\ DOMAIN batch = 1..Len(batch)
    BY DEF TypeInv
  <1>2. e \in Nat /\ e > batch_start
    BY <1>1, DeleteAssumption
  <1> HIDE DEF e
  <1>3. n = IF e <= Len(batch) THEN e ELSE Len(batch)
    BY SMTT(40), <1>1, <1>2, LesserOfTwo
  <1> HIDE DEF n
  <1>4. /\ n \in Nat /\ n <= Len(batch) /\ batch_start + 1 <= n
        /\ \A j \in 1..Len(batch) : j > batch_start /\ j <= e => j - batch_start \in 1..n - batch_start
    BY <1>1, <1>2, <1>3, CutAtEnd
  <1>5. Chunk = SubSeq(batch, batch_start + 1, n)
    BY DEF Chunk, n, e
  <1>6. /\ Len(Chunk) = n - batch_start
        /\ DOMAIN Chunk = 1..n - batch_start
        /\ \A i \in 1..n - batch_start : Chunk[i] = batch[batch_start + i]
    <2>1. batch_start + 1 \in 1..Len(batch) + 1 /\ n \in batch_start..Len(batch)
      BY <1>1, <1>4
    <2> QED  BY <1>1, <1>4, <1>5, <2>1
  <1>7. ASSUME NEW i \in DOMAIN Chunk PROVE Chunk[i] \in ToSet(batch)
    <2>1. i \in 1..n - batch_start /\ batch_start + i \in DOMAIN batch
      BY <1>1, <1>4, <1>6
    <2> QED  BY <1>6, <2>1 DEF ToSet
  <1>8. ASSUME NEW j \in DOMAIN batch, j > batch_start, j <= e PROVE batch[j] \in ToSet(Chunk)
    <2>1. j - batch_start \in 1..n - batch_start /\ batch_start + (j - batch_start) = j
      BY <1>1, <1>4, <1>8
    <2>2. Chunk[j - batch_start] = batch[j]
      BY <1>6, <2>1
    <2> QED  BY <1>6, <2>1, <2>2 DEF ToSet
  <1>9. batch_start + 1 \in DOMAIN batch
    BY <1>1, <1>4
  <1>10. Chunk \in Seq(Path)
    <2>1. \A i \in batch_start + 1..n : batch[i] \in Path
      BY <1>1, <1>4
    <2> QED  BY <1>1, <1>4, <1>5, <2>1
  <1> QED  BY <1>7, <1>8, <1>9, <1>10 DEF ToSet, e

\* The credentials of a request are of the secret all its paths have.
LEMMA CredentialsFit ==
  ASSUME TypeInv, WorkInv, pc \in InRequest
  PROVE  /\ Credentials.secret = session.secret
         /\ \A path \in ToSet(Chunk) : path.secret = Credentials.secret /\ path \in OwnPaths
  <1>1. batch_start < Len(batch)
    BY DEF WorkInv
  <1>2. /\ \A path \in ToSet(Chunk) : path \in ToSet(batch)
        /\ batch_start + 1 \in DOMAIN batch
    BY <1>1, ChunkPaths
  <1>3. Credentials.secret = session.secret
    BY <1>2 DEF Credentials, ReadAuthParams, WorkInv
  <1> QED  BY <1>2, <1>3 DEF WorkInv, ToSet

-----------------------------------------------------------------------------
(* The actions. *)

\* The key of a batch names the secret.
LEMMA KeySecret ==
  ASSUME NEW path
  PROVE  CreateDeleteBatchKey(path)[4] = path.secret
  BY DEF CreateDeleteBatchKey

\* A batch with one more path of its secret.
LEMMA BatchWithPath ==
  ASSUME NEW held, NEW path \in Path, IsBatch(held, path.secret), path \in OwnPaths
  PROVE  LET more == [held EXCEPT !.paths = Append(@, path)]
         IN  IsBatch(more, path.secret) /\ more.paths = Append(held.paths, path) /\ more.paths # <<>>
  <1> DEFINE more == [held EXCEPT !.paths = Append(@, path)]
  <1>1. held.paths \in Seq(Path) /\ held = [auth_params |-> held.auth_params, paths |-> held.paths]
    BY DEF IsBatch
  <1>2. more = [auth_params |-> held.auth_params, paths |-> Append(held.paths, path)]
    <2> DEFINE a == held.auth_params
               q == held.paths
    <2>1. held = [auth_params |-> a, paths |-> q]
      BY <1>1
    <2> HIDE DEF a, q
    <2>2. held.paths = q /\ held.auth_params = a
      BY <2>1
    <2>3. more = [auth_params |-> a, paths |-> Append(held.paths, path)]
      BY ONLY <2>1
    <2> QED  BY <2>2, <2>3
  <1> HIDE DEF more
  <1>3. /\ more.auth_params = held.auth_params /\ more.paths = Append(held.paths, path)
        /\ more = [auth_params |-> more.auth_params, paths |-> more.paths]
    BY <1>2
  <1>4. /\ Append(held.paths, path) \in Seq(Path)
        /\ DOMAIN Append(held.paths, path) = 1..Len(held.paths) + 1
        /\ DOMAIN held.paths = 1..Len(held.paths) /\ Len(held.paths) \in Nat
        /\ Append(held.paths, path) # <<>>
        /\ \A i \in 1..Len(held.paths) + 1 :
              Append(held.paths, path)[i] = IF i \in DOMAIN held.paths THEN held.paths[i] ELSE path
    BY <1>1
  <1>5. \A i \in DOMAIN Append(held.paths, path) :
          /\ Append(held.paths, path)[i].secret = path.secret
          /\ Append(held.paths, path)[i] \in OwnPaths
    BY <1>4 DEF IsBatch
  <1>6. IsBatch(more, path.secret)
    BY <1>3, <1>4, <1>5 DEF IsBatch
  <1> QED  BY <1>3, <1>4, <1>6 DEF more

\* A path that is resolved: what becomes of the batches.
LEMMA ResolvedBatches ==
  ASSUME Inv, ResolvePath, operation.paths[resolved + 1].absolute
  PROVE  LET path == operation.paths[resolved + 1]
             key  == CreateDeleteBatchKey(path)
         IN  /\ path \in Path /\ path \in OwnPaths
             /\ resolved' = resolved + 1 /\ resolved < Len(operation.paths)
             /\ pc = "RemoveFiles" /\ pc' = pc
             /\ DOMAIN delete_batches' = DOMAIN delete_batches \cup {key}
             /\ \A k \in DOMAIN delete_batches : k # key => delete_batches'[k] = delete_batches[k]
             /\ IsBatch(delete_batches'[key], key[4])
             /\ delete_batches'[key].paths # <<>>
             /\ delete_batches'[key].paths =
                   Append(IF key \in DOMAIN delete_batches THEN delete_batches[key].paths ELSE <<>>,
                          path)
  <1> DEFINE path == operation.paths[resolved + 1]
             key  == CreateDeleteBatchKey(path)
             held == IF key \in DOMAIN delete_batches THEN delete_batches[key]
                     ELSE [auth_params |-> ReadAuthParams(path), paths |-> <<>>]
             more == [held EXCEPT !.paths = Append(@, path)]
  <1>1. /\ pc = "RemoveFiles" /\ resolved < Len(operation.paths)
        /\ delete_batches' = [k \in DOMAIN delete_batches \cup {key} |->
                                 IF k = key THEN more ELSE delete_batches[k]]
        /\ resolved' = resolved + 1 /\ pc' = pc
    BY DEF ResolvePath
  <1>2. path \in Path /\ path \in OwnPaths
    <2>1. operation.paths \in Seq(Path) /\ resolved + 1 \in DOMAIN operation.paths
      BY <1>1 DEF Inv, TypeInv
    <2> QED  BY <2>1 DEF OwnPaths, ToSet
  <1>3. key[4] = path.secret
    BY KeySecret
  <1>4. IsBatch(held, path.secret)
    <2>1. CASE key \in DOMAIN delete_batches
      BY <1>3, <2>1 DEF Inv, BatchesInv
    <2>2. CASE key \notin DOMAIN delete_batches
      <3>1. <<>> \in Seq(Path) /\ DOMAIN <<>> = {}
        OBVIOUS
      <3> HIDE DEF key, path
      <3> QED  BY <2>2, <3>1 DEF IsBatch, ReadAuthParams
    <2> QED  BY <2>1, <2>2
  <1>5. held.paths = IF key \in DOMAIN delete_batches THEN delete_batches[key].paths ELSE <<>>
    OBVIOUS
  <1> HIDE DEF held
  <1>6. IsBatch(more, path.secret) /\ more.paths = Append(held.paths, path) /\ more.paths # <<>>
    BY <1>2, <1>4, BatchWithPath
  <1> HIDE DEF more, key
  <1>7. /\ DOMAIN delete_batches' = DOMAIN delete_batches \cup {key}
        /\ \A k \in DOMAIN delete_batches : k # key => delete_batches'[k] = delete_batches[k]
        /\ delete_batches'[key] = more
    BY <1>1
  <1>8. IsBatch(delete_batches'[key], key[4]) /\ delete_batches'[key].paths # <<>>
        /\ delete_batches'[key].paths =
              Append(IF key \in DOMAIN delete_batches THEN delete_batches[key].paths ELSE <<>>, path)
    BY <1>3, <1>5, <1>6, <1>7
  <1> HIDE DEF path
  <1> QED  BY <1>1, <1>2, <1>7, <1>8 DEF path, key

\* A path is put into a batch, or is no S3 URL.
LEMMA ResolvePathPreserves ==
  ASSUME Inv, ResolvePath
  PROVE  Inv'
  <1>1. /\ pc = "RemoveFiles" /\ resolved < Len(operation.paths)
        /\ UNCHANGED <<operation, batch, batch_start, session, objects, deleted>>
    BY DEF ResolvePath, storeVars
  <1>2. deleted = {}
    BY <1>1 DEF Inv, TypeInv, StoreInv
  <1>4. OwnPaths' = OwnPaths /\ Targets' = Targets
    BY <1>1 DEF OwnPaths, Targets
  <1>5. CASE operation.paths[resolved + 1].absolute
    <2> DEFINE path == operation.paths[resolved + 1]
               key  == CreateDeleteBatchKey(path)
    <2>1. /\ resolved' = resolved + 1 /\ pc' = pc
          /\ DOMAIN delete_batches' = DOMAIN delete_batches \cup {key}
          /\ \A k \in DOMAIN delete_batches : k # key => delete_batches'[k] = delete_batches[k]
          /\ IsBatch(delete_batches'[key], key[4])
          /\ delete_batches'[key].paths # <<>>
      BY <1>5, ResolvedBatches
    <2> HIDE DEF key
    <2>2. TypeInv'
      BY <1>1, <2>1 DEF Inv, TypeInv
    <2>3. BatchesInv'
      BY <1>4, <2>1 DEF Inv, BatchesInv, IsBatch
    <2>4. WorkInv' /\ WaitingInv'
      BY <1>1, <2>1 DEF WorkInv, WaitingInv, InRequest
    <2>5. StoreInv'
      BY <1>1, <1>2, <1>4, <2>1 DEF Inv, StoreInv
    <2> QED  BY <2>2, <2>3, <2>4, <2>5 DEF Inv
  <1>6. CASE ~operation.paths[resolved + 1].absolute
    <2>1. pc' = "InvalidPath" /\ UNCHANGED <<delete_batches, resolved>>
      BY <1>6 DEF ResolvePath, Throw
    <2>2. TypeInv'
      BY <1>1, <2>1 DEF Inv, TypeInv
    <2>3. BatchesInv'
      BY <1>4, <2>1 DEF Inv, BatchesInv, IsBatch
    <2>4. WorkInv' /\ WaitingInv'
      BY <1>1, <2>1 DEF WorkInv, WaitingInv, InRequest
    <2>5. StoreInv'
      BY <1>1, <1>2, <1>4, <2>1 DEF Inv, StoreInv
    <2> QED  BY <2>2, <2>3, <2>4, <2>5 DEF Inv
  <1> QED  BY <1>5, <1>6

\* A batch is taken into work, or none is left.
LEMMA NextBatchPreserves ==
  ASSUME Inv, NextBatch
  PROVE  Inv'
  <1>1. /\ pc = "RemoveFiles" /\ resolved = Len(operation.paths)
        /\ UNCHANGED <<operation, resolved, objects, deleted>>
    BY DEF NextBatch, storeVars
  <1>2. OwnPaths' = OwnPaths /\ Targets' = Targets
    BY <1>1 DEF OwnPaths, Targets
  <1>3. CASE pc' = "Returned" /\ UNCHANGED <<delete_batches, batch, batch_start, session>>
    <2>1. TypeInv'
      BY <1>1, <1>3 DEF Inv, TypeInv
    <2>2. BatchesInv'
      BY <1>2, <1>3 DEF Inv, BatchesInv, IsBatch
    <2>3. WorkInv' /\ WaitingInv'
      BY <1>3 DEF WorkInv, WaitingInv, InRequest
    <2>4. StoreInv'
      BY <1>1, <1>2, <1>3 DEF Inv, StoreInv
    <2> QED  BY <2>1, <2>2, <2>3, <2>4 DEF Inv
  <1>4. ASSUME NEW key \in DOMAIN delete_batches,
               batch' = delete_batches[key].paths,
               batch_start' = 0,
               session' = delete_batches[key].auth_params,
               delete_batches' = [k \in DOMAIN delete_batches \ {key} |-> delete_batches[k]],
               pc' = "Request"
        PROVE  Inv'
    <2>1. /\ batch' \in Seq(Path) /\ batch' # <<>>
          /\ \A i \in DOMAIN batch' : batch'[i].secret = session'.secret /\ batch'[i] \in OwnPaths
      BY <1>4 DEF Inv, BatchesInv, IsBatch
    <2>2. 0 < Len(batch')
      BY <2>1
    <2>3. TypeInv'
      BY <1>1, <1>4, <2>1 DEF Inv, TypeInv
    <2>4. BatchesInv'
      BY <1>2, <1>4 DEF Inv, BatchesInv, IsBatch
    <2>5. WorkInv'
      BY <1>1, <1>2, <1>4, <2>1, <2>2 DEF WorkInv
    <2>6. WaitingInv'
      BY <1>4 DEF WaitingInv
    <2>7. StoreInv'
      BY <1>1, <1>2, <1>4 DEF Inv, StoreInv
    <2> QED  BY <2>3, <2>4, <2>5, <2>6, <2>7 DEF Inv
  <1> QED  BY <1>3, <1>4 DEF NextBatch

\* The store deletes paths of the chunk.
LEMMA DeletesPreserves ==
  ASSUME Inv, pc = "Request", NEW paths \in SUBSET ToSet(Chunk), Deletes(paths),
         pc' \in {"RequestError", "StatusError", "ReadResponse"},
         UNCHANGED <<operation, resolved, delete_batches, batch, batch_start>>
  PROVE  Inv'
  <1>1. /\ objects' = objects \ {Object(path) : path \in paths}
        /\ deleted' = deleted \cup {[path |-> path, credentials |-> Credentials] : path \in paths}
        /\ session' = Credentials
    BY DEF Deletes
  <1>2. OwnPaths' = OwnPaths /\ Targets' = Targets
    BY DEF OwnPaths, Targets
  <1>3. /\ Credentials.secret = session.secret
        /\ \A path \in paths : path.secret = Credentials.secret /\ path \in OwnPaths
    BY CredentialsFit DEF Inv, InRequest
  <1>4. \A path \in paths : Object(path) \in Targets
    BY <1>3 DEF OwnPaths, ToSet, Targets
  <1>5. TypeInv'
    BY DEF Inv, TypeInv
  <1>6. BatchesInv'
    BY <1>2 DEF Inv, BatchesInv, IsBatch
  <1>7. WorkInv'
    BY <1>1, <1>2, <1>3 DEF Inv, WorkInv, InRequest
  <1>8. WaitingInv'
    BY DEF WaitingInv
  <1>9. StoreInv'
    <2>1. {Object(path) : path \in AllPaths} \ objects' \subseteq Targets
      BY <1>1, <1>4 DEF Inv, StoreInv
    <2>2. ASSUME NEW d \in deleted' PROVE d.credentials.secret = d.path.secret
      <3>1. CASE d \in deleted
        BY <3>1 DEF Inv, StoreInv
      <3>2. CASE d \notin deleted
        <4>1. PICK path \in paths : d = [path |-> path, credentials |-> Credentials]
          BY <1>1, <3>2
        <4> QED  BY <1>3, <4>1
      <3> QED  BY <3>1, <3>2
    <2> QED  BY <1>2, <2>1, <2>2 DEF StoreInv
  <1> QED  BY <1>5, <1>6, <1>7, <1>8, <1>9 DEF Inv

\* What a request does to the store, whatever becomes of its answer.
LEMMA RequestDeletes ==
  ASSUME Request
  PROVE  /\ pc = "Request" /\ pc' \in {"RequestError", "StatusError", "ReadResponse"}
         /\ UNCHANGED <<operation, resolved, delete_batches, batch, batch_start>>
         /\ truthful' => truthful
         /\ \E paths \in SUBSET ToSet(Chunk) : Deletes(paths)
  <1>1. /\ pc = "Request"
        /\ UNCHANGED <<operation, resolved, delete_batches, batch, batch_start>>
    BY DEF Request
  <1>2. PICK refused \in SUBSET ToSet(Chunk) :
          \/ /\ Deletes(ToSet(Chunk) \ refused)
             /\ Throw("RequestError")
             /\ UNCHANGED readVars
          \/ /\ Deletes({})
             /\ Throw("StatusError")
             /\ UNCHANGED readVars
          \/ /\ Deletes(ToSet(Chunk) \ refused)
             /\ LET keys == Filter(Chunk, LAMBDA path : path \in refused)
                IN  \E named \in DeleteNames :
                        StartReading(DeleteResult(named, [i \in DOMAIN keys |-> keys[i].key]), TRUE)
          \/ /\ AnswersAnything(operation)
             /\ Deletes({})
             /\ \E doc \in Documents : StartReading(doc, FALSE)
    BY DEF Request
  <1>3. ASSUME NEW doc, NEW own, StartReading(doc, own)
        PROVE  pc' = "ReadResponse" /\ (truthful' => truthful)
    BY <1>3 DEF StartReading
  <1>4. UNCHANGED readVars => (truthful' => truthful)
    BY DEF readVars
  <1>5. /\ pc' \in {"RequestError", "StatusError", "ReadResponse"}
        /\ truthful' => truthful
        /\ Deletes(ToSet(Chunk) \ refused) \/ Deletes({})
    BY <1>2, <1>3, <1>4 DEF Throw
  <1> QED  BY <1>1, <1>5

\* Only the reader changes.
LEMMA ReadingPreserves ==
  ASSUME Inv, UNCHANGED <<operation, batchVars, objects, deleted, pc>>
  PROVE  Inv'
  <1>1. UNCHANGED <<operation, resolved, delete_batches, batch, batch_start, session, objects,
                    deleted, pc>>
    BY DEF batchVars
  <1>2. OwnPaths' = OwnPaths /\ Targets' = Targets
    BY <1>1 DEF OwnPaths, Targets
  <1> QED  BY <1>1, <1>2 DEF Inv, TypeInv, BatchesInv, IsBatch, WorkInv, WaitingInv, StoreInv

\* The answer has been read.
LEMMA EndOfBodyPreserves ==
  ASSUME Inv, EndOfBody
  PROVE  Inv'
  <1>1. /\ pc = "ReadResponse"
        /\ UNCHANGED <<operation, resolved, delete_batches, session, objects, deleted>>
    BY DEF EndOfBody, storeVars
  <1>2. OwnPaths' = OwnPaths /\ Targets' = Targets
    BY <1>1 DEF OwnPaths, Targets
  <1>3. BatchesInv'
    BY <1>1, <1>2 DEF Inv, BatchesInv, IsBatch
  <1>4. resolved = Len(operation.paths)
    BY <1>1 DEF Inv, WorkInv, InRequest
  <1>5. CASE pc' = "MalformedOrFailed" /\ UNCHANGED <<batch, batch_start>>
    BY <1>1, <1>2, <1>3, <1>5 DEF Inv, TypeInv, WorkInv, WaitingInv, StoreInv, InRequest
  <1>6. CASE /\ batch_start + MAX_KEYS_PER_REQUEST < Len(batch)
             /\ batch_start' = batch_start + MAX_KEYS_PER_REQUEST
             /\ pc' = "Request"
             /\ UNCHANGED batch
    <2>1. TypeInv'
      BY <1>1, <1>6, DeleteAssumption DEF Inv, TypeInv
    <2>2. WorkInv' /\ WaitingInv'
      BY <1>1, <1>2, <1>6 DEF Inv, WorkInv, WaitingInv, InRequest
    <2>3. StoreInv'
      BY <1>1, <1>2, <1>6 DEF Inv, StoreInv
    <2> QED  BY <1>3, <2>1, <2>2, <2>3 DEF Inv
  <1>7. CASE batch' = <<>> /\ batch_start' = 0 /\ pc' = "RemoveFiles"
    <2>1. TypeInv'
      BY <1>1, <1>7 DEF Inv, TypeInv
    <2>2. WorkInv' /\ WaitingInv'
      BY <1>7 DEF WorkInv, WaitingInv, InRequest
    <2>3. StoreInv'
      BY <1>1, <1>2, <1>4, <1>7 DEF Inv, StoreInv
    <2> QED  BY <1>3, <2>1, <2>2, <2>3 DEF Inv
  <1> QED  BY <1>5, <1>6, <1>7 DEF EndOfBody, Throw

\* RemoveFile opens the file and deletes it.
LEMMA RemoveFilePreserves ==
  ASSUME Inv, RemoveFile
  PROVE  Inv'
  <1> DEFINE path == operation.paths[1]
  <1>1. /\ pc = "RemoveFile" /\ pc' \in {"NoSuchFile", "RequestError", "Returned"}
        /\ UNCHANGED <<operation, resolved, delete_batches, batch, batch_start, session>>
        /\ \/ UNCHANGED <<objects, deleted>>
           \/ /\ objects' = objects \ {Object(path)}
              /\ deleted' = deleted \cup {[path |-> path, credentials |-> ReadAuthParams(path)]}
    BY DEF RemoveFile, batchVars, Throw
  <1>2. OwnPaths' = OwnPaths /\ Targets' = Targets
    BY <1>1 DEF OwnPaths, Targets
  <1>3. Object(path) \in Targets
    <2>1. operation.paths \in Seq(Path) /\ Len(operation.paths) = 1
      BY <1>1 DEF Inv, TypeInv, WaitingInv
    <2>2. 1 \in DOMAIN operation.paths
      BY <2>1
    <2> QED  BY <2>2 DEF Targets
  <1>4. TypeInv' /\ WorkInv' /\ WaitingInv'
    BY <1>1 DEF Inv, TypeInv, WorkInv, WaitingInv, InRequest
  <1>5. BatchesInv'
    BY <1>1, <1>2 DEF Inv, BatchesInv, IsBatch
  <1>6. StoreInv'
    <2>1. {Object(q) : q \in AllPaths} \ objects' \subseteq Targets
      BY <1>1, <1>3 DEF Inv, StoreInv
    <2>2. \A d \in deleted' : d.credentials.secret = d.path.secret
      BY <1>1 DEF Inv, StoreInv, ReadAuthParams
    <2> QED  BY <1>1, <1>2, <2>1, <2>2 DEF StoreInv
  <1> QED  BY <1>4, <1>5, <1>6 DEF Inv

\* The names RemoveDirectory hands on are those of the same objects.
LEMMA RelativePaths ==
  ASSUME TypeInv, RemoveDirectory
  PROVE  /\ operation' \in [name : Names, paths : Seq(Path)]
         /\ Len(operation'.paths) = Len(operation.paths)
         /\ Targets' = Targets
  <1> DEFINE given == operation.paths
             names == [i \in DOMAIN given |-> [given[i] EXCEPT !.absolute = FALSE]]
  <1>1. operation' = [operation EXCEPT !.paths = names]
    BY DEF RemoveDirectory
  <1>2. given \in Seq(Path) /\ DOMAIN given = 1..Len(given) /\ Len(given) \in Nat
        /\ \A i \in DOMAIN given : given[i] \in Path
    BY DEF TypeInv
  <1>3. \A i \in DOMAIN given : names[i] \in Path /\ Object(names[i]) = Object(given[i])
    BY <1>2 DEF Path, Object
  <1>4. names \in [1..Len(given) -> Path]
    BY <1>2, <1>3
  <1>5. names \in Seq(Path) /\ Len(names) = Len(given) /\ DOMAIN names = DOMAIN given
    BY <1>2, <1>4
  <1> HIDE DEF names
  <1>6. operation' \in [name : Names, paths : Seq(Path)] /\ operation'.paths = names
    BY <1>1, <1>5 DEF TypeInv
  <1>7. Targets' = Targets
    BY <1>3, <1>5, <1>6 DEF Targets
  <1> QED  BY <1>5, <1>6, <1>7

\* RemoveDirectory hands its names to RemoveFiles.
LEMMA RemoveDirectoryPreserves ==
  ASSUME Inv, RemoveDirectory
  PROVE  Inv'
  <1>1. /\ pc = "RemoveDirectory" /\ pc' = "RemoveFiles"
        /\ UNCHANGED <<resolved, delete_batches, batch, batch_start, session, objects, deleted>>
    BY DEF RemoveDirectory, batchVars, storeVars
  <1>2. /\ operation' \in [name : Names, paths : Seq(Path)]
        /\ Len(operation'.paths) = Len(operation.paths) /\ Targets' = Targets
    BY RelativePaths DEF Inv
  <1>3. delete_batches = <<>> /\ resolved = 0 /\ deleted = {}
    BY <1>1 DEF Inv, WaitingInv, StoreInv
  <1>4. TypeInv' /\ WorkInv' /\ WaitingInv'
    BY <1>1, <1>2 DEF Inv, TypeInv, WorkInv, WaitingInv, InRequest
  <1>5. BatchesInv'
    BY <1>1, <1>3 DEF BatchesInv
  <1>6. StoreInv'
    BY <1>1, <1>2, <1>3 DEF Inv, StoreInv
  <1> QED  BY <1>4, <1>5, <1>6 DEF Inv

\* The invariant holds at first,
LEMMA InitInv == Init => Inv
  <1> SUFFICES ASSUME Init PROVE Inv
    OBVIOUS
  <1>1. /\ operation \in [name : Names, paths : Seq(Path)] /\ pc = operation.name
        /\ operation.name = "RemoveFile" => Len(operation.paths) = 1
    BY DeleteAssumption DEF Init, Names
  <1>2. operation.paths \in Seq(Path) /\ pc \in Names
    BY <1>1
  <1>3. TypeInv
    BY <1>1, <1>2 DEF Init, TypeInv
  <1>4. BatchesInv
    BY DEF Init, BatchesInv
  <1>5. WorkInv /\ WaitingInv
    BY <1>1, <1>2 DEF Init, WorkInv, WaitingInv, InRequest, Names
  <1>6. StoreInv
    BY DEF Init, StoreInv
  <1> QED  BY <1>3, <1>4, <1>5, <1>6 DEF Inv

\* and every step preserves it.
LEMMA NextInv == Inv /\ [Next]_vars => Inv'
  <1> SUFFICES ASSUME Inv, [Next]_vars PROVE Inv'
    OBVIOUS
  <1>1. CASE UNCHANGED vars
    BY <1>1, ReadingPreserves DEF vars, storeVars
  <1>2. CASE ReadToken \/ RefreshSecret
    BY <1>2, ReadingPreserves DEF ReadToken, RefreshSecret, storeVars
  <1>3. CASE Request
    BY <1>3, RequestDeletes, DeletesPreserves
  <1> QED  BY <1>1, <1>2, <1>3, ResolvePathPreserves, NextBatchPreserves, EndOfBodyPreserves,
              RemoveFilePreserves, RemoveDirectoryPreserves DEF Next

-----------------------------------------------------------------------------
(* What follows. *)

\* Every batch holds paths of one secret, given to the operation, and the credentials of the
\* delete session are of that secret, refreshed or not (RemoveFiles, CreateDeleteBatchKey).
THEOREM DeleteInvariant == Spec => []Inv
  BY InitInv, NextInv, PTL DEF Spec

\* Every file is deleted with credentials of its own secret: for any paths, secrets, sizes of
\* requests and refreshes between them.
THEOREM CredentialsAreOwn == Spec => []OwnCredentials
  <1>1. Inv => OwnCredentials
    BY DEF Inv, StoreInv, OwnCredentials
  <1> QED  BY <1>1, DeleteInvariant, PTL

\* Only what an operation was given is removed, and nothing where one of its paths is no S3
\* URL.
THEOREM OnlyTargetsAreRemoved == Spec => []RemovesOnlyTargets
  <1>1. Inv => RemovesOnlyTargets
    BY DEF Inv, StoreInv, RemovesOnlyTargets
  <1> QED  BY <1>1, DeleteInvariant, PTL

-----------------------------------------------------------------------------
(* Sequences that are put together. *)

\* A set of naturals has a least element.
LEMMA LeastNumber ==
  ASSUME NEW S \in SUBSET Nat, S # {}
  PROVE  \E n \in S : \A m \in S : n <= m
  <1>1. PICK n \in S : \A m \in S : ~(<<m, n>> \in OpToRel(<, Nat))
    BY NatLessThanWellFounded, WFMin
  <1>2. ASSUME NEW m \in S PROVE n <= m
    <2>1. m \in Nat /\ n \in Nat /\ ~(m < n)
      BY <1>1 DEF OpToRel
    <2> QED  BY <2>1
  <1> QED  BY <1>2

\* The recursive function behind FlattenSeq, on the first n sequences.
Flattens(f, seqs, n) ==
    f = [i \in 1..n |-> IF i = 1 THEN seqs[i] ELSE f[i - 1] \o seqs[i]]

\* It exists and joins sequences to a sequence.
LEMMA FlattenExists ==
  ASSUME NEW S, NEW seqs \in Seq(Seq(S)), NEW n \in 1..Len(seqs)
  PROVE  \E f \in [1..n -> Seq(S)] : Flattens(f, seqs, n)
  <1> DEFINE Wrong == {m \in 1..Len(seqs) : ~\E f \in [1..m -> Seq(S)] : Flattens(f, seqs, m)}
  <1>1. SUFFICES ASSUME Wrong # {} PROVE FALSE
    OBVIOUS
  <1>0. Wrong \in SUBSET Nat
    OBVIOUS
  <1>2. PICK m \in Wrong : \A k \in Wrong : m <= k
    BY <1>0, <1>1, LeastNumber
  <1>3. m \in 1..Len(seqs) /\ ~\E f \in [1..m -> Seq(S)] : Flattens(f, seqs, m)
    OBVIOUS
  <1>4. seqs[m] \in Seq(S) /\ seqs[1] \in Seq(S)
    BY <1>3
  <1>5. CASE m = 1
    <2> DEFINE g == [i \in 1..1 |-> seqs[i]]
    <2>1. g \in [1..1 -> Seq(S)]
      BY <1>4
    <2>2. Flattens(g, seqs, 1)
      BY DEF Flattens
    <2> QED  BY <1>3, <1>5, <2>1, <2>2
  <1>6. CASE m # 1
    <2>0. m - 1 \in 1..Len(seqs) /\ ~(m <= m - 1)
      BY <1>3, <1>6
    <2>1. m - 1 \in 1..Len(seqs) /\ m - 1 \notin Wrong
      BY ONLY <1>2, <2>0
    <2>2. PICK f \in [1..(m - 1) -> Seq(S)] : Flattens(f, seqs, m - 1)
      BY <2>1
    <2> DEFINE g == [i \in 1..m |-> IF i = m THEN f[m - 1] \o seqs[m] ELSE f[i]]
    <2>3. f[m - 1] \in Seq(S)
      BY <2>1, <2>2
    <2>4. f[m - 1] \o seqs[m] \in Seq(S)
      BY <1>4, <2>3
    <2>5. g \in [1..m -> Seq(S)]
      BY <2>2, <2>4
    <2>6. ASSUME NEW i \in 1..m
          PROVE  g[i] = IF i = 1 THEN seqs[i] ELSE g[i - 1] \o seqs[i]
      <3>1. CASE i = m
        <4>1. m \in 1..m /\ m - 1 \in 1..m /\ m - 1 # m
          BY <1>3, <2>0
        <4>2. g[m] = f[m - 1] \o seqs[m]
          BY <4>1
        <4>3. g[m - 1] = f[m - 1]
          BY <4>1
        <4> HIDE DEF g
        <4> QED  BY <1>6, <3>1, <4>2, <4>3
      <3>2. CASE i # m
        <4>1. i \in 1..(m - 1) /\ (i # 1 => i - 1 \in 1..(m - 1) /\ i - 1 # m)
          BY <1>3, <3>2
        <4>2. f[i] = IF i = 1 THEN seqs[i] ELSE f[i - 1] \o seqs[i]
          BY <2>2, <4>1 DEF Flattens
        <4>3. g[i] = f[i] /\ (i # 1 => g[i - 1] = f[i - 1])
          BY <3>2, <4>1
        <4> HIDE DEF g
        <4> QED  BY <4>2, <4>3
      <3> QED  BY <3>1, <3>2
    <2>7. Flattens(g, seqs, m)
      <3>1. g = [i \in 1..m |-> g[i]]
        OBVIOUS
      <3> HIDE DEF g
      <3> QED  BY <2>6, <3>1 DEF Flattens
    <2> QED  BY <1>3, <2>5, <2>7
  <1> QED  BY <1>5, <1>6

\* What FlattenSeq returns: a sequence that begins with the first one, and is no shorter
\* than any of them.
LEMMA FlattenFacts ==
  ASSUME NEW S, NEW seqs \in Seq(Seq(S))
  PROVE  /\ FlattenSeq(seqs) \in Seq(S)
         /\ seqs # <<>> =>
               /\ Len(FlattenSeq(seqs)) >= Len(seqs[1])
               /\ \A k \in 1..Len(seqs[1]) : FlattenSeq(seqs)[k] = seqs[1][k]
         /\ \A j \in 1..Len(seqs) : Len(FlattenSeq(seqs)) >= Len(seqs[j])
  <1> DEFINE n == Len(seqs)
  <1>1. CASE n = 0
    <2>1. seqs = <<>> /\ FlattenSeq(seqs) = <<>>
      BY <1>1 DEF FlattenSeq
    <2>2. 1..Len(seqs) = {}
      BY <1>1
    <2>3. FlattenSeq(seqs) \in Seq(S)
      BY ONLY <2>1, EmptySeq, Zenon
    <2>4. \A j \in 1..Len(seqs) : Len(FlattenSeq(seqs)) >= Len(seqs[j])
      BY <2>2
    <2> QED  BY ONLY <2>1, <2>3, <2>4
  <1>2. CASE n # 0
    <2> DEFINE f == CHOOSE f : Flattens(f, seqs, n)
    <2>1. n \in 1..n /\ 1 \in 1..n
      BY <1>2
    <2>2. FlattenSeq(seqs) = f[n]
      BY <1>2 DEF FlattenSeq, Flattens
    <2>3. Flattens(f, seqs, n)
      BY <2>1, FlattenExists
    <2> HIDE DEF f
    <2>4. ASSUME NEW i \in 1..n
          PROVE  f[i] = IF i = 1 THEN seqs[i] ELSE f[i - 1] \o seqs[i]
      BY <2>3 DEF Flattens
    <2>5. ASSUME NEW i \in 1..n PROVE seqs[i] \in Seq(S) /\ Len(seqs[i]) \in Nat
      OBVIOUS
    <2> HIDE DEF n
    <2>6. n \in Nat
      BY DEF n
    <2> DEFINE Good(i) == /\ f[i] \in Seq(S)
                          /\ Len(f[i]) >= Len(seqs[1])
                          /\ \A k \in 1..Len(seqs[1]) : f[i][k] = seqs[1][k]
                          /\ \A j \in 1..i : Len(f[i]) >= Len(seqs[j])
               Wrong == {i \in 1..n : ~Good(i)}
    <2>7. Wrong = {}
      <3>1. SUFFICES ASSUME Wrong # {} PROVE FALSE
        OBVIOUS
      <3>0. Wrong \in SUBSET Nat
        OBVIOUS
      <3>2. PICK i \in Wrong : \A k \in Wrong : i <= k
        BY <3>0, <3>1, LeastNumber
      <3>3. CASE i = 1
        <4>1. f[1] = seqs[1]
          BY <2>1, <2>4
        <4>2. \A j \in 1..i : j = 1
          BY <3>3
        <4> QED  BY <2>1, <2>5, <3>2, <3>3, <4>1, <4>2
      <3>4. CASE i # 1
        <4>1. i \in 1..n /\ i - 1 \in 1..n /\ i - 1 \notin Wrong
          BY <2>6, <3>2, <3>4
        <4> DEFINE a == f[i - 1]
                   b == seqs[i]
                   c == seqs[1]
        <4>2. Good(i - 1)
          BY <4>1
        <4>3. a \in Seq(S) /\ b \in Seq(S) /\ c \in Seq(S) /\ f[i] = a \o b
          BY <2>1, <2>4, <2>5, <3>4, <4>1, <4>2
        <4>4. Len(a) >= Len(c) /\ \A k \in 1..Len(c) : a[k] = c[k]
          BY <4>2
        <4> HIDE DEF a, b, c
        <4>5. /\ a \o b \in Seq(S) /\ Len(a \o b) = Len(a) + Len(b)
              /\ Len(a) \in Nat /\ Len(b) \in Nat /\ Len(c) \in Nat
              /\ \A k \in 1..Len(a) : (a \o b)[k] = a[k]
          BY <4>3
        <4>6. /\ Len(f[i]) >= Len(c) /\ \A k \in 1..Len(c) : f[i][k] = c[k]
          BY <4>3, <4>4, <4>5
        <4>7. ASSUME NEW j \in 1..i PROVE Len(f[i]) >= Len(seqs[j])
          <5>1. CASE j = i
            BY <4>3, <4>5, <5>1 DEF b
          <5>2. CASE j # i
            <6>1. j \in 1..(i - 1) /\ j \in 1..n
              BY <2>6, <4>1, <5>2
            <6>2. Len(a) >= Len(seqs[j]) /\ Len(seqs[j]) \in Nat
              BY <2>5, <4>2, <6>1 DEF a
            <6> QED  BY <4>3, <4>5, <6>2
          <5> QED  BY <5>1, <5>2
        <4>8. Good(i)
          BY <4>3, <4>5, <4>6, <4>7 DEF c
        <4> QED  BY <3>2, <4>8
      <3> QED  BY <3>3, <3>4
    <2>8. Good(n)
      BY <2>1, <2>7
    <2> HIDE DEF Good
    <2> QED  BY <2>2, <2>8 DEF Good, n
  <1> QED  BY <1>1, <1>2

\* The elements of a sequence that pass a test are a sequence, which is not empty if one
\* passes.
LEMMA FilterFacts ==
  ASSUME NEW S, NEW s \in Seq(S), NEW test \in [1..Len(s) -> BOOLEAN], NEW seqs,
         seqs = [i \in DOMAIN s |-> IF test[i] THEN <<s[i]>> ELSE <<>>]
  PROVE  /\ FlattenSeq(seqs) \in Seq(S)
         /\ (\E i \in 1..Len(s) : test[i]) => FlattenSeq(seqs) # <<>>
  <1>1. DOMAIN s = 1..Len(s) /\ Len(s) \in Nat
    OBVIOUS
  <1>2. ASSUME NEW i \in 1..Len(s) PROVE (IF test[i] THEN <<s[i]>> ELSE <<>>) \in Seq(S)
    <2>1. s[i] \in S
      OBVIOUS
    <2>2. <<s[i]>> \in Seq(S) /\ <<>> \in Seq(S)
      BY <2>1
    <2> QED  BY <2>2
  <1>3. seqs \in Seq(Seq(S)) /\ Len(seqs) = Len(s)
    BY <1>1, <1>2
  <1>4. /\ FlattenSeq(seqs) \in Seq(S)
        /\ \A j \in 1..Len(seqs) : Len(FlattenSeq(seqs)) >= Len(seqs[j])
    BY <1>3, FlattenFacts
  <1>5. ASSUME NEW i \in 1..Len(s), test[i] PROVE Len(seqs[i]) = 1
    BY <1>1, <1>5
  <1>6. ASSUME NEW i \in 1..Len(s), test[i] PROVE FlattenSeq(seqs) # <<>>
    <2>1. Len(FlattenSeq(seqs)) >= 1
      BY <1>3, <1>4, <1>5, <1>6
    <2> QED  BY <2>1
  <1> QED  BY <1>4, <1>6

-----------------------------------------------------------------------------
(* The reader. *)

IsReader(r) ==
    /\ r = [elements |-> r.elements, namespaces |-> r.namespaces, root_seen |-> r.root_seen,
            root_closed |-> r.root_closed, root |-> r.root, started |-> r.started,
            rejected |-> r.rejected]
    /\ \E S : r.elements \in Seq(S)
    /\ \A i \in 1..Len(r.elements) :
          LET frame == r.elements[i]
          IN  /\ frame = [name |-> frame.name, text |-> frame.text, children |-> frame.children,
                          namespace_uri |-> frame.namespace_uri,
                          namespace_count |-> frame.namespace_count]
              /\ \E S : frame.children \in Seq(S)

\* Two frames of one element that differ at most in its text.
SameFrame(f, g) ==
    f.name = g.name /\ f.namespace_uri = g.namespace_uri /\ f.children = g.children

\* The node a frame becomes when its element ends.
IsNode(node, frame) ==
    /\ node.local_name = frame.name.local_name
    /\ node.namespace_uri = frame.namespace_uri
    /\ node.children = frame.children

\* What the readers r and s have in common where s has read one more token: s has
\* rejected it, has opened or closed an element, or stays in the same one.
Opened(r, s, token) ==
    /\ ~r.root_closed /\ ~s.root_closed
    /\ Len(s.elements) = Len(r.elements) + 1
    /\ \A i \in 1..Len(r.elements) : s.elements[i] = r.elements[i]
    /\ LET frame == s.elements[Len(r.elements) + 1]
       IN  /\ frame.name = token.name
           /\ frame.children = <<>>
           /\ frame.namespace_uri = ResolveNamespace(
                 ApplyNamespaceDeclarations(r.namespaces, token.attributes), token.name.prefix)
    /\ s.namespaces = ApplyNamespaceDeclarations(r.namespaces, token.attributes)

Closed(r, s) ==
    LET n == Len(r.elements)
    IN  /\ n > 0
        /\ Len(s.elements) = n - 1
        /\ n = 1 => s.root_closed /\ IsNode(s.root, r.elements[1])
        /\ n > 1 =>
              /\ s.root_closed = r.root_closed
              /\ \A i \in 1..(n - 2) : s.elements[i] = r.elements[i]
              /\ s.elements[n - 1].name = r.elements[n - 1].name
              /\ s.elements[n - 1].namespace_uri = r.elements[n - 1].namespace_uri
              /\ \E node : /\ IsNode(node, r.elements[n])
                           /\ s.elements[n - 1].children = Append(r.elements[n - 1].children, node)

Stays(r, s) ==
    /\ s.root_closed = r.root_closed
    /\ s.root = r.root
    /\ s.namespaces = r.namespaces
    /\ Len(s.elements) = Len(r.elements)
    /\ \A i \in 1..Len(r.elements) : SameFrame(s.elements[i], r.elements[i])

\* An element that ends is a child of the one around it, or the root.
LEMMA CloseElementFacts ==
  ASSUME NEW r, IsReader(r), r.elements # <<>>
  PROVE  IsReader(CloseElement(r)) /\ Closed(r, CloseElement(r))
  <1> DEFINE n     == Len(r.elements)
             frame == r.elements[n]
             node  == [local_name |-> frame.name.local_name, namespace_uri |-> frame.namespace_uri,
                       text |-> frame.text, children |-> frame.children]
             open  == Front(r.elements)
             names == BindingsLeft(r.namespaces, frame.namespace_count)
             s     == CloseElement(r)
  <1>1. PICK S : r.elements \in Seq(S)
    BY DEF IsReader
  <1>2. n \in Nat /\ n > 0
    BY <1>1
  <1>3. /\ open \in Seq(S) /\ Len(open) = n - 1 /\ DOMAIN open = 1..(n - 1)
        /\ \A i \in 1..(n - 1) : open[i] = r.elements[i]
    BY <1>1, <1>2 DEF Front
  <1>4. IsNode(node, frame)
    BY DEF IsNode
  <1>5. ASSUME NEW i \in 1..n
        PROVE  LET f == r.elements[i]
               IN  /\ f = [name |-> f.name, text |-> f.text, children |-> f.children,
                           namespace_uri |-> f.namespace_uri, namespace_count |-> f.namespace_count]
                   /\ \E T : f.children \in Seq(T)
    BY DEF IsReader
  <1>6. CASE n = 1
    <2>1. open = <<>>
      BY <1>3, <1>6
    <2>2. s = [elements |-> <<>>, namespaces |-> names, root_seen |-> r.root_seen,
               root_closed |-> TRUE, root |-> node, started |-> r.started,
               rejected |-> r.rejected]
      <3>1. s = [[r EXCEPT !.elements = open, !.namespaces = names] EXCEPT
                     !.root = node, !.root_closed = TRUE]
        BY <2>1 DEF CloseElement, Last
      <3> HIDE DEF s, open, node, names
      <3> QED  BY <2>1, <3>1 DEF IsReader
    <2> HIDE DEF s, node
    <2>3. Closed(r, s)
      BY <1>4, <1>6, <2>2 DEF Closed
    <2>4. s.elements = <<>>
      BY <2>2
    <2>5. s.elements \in Seq(S) /\ 1..Len(s.elements) = {}
      BY <2>4
    <2>6. IsReader(s)
      BY <2>2, <2>5 DEF IsReader
    <2> QED  BY <2>3, <2>6 DEF s
  <1>7. CASE n # 1
    <2> DEFINE f == r.elements[n - 1]
               g == [name |-> f.name, text |-> f.text, children |-> Append(f.children, node),
                     namespace_uri |-> f.namespace_uri, namespace_count |-> f.namespace_count]
               elements == [i \in 1..(n - 1) |-> IF i = n - 1 THEN g ELSE r.elements[i]]
    <2>1. n - 1 \in 1..n /\ n - 1 \in 1..(n - 1) /\ open # <<>>
      <3> HIDE DEF n, open
      <3>1. n - 1 \in 1..n /\ n - 1 \in 1..(n - 1) /\ Len(open) > 0
        BY <1>2, <1>3, <1>7
      <3>2. Len(<<>>) = 0
        OBVIOUS
      <3> QED  BY <3>1, <3>2
    <2>2. PICK T : f.children \in Seq(T)
      BY <1>5, <2>1
    <2>3. f = [name |-> f.name, text |-> f.text, children |-> f.children,
               namespace_uri |-> f.namespace_uri, namespace_count |-> f.namespace_count]
      BY <1>5, <2>1
    <2>4. [f EXCEPT !.children = Append(f.children, node)] = g
      <3> HIDE DEF f, node
      <3> QED  BY <2>3
    <2>5. [open EXCEPT ![n - 1] = g] = elements
      <3> HIDE DEF open, g
      <3> QED  BY <1>3, <2>1
    <2>6. s = [elements |-> elements, namespaces |-> names, root_seen |-> r.root_seen,
               root_closed |-> r.root_closed, root |-> r.root, started |-> r.started,
               rejected |-> r.rejected]
      <3>1. s = [[r EXCEPT !.elements = open, !.namespaces = names] EXCEPT
                     !.elements[Len(open)].children = Append(@, node)]
        BY <2>1 DEF CloseElement, Last
      <3>2. [r EXCEPT !.elements = open, !.namespaces = names]
              = [elements |-> open, namespaces |-> names, root_seen |-> r.root_seen,
                 root_closed |-> r.root_closed, root |-> r.root, started |-> r.started,
                 rejected |-> r.rejected]
        <4>1. r = [elements |-> r.elements, namespaces |-> r.namespaces,
                   root_seen |-> r.root_seen, root_closed |-> r.root_closed, root |-> r.root,
                   started |-> r.started, rejected |-> r.rejected]
          BY DEF IsReader
        <4> HIDE DEF open, names
        <4> DEFINE q == [r EXCEPT !.elements = open]
        <4>2. q = [elements |-> open, namespaces |-> r.namespaces,
                   root_seen |-> r.root_seen, root_closed |-> r.root_closed, root |-> r.root,
                   started |-> r.started, rejected |-> r.rejected]
          BY <4>1
        <4>3. [r EXCEPT !.elements = open, !.namespaces = names] = [q EXCEPT !.namespaces = names]
          BY <4>1
        <4> HIDE DEF q
        <4>4. [q EXCEPT !.namespaces = names]
                = [elements |-> open, namespaces |-> names, root_seen |-> r.root_seen,
                   root_closed |-> r.root_closed, root |-> r.root, started |-> r.started,
                   rejected |-> r.rejected]
          BY <4>2
        <4> QED  BY <4>3, <4>4
      <3> HIDE DEF s, node, names
      <3>3. s = [elements |-> [open EXCEPT ![n - 1] = [open[n - 1] EXCEPT !.children =
                                                          Append(open[n - 1].children, node)]],
                 namespaces |-> names, root_seen |-> r.root_seen,
                 root_closed |-> r.root_closed, root |-> r.root, started |-> r.started,
                 rejected |-> r.rejected]
        <4> HIDE DEF open, n
        <4> QED  BY <1>3, <3>1, <3>2
      <3>4. open[n - 1] = f
        BY <1>3, <2>1
      <3> HIDE DEF open, f
      <3> QED  BY <2>4, <2>5, <3>3, <3>4
    <2> HIDE DEF s, g, node
    <2>7. elements \in Seq(S \cup {g}) /\ Len(elements) = n - 1
      BY <1>1, <1>2
    <2>8. /\ \A i \in 1..(n - 2) : elements[i] = r.elements[i]
          /\ elements[n - 1] = g
      BY <1>2, <2>1
    <2> HIDE DEF elements
    <2>9. Closed(r, s)
      <3>1. g.name = f.name /\ g.namespace_uri = f.namespace_uri /\ g.children = Append(f.children, node)
        BY DEF g
      <3>2. s.elements = elements /\ s.root_closed = r.root_closed
        BY <2>6
      <3> HIDE DEF f, frame
      <3> QED  BY <1>2, <1>4, <1>7, <2>7, <2>8, <3>1, <3>2 DEF Closed, f, frame
    <2>10. ASSUME NEW i \in 1..(n - 1)
           PROVE  LET h == elements[i]
                  IN  /\ h = [name |-> h.name, text |-> h.text, children |-> h.children,
                              namespace_uri |-> h.namespace_uri, namespace_count |-> h.namespace_count]
                      /\ \E U : h.children \in Seq(U)
      <3>1. CASE i = n - 1
        <4>1. g.children \in Seq(T \cup {node})
          <5>1. f.children \in Seq(T \cup {node})
            BY <2>2
          <5>2. g.children = Append(f.children, node)
            BY DEF g
          <5> HIDE DEF f, g
          <5> QED  BY <5>1, <5>2
        <4>2. g = [name |-> g.name, text |-> g.text, children |-> g.children,
                   namespace_uri |-> g.namespace_uri, namespace_count |-> g.namespace_count]
          BY DEF g
        <4> QED  BY <2>8, <3>1, <4>1, <4>2
      <3>2. CASE i # n - 1
        <4>1. i \in 1..(n - 2) /\ i \in 1..n
          BY <1>2, <3>2
        <4>2. elements[i] = r.elements[i]
          BY <2>8, <4>1
        <4> QED  BY <1>5, <4>1, <4>2
      <3> QED  BY <3>1, <3>2
    <2>11. IsReader(s)
      BY <2>6, <2>7, <2>10 DEF IsReader
    <2> QED  BY <2>9, <2>11 DEF s
  <1> QED  BY <1>6, <1>7

\* A field of the reader that is not about its elements.
LEMMA RejectFacts ==
  ASSUME NEW r, IsReader(r)
  PROVE  IsReader(Reject(r)) /\ Reject(r).rejected
  <1> DEFINE s == Reject(r)
  <1>1. s = [elements |-> r.elements, namespaces |-> r.namespaces, root_seen |-> r.root_seen,
             root_closed |-> r.root_closed, root |-> r.root, started |-> r.started,
             rejected |-> TRUE]
    <2>1. r = [elements |-> r.elements, namespaces |-> r.namespaces, root_seen |-> r.root_seen,
               root_closed |-> r.root_closed, root |-> r.root, started |-> r.started,
               rejected |-> r.rejected]
      BY DEF IsReader
    <2>2. PICK y : y = TRUE
      OBVIOUS
    <2>3. [r EXCEPT !.rejected = y]
            = [elements |-> r.elements, namespaces |-> r.namespaces, root_seen |-> r.root_seen,
               root_closed |-> r.root_closed, root |-> r.root, started |-> r.started,
               rejected |-> y]
      BY ONLY <2>1
    <2> QED  BY ONLY <2>2, <2>3, Zenon DEF Reject
  <1> HIDE DEF s
  <1>2. s.elements = r.elements /\ s.rejected
    BY <1>1
  <1>3. IsReader(s)
    BY <1>1, <1>2 DEF IsReader
  <1> QED  BY <1>2, <1>3 DEF s

LEMMA StartedFacts ==
  ASSUME NEW r, IsReader(r), NEW s, s = [r EXCEPT !.started = TRUE]
  PROVE  /\ IsReader(s)
         /\ s.elements = r.elements /\ s.namespaces = r.namespaces
         /\ s.root_closed = r.root_closed /\ s.root = r.root /\ s.rejected = r.rejected
  <1>1. s = [elements |-> r.elements, namespaces |-> r.namespaces, root_seen |-> r.root_seen,
             root_closed |-> r.root_closed, root |-> r.root, started |-> TRUE,
             rejected |-> r.rejected]
    BY DEF IsReader
  <1>2. /\ s.elements = r.elements /\ s.namespaces = r.namespaces
        /\ s.root_closed = r.root_closed /\ s.root = r.root /\ s.rejected = r.rejected
    BY <1>1
  <1>3. IsReader(s)
    BY <1>1, <1>2 DEF IsReader
  <1> QED  BY <1>2, <1>3

\* Text changes nothing but the text of the innermost element.
LEMMA AppendTextFacts ==
  ASSUME NEW r, IsReader(r), NEW text, r.elements # <<>>
  PROVE  IsReader(AppendText(r, text)) /\ Stays(r, AppendText(r, text))
  <1> DEFINE n == Len(r.elements)
             f == r.elements[n]
             g == [name |-> f.name, text |-> Append(f.text, text), children |-> f.children,
                   namespace_uri |-> f.namespace_uri, namespace_count |-> f.namespace_count]
             elements == [i \in 1..n |-> IF i = n THEN g ELSE r.elements[i]]
             s == AppendText(r, text)
  <1>1. PICK S : r.elements \in Seq(S)
    BY DEF IsReader
  <1>2. n \in Nat /\ n > 0 /\ n \in 1..n
    BY <1>1
  <1>3. ASSUME NEW i \in 1..n
        PROVE  LET h == r.elements[i]
               IN  /\ h = [name |-> h.name, text |-> h.text, children |-> h.children,
                           namespace_uri |-> h.namespace_uri, namespace_count |-> h.namespace_count]
                   /\ \E T : h.children \in Seq(T)
    BY DEF IsReader
  <1>4. f = [name |-> f.name, text |-> f.text, children |-> f.children,
             namespace_uri |-> f.namespace_uri, namespace_count |-> f.namespace_count]
    BY <1>2, <1>3
  <1>5. [f EXCEPT !.text = Append(f.text, text)] = g
    <2> HIDE DEF f
    <2> QED  BY <1>4
  <1>6. [r.elements EXCEPT ![n] = g] = elements
    <2> HIDE DEF g
    <2> QED  BY <1>1, <1>2
  <1>7. s = [elements |-> elements, namespaces |-> r.namespaces, root_seen |-> r.root_seen,
             root_closed |-> r.root_closed, root |-> r.root, started |-> r.started,
             rejected |-> r.rejected]
    <2>1. s = [r EXCEPT !.elements = [r.elements EXCEPT ![n] =
                                        [f EXCEPT !.text = Append(f.text, text)]]]
      BY <1>1, <1>2 DEF AppendText, IsReader
    <2>2. s = [r EXCEPT !.elements = elements]
      BY <1>5, <1>6, <2>1
    <2>3. r = [elements |-> r.elements, namespaces |-> r.namespaces, root_seen |-> r.root_seen,
               root_closed |-> r.root_closed, root |-> r.root, started |-> r.started,
               rejected |-> r.rejected]
      BY DEF IsReader
    <2> HIDE DEF elements, s
    <2> QED  BY <2>2, <2>3
  <1> HIDE DEF s, f
  <1>8. elements \in Seq(S \cup {g}) /\ Len(elements) = n
    <2> HIDE DEF g
    <2> QED  BY <1>1, <1>2
  <1>9. ASSUME NEW i \in 1..n
        PROVE  /\ SameFrame(elements[i], r.elements[i])
               /\ LET h == elements[i]
                  IN  /\ h = [name |-> h.name, text |-> h.text, children |-> h.children,
                              namespace_uri |-> h.namespace_uri,
                              namespace_count |-> h.namespace_count]
                      /\ \E T : h.children \in Seq(T)
    <2>1. CASE i = n
      <3>1. elements[i] = g /\ r.elements[i] = f
        BY <2>1 DEF f
      <3>2. \E T : f.children \in Seq(T)
        BY <1>3, <2>1, <3>1
      <3>3. /\ g.name = f.name /\ g.namespace_uri = f.namespace_uri /\ g.children = f.children
            /\ g = [name |-> g.name, text |-> g.text, children |-> g.children,
                    namespace_uri |-> g.namespace_uri, namespace_count |-> g.namespace_count]
        OBVIOUS
      <3> HIDE DEF g, elements
      <3> QED  BY <3>1, <3>2, <3>3 DEF SameFrame
    <2>2. CASE i # n
      <3>1. elements[i] = r.elements[i]
        BY <2>2
      <3> HIDE DEF elements
      <3> QED  BY <1>3, <3>1 DEF SameFrame
    <2> QED  BY <2>1, <2>2
  <1> HIDE DEF elements, g
  <1>10. s.elements = elements
    BY <1>7
  <1>11. Stays(r, s)
    BY <1>7, <1>8, <1>9 DEF Stays
  <1>12. IsReader(s)
    <2>1. \A i \in 1..Len(s.elements) :
             LET h == s.elements[i]
             IN  /\ h = [name |-> h.name, text |-> h.text, children |-> h.children,
                         namespace_uri |-> h.namespace_uri, namespace_count |-> h.namespace_count]
                 /\ \E T : h.children \in Seq(T)
      BY <1>8, <1>9, <1>10
    <2> QED  BY <1>7, <1>8, <1>10, <2>1 DEF IsReader
  <1> QED  BY <1>11, <1>12 DEF s

\* The element that a start tag opens is the innermost one.
LEMMA OpenFacts ==
  ASSUME NEW r, IsReader(r), NEW token, NEW s, ~r.root_closed,
         s = [r EXCEPT !.elements = Append(@,
                 [name |-> token.name, text |-> <<>>, children |-> <<>>,
                  namespace_uri |-> ResolveNamespace(
                     ApplyNamespaceDeclarations(r.namespaces, token.attributes), token.name.prefix),
                  namespace_count |-> Len(r.namespaces)]),
               !.namespaces = ApplyNamespaceDeclarations(r.namespaces, token.attributes),
               !.root_seen = TRUE]
  PROVE  IsReader(s) /\ Opened(r, s, token)
  <1> DEFINE n     == Len(r.elements)
             names == ApplyNamespaceDeclarations(r.namespaces, token.attributes)
             uri   == ResolveNamespace(names, token.name.prefix)
             g     == [name |-> token.name, text |-> <<>>, children |-> <<>>,
                       namespace_uri |-> uri, namespace_count |-> Len(r.namespaces)]
             elements == Append(r.elements, g)
  <1>1. PICK S : r.elements \in Seq(S)
    BY DEF IsReader
  <1>2. r = [elements |-> r.elements, namespaces |-> r.namespaces, root_seen |-> r.root_seen,
             root_closed |-> r.root_closed, root |-> r.root, started |-> r.started,
             rejected |-> r.rejected]
    BY DEF IsReader
  <1>3. s = [elements |-> elements, namespaces |-> names, root_seen |-> TRUE,
             root_closed |-> r.root_closed, root |-> r.root, started |-> r.started,
             rejected |-> r.rejected]
    <2>1. s = [r EXCEPT !.elements = elements, !.namespaces = names, !.root_seen = TRUE]
      BY <1>2
    <2> HIDE DEF elements, names
    <2> DEFINE q == [r EXCEPT !.elements = elements]
               p == [q EXCEPT !.namespaces = names]
    <2>2. s = [p EXCEPT !.root_seen = TRUE]
      BY <1>2, <2>1
    <2>3. q = [elements |-> elements, namespaces |-> r.namespaces, root_seen |-> r.root_seen,
               root_closed |-> r.root_closed, root |-> r.root, started |-> r.started,
               rejected |-> r.rejected]
      BY <1>2
    <2> HIDE DEF q
    <2>4. p = [elements |-> elements, namespaces |-> names, root_seen |-> r.root_seen,
               root_closed |-> r.root_closed, root |-> r.root, started |-> r.started,
               rejected |-> r.rejected]
      BY <2>3
    <2> HIDE DEF p
    <2> QED  BY <2>2, <2>4
  <1>4. /\ g.name = token.name /\ g.children = <<>> /\ g.namespace_uri = uri
        /\ g = [name |-> g.name, text |-> g.text, children |-> g.children,
                namespace_uri |-> g.namespace_uri, namespace_count |-> g.namespace_count]
    OBVIOUS
  <1> HIDE DEF g, names
  <1>5. n \in Nat /\ r.elements \in Seq(S \cup {g})
    BY <1>1
  <1>6. /\ elements \in Seq(S \cup {g}) /\ Len(elements) = n + 1
        /\ elements[n + 1] = g /\ \A i \in 1..n : elements[i] = r.elements[i]
    BY <1>5
  <1> HIDE DEF elements
  <1>7. /\ s.elements = elements /\ s.root_closed = r.root_closed /\ s.namespaces = names
    BY ONLY <1>3
  <1>8. Opened(r, s, token)
    BY <1>4, <1>5, <1>6, <1>7 DEF Opened, names, uri
  <1>9. ASSUME NEW i \in 1..Len(s.elements)
        PROVE  LET h == s.elements[i]
               IN  /\ h = [name |-> h.name, text |-> h.text, children |-> h.children,
                           namespace_uri |-> h.namespace_uri, namespace_count |-> h.namespace_count]
                   /\ \E T : h.children \in Seq(T)
    <2>1. CASE i = n + 1
      <3>1. s.elements[i] = g
        BY <1>6, <1>7, <2>1
      <3>2. g.children \in Seq({})
        BY <1>4
      <3> QED  BY <1>4, <3>1, <3>2
    <2>2. CASE i # n + 1
      <3>1. i \in 1..n /\ s.elements[i] = r.elements[i]
        BY <1>5, <1>6, <1>7, <2>2
      <3> QED  BY <3>1 DEF IsReader
    <2> QED  BY <2>1, <2>2
  <1>10. IsReader(s)
    BY <1>3, <1>6, <1>7, <1>9 DEF IsReader
  <1> QED  BY <1>8, <1>10

\* What reading one token does.
LEMMA ReadStart ==
  ASSUME NEW r, IsReader(r), ~r.rejected, NEW token, token.type = "start"
  PROVE  LET s == Read(r, token)
         IN  /\ IsReader(s)
             /\ \/ s.rejected
                \/ ~token.self_closing /\ Opened(r, s, token)
                \/ \E q : token.self_closing /\ IsReader(q) /\ Opened(r, q, token) /\ Closed(q, s)
  <1> DEFINE s     == Read(r, token)
             next  == ParseStartElement(r, token)
             names == ApplyNamespaceDeclarations(r.namespaces, token.attributes)
             frame == [name |-> token.name, text |-> <<>>, children |-> <<>>,
                       namespace_uri |-> ResolveNamespace(names, token.name.prefix),
                       namespace_count |-> Len(r.namespaces)]
             opened == [r EXCEPT !.elements = Append(@, frame), !.namespaces = names,
                                 !.root_seen = TRUE]
  <1>1. s = [next EXCEPT !.started = TRUE]
    <2> HIDE DEF next
    <2> QED  BY DEF Read, next
  <1>2. \/ next = Reject(r)
        \/ /\ ~r.root_closed
           /\ next = IF token.self_closing THEN CloseElement(opened) ELSE opened
    BY DEF ParseStartElement
  <1>3. ~r.root_closed => IsReader(opened) /\ Opened(r, opened, token)
    BY OpenFacts
  <1> HIDE DEF s, next, opened
  <1>4. IsReader(next) => /\ IsReader(s)
                          /\ s.elements = next.elements /\ s.namespaces = next.namespaces
                          /\ s.root_closed = next.root_closed /\ s.root = next.root
                          /\ s.rejected = next.rejected
    BY <1>1, StartedFacts
  <1>5. CASE next = Reject(r)
    BY <1>4, <1>5, RejectFacts DEF s
  <1>6. CASE ~r.root_closed /\ ~token.self_closing /\ next = opened
    <2>1. IsReader(s) /\ Opened(r, s, token)
      BY <1>3, <1>4, <1>6 DEF Opened
    <2> QED  BY <1>6, <2>1 DEF s
  <1>7. CASE ~r.root_closed /\ token.self_closing /\ next = CloseElement(opened)
    <2>1. IsReader(opened) /\ Opened(r, opened, token)
      BY <1>3, <1>7
    <2>2. opened.elements # <<>>
      <3>1. PICK S : r.elements \in Seq(S)
        BY DEF IsReader
      <3>2. Len(opened.elements) = Len(r.elements) + 1 /\ Len(r.elements) \in Nat
        BY <2>1, <3>1 DEF Opened
      <3>3. Len(<<>>) = 0
        OBVIOUS
      <3> QED  BY <3>2, <3>3
    <2>3. IsReader(next) /\ Closed(opened, next)
      BY <1>7, <2>1, <2>2, CloseElementFacts
    <2>4. Closed(opened, s)
      BY <1>4, <2>3 DEF Closed
    <2> QED  BY <1>4, <1>7, <2>1, <2>3, <2>4 DEF s
  <1> QED  BY <1>2, <1>5, <1>6, <1>7

LEMMA ReadEnd ==
  ASSUME NEW r, IsReader(r), ~r.rejected, NEW token, token.type = "end"
  PROVE  LET s == Read(r, token)
         IN  IsReader(s) /\ (s.rejected \/ Closed(r, s))
  <1> DEFINE s    == Read(r, token)
             next == ParseEndElement(r, token)
  <1>1. s = [next EXCEPT !.started = TRUE]
    <2> HIDE DEF next
    <2> QED  BY DEF Read, next
  <1>2. next = Reject(r) \/ (r.elements # <<>> /\ next = CloseElement(r))
    BY DEF ParseEndElement, Closes
  <1>3. IsReader(next) /\ (next.rejected \/ Closed(r, next))
    BY <1>2, RejectFacts, CloseElementFacts
  <1> HIDE DEF s, next
  <1>4. /\ IsReader(s)
        /\ s.elements = next.elements /\ s.root_closed = next.root_closed
        /\ s.root = next.root /\ s.rejected = next.rejected
    BY <1>1, <1>3, StartedFacts
  <1>5. Closed(r, next) => Closed(r, s)
    BY <1>4 DEF Closed
  <1> QED  BY <1>3, <1>4, <1>5 DEF s

LEMMA ReadOther ==
  ASSUME NEW r, IsReader(r), ~r.rejected, NEW token, token.type \in {"text", "declaration"}
  PROVE  LET s == Read(r, token)
         IN  IsReader(s) /\ (s.rejected \/ Stays(r, s))
  <1> DEFINE s    == Read(r, token)
             next == IF token.type = "text" THEN ParseText(r, token)
                     ELSE ParseXMLDeclaration(r, token)
  <1>1. s = [next EXCEPT !.started = TRUE]
    <2>1. CASE token.type = "text"
      BY <2>1 DEF Read
    <2>2. CASE token.type = "declaration"
      BY <2>2 DEF Read
    <2> QED  BY <2>1, <2>2
  <1>2. \/ next = Reject(r)
        \/ r.elements # <<>> /\ next = AppendText(r, token.text)
        \/ next = r
    BY DEF ParseText, ParseXMLDeclaration
  <1>3. Stays(r, r)
    BY DEF Stays, SameFrame
  <1>4. IsReader(next) /\ (next.rejected \/ Stays(r, next))
    BY <1>2, <1>3, RejectFacts, AppendTextFacts
  <1> HIDE DEF s, next
  <1>5. /\ IsReader(s)
        /\ s.elements = next.elements /\ s.namespaces = next.namespaces
        /\ s.root_closed = next.root_closed /\ s.root = next.root /\ s.rejected = next.rejected
    BY <1>1, <1>4, StartedFacts
  <1>6. Stays(r, next) => Stays(r, s)
    BY <1>5 DEF Stays
  <1> QED  BY <1>4, <1>5, <1>6 DEF s

-----------------------------------------------------------------------------
(* The store's own report. *)

\* The first child of an element is an Error.
FirstIsError(node) ==
    /\ \E S : node.children \in Seq(S)
    /\ Len(node.children) >= 1
    /\ node.children[1].local_name = "Error"
    /\ node.children[1].namespace_uri = node.namespace_uri

\* A reader that has read an Error, in the root that is open or closed.
HasError(r) ==
    \/ r.elements # <<>> /\ ~r.root_closed /\ FirstIsError(r.elements[1])
    \/ r.elements = <<>> /\ r.root_closed /\ FirstIsError(r.root)

LEMMA OpenKeepsError ==
  ASSUME NEW r, IsReader(r), NEW s, NEW token, Opened(r, s, token), HasError(r)
  PROVE  HasError(s)
  <1>1. PICK S : r.elements \in Seq(S)
    BY DEF IsReader
  <1>2. r.elements # <<>> /\ FirstIsError(r.elements[1])
    BY DEF HasError, Opened
  <1>3. Len(r.elements) \in Nat /\ 1 \in 1..Len(r.elements)
    BY <1>1, <1>2
  <1>4. s.elements[1] = r.elements[1] /\ Len(s.elements) > 0 /\ ~s.root_closed
    BY <1>3 DEF Opened
  <1>5. s.elements # <<>>
    BY <1>4
  <1> QED  BY <1>2, <1>4, <1>5 DEF HasError

LEMMA CloseKeepsError ==
  ASSUME NEW r, IsReader(r), NEW s, IsReader(s), Closed(r, s), HasError(r)
  PROVE  HasError(s)
  <1> DEFINE n == Len(r.elements)
  <1>1. PICK S : r.elements \in Seq(S)
    BY DEF IsReader
  <1>2. PICK T : s.elements \in Seq(T)
    BY DEF IsReader
  <1>3. n \in Nat /\ n > 0 /\ Len(s.elements) = n - 1 /\ Len(<<>>) = 0
    BY <1>1 DEF Closed
  <1>4. r.elements # <<>> /\ ~r.root_closed /\ FirstIsError(r.elements[1])
    BY <1>3 DEF HasError
  <1>5. CASE n = 1
    <2>1. s.elements = <<>>
      BY <1>2, <1>3, <1>5
    <2>2. s.root_closed /\ IsNode(s.root, r.elements[1])
      BY <1>5 DEF Closed
    <2>3. FirstIsError(s.root)
      BY <1>4, <2>2 DEF FirstIsError, IsNode
    <2> QED  BY <2>1, <2>2, <2>3 DEF HasError
  <1>6. CASE n # 1
    <2>1. n > 1 /\ s.elements # <<>> /\ (n = 2 => n - 1 = 1) /\ (n # 2 => 1 \in 1..(n - 2))
      <3> HIDE DEF n
      <3> QED  BY <1>3, <1>6
    <2>2. /\ s.root_closed = r.root_closed
          /\ \A i \in 1..(n - 2) : s.elements[i] = r.elements[i]
          /\ s.elements[n - 1].namespace_uri = r.elements[n - 1].namespace_uri
          /\ \E node : s.elements[n - 1].children = Append(r.elements[n - 1].children, node)
      BY <2>1 DEF Closed
    <2>3. FirstIsError(s.elements[1])
      <3>1. CASE n = 2
        <4> DEFINE c == r.elements[1].children
        <4>1. PICK node : s.elements[1].children = Append(c, node)
          BY <2>1, <2>2, <3>1
        <4>2. s.elements[1].namespace_uri = r.elements[1].namespace_uri
          BY <2>1, <2>2, <3>1
        <4>3. PICK U : c \in Seq(U)
          BY <1>4 DEF FirstIsError
        <4>4. /\ Len(c) >= 1 /\ c[1].local_name = "Error"
              /\ c[1].namespace_uri = r.elements[1].namespace_uri
          BY <1>4 DEF FirstIsError
        <4> HIDE DEF c
        <4>5. c \in Seq(U \cup {node}) /\ Len(c) \in Nat
          BY <4>3
        <4>6. /\ Append(c, node) \in Seq(U \cup {node}) /\ Len(Append(c, node)) = Len(c) + 1
              /\ \A i \in 1..Len(c) : Append(c, node)[i] = c[i]
          BY <4>5
        <4>7. Len(Append(c, node)) >= 1 /\ Append(c, node)[1] = c[1]
          BY <4>4, <4>5, <4>6
        <4> QED  BY <4>1, <4>2, <4>4, <4>6, <4>7 DEF FirstIsError
      <3>2. CASE n # 2
        <4>1. 1 \in 1..(n - 2)
          BY <2>1, <3>2
        <4> QED  BY <1>4, <2>2, <4>1
      <3> QED  BY <3>1, <3>2
    <2> QED  BY <1>4, <2>1, <2>2, <2>3 DEF HasError
  <1> QED  BY <1>5, <1>6

LEMMA StayKeepsError ==
  ASSUME NEW r, IsReader(r), NEW s, IsReader(s), Stays(r, s), HasError(r)
  PROVE  HasError(s)
  <1>1. PICK S : r.elements \in Seq(S)
    BY DEF IsReader
  <1>2. PICK T : s.elements \in Seq(T)
    BY DEF IsReader
  <1>3. Len(r.elements) \in Nat /\ Len(s.elements) = Len(r.elements)
    BY <1>1 DEF Stays
  <1>4. r.elements = <<>> <=> s.elements = <<>>
    BY <1>1, <1>2, <1>3
  <1>5. CASE r.elements = <<>>
    BY <1>4, <1>5 DEF HasError, Stays
  <1>6. CASE r.elements # <<>>
    <2>1. 1 \in 1..Len(r.elements)
      BY <1>1, <1>6
    <2>2. SameFrame(s.elements[1], r.elements[1])
      BY <2>1 DEF Stays
    <2>3. FirstIsError(s.elements[1])
      BY <1>6, <2>2 DEF HasError, FirstIsError, SameFrame
    <2> QED  BY <1>4, <1>6, <2>3 DEF HasError, Stays
  <1> QED  BY <1>5, <1>6

\* What the token at position n + 1 of a report with errors is: the declaration, the root,
\* and the first Error with its Key and Code.
IsToken(n, named, token) ==
    /\ n = 0 => token.type = "declaration"
    /\ n \in {1, 2, 3, 6} => token.type = "start" /\ ~token.self_closing
    /\ n = 1 => token.name.prefix = named.prefix /\ token.attributes = named.attributes
    /\ n = 2 => token.name = Name(named.prefix, "Error") /\ token.attributes = <<>>
    /\ n \in {4, 7} => token.type = "text"
    /\ n \in {5, 8, 9} => token.type = "end"
    /\ n >= 10 => token.type \in {"start", "end", "text", "declaration"}

\* The reader after the first n tokens of such a report.
AtRoot(r, named) ==
    /\ Len(r.elements) = 1
    /\ r.elements[1].children = <<>>
    /\ r.elements[1].namespace_uri = ResolveNamespace(r.namespaces, named.prefix)
    /\ \E S : r.namespaces \in Seq(S)
InError(r, depth) ==
    /\ Len(r.elements) = depth
    /\ r.elements[1].children = <<>>
    /\ r.elements[2].name.local_name = "Error"
    /\ r.elements[2].namespace_uri = r.elements[1].namespace_uri

Reading(n, r, named) ==
    /\ IsReader(r)
    /\ ~r.rejected =>
          /\ n <= 9 => ~r.root_closed
          /\ n <= 1 => r.elements = <<>> /\ r.namespaces = NewReader.namespaces
          /\ n = 2 => AtRoot(r, named)
          /\ n \in {3, 6, 9} => InError(r, 2)
          /\ n \in {4, 5, 7, 8} => InError(r, 3)
          /\ n >= 10 => HasError(r)

\* No attributes declare nothing.
LEMMA NoDeclarations ==
  ASSUME NEW namespaces, NEW S, namespaces \in Seq(S)
  PROVE  ApplyNamespaceDeclarations(namespaces, <<>>) = namespaces
  <1>1. Declarations(<<>>) = <<>>
    BY DEF Declarations, Filter, FlattenSeq
  <1> DEFINE declared == [i \in DOMAIN Declarations(<<>>) |->
                 [prefix |-> DeclaredPrefix(Declarations(<<>>)[i]),
                  uri |-> Declarations(<<>>)[i].value]]
  <1>2. declared = <<>>
    BY <1>1
  <1>3. ApplyNamespaceDeclarations(namespaces, <<>>) = namespaces \o declared
    BY DEF ApplyNamespaceDeclarations
  <1> HIDE DEF declared
  <1> QED  BY <1>2, <1>3

\* The bindings are a sequence when the root has been read.
LEMMA RootDeclarations ==
  ASSUME NEW named \in DeleteNames
  PROVE  \E S : ApplyNamespaceDeclarations(NewReader.namespaces, named.attributes) \in Seq(S)
  <1> DEFINE a == named.attributes
             test == [i \in 1..Len(a) |-> IsDeclaration(a[i])]
             seqs == [i \in DOMAIN a |-> IF test[i] THEN <<a[i]>> ELSE <<>>]
             declared == Declarations(a)
             bound == [i \in DOMAIN declared |->
                          [prefix |-> DeclaredPrefix(declared[i]), uri |-> declared[i].value]]
             S == {bound[i] : i \in DOMAIN declared} \cup {[prefix |-> "xml", uri |-> "xml"]}
  <1>1. a \in Seq(Attributes)
    BY DeleteAssumption
  <1> HIDE DEF a
  <1>2. DOMAIN a = 1..Len(a) /\ \A i \in 1..Len(a) : a[i] \in Attributes
    BY <1>1
  <1>3. test \in [1..Len(a) -> BOOLEAN]
    BY <1>2 DEF IsDeclaration
  <1>4. declared = FlattenSeq(seqs)
    <2>1. [i \in DOMAIN a |-> IF IsDeclaration(a[i]) THEN <<a[i]>> ELSE <<>>] = seqs
      BY <1>2
    <2> HIDE DEF seqs
    <2> QED  BY <2>1 DEF Declarations, Filter
  <1> HIDE DEF test
  <1>5. FlattenSeq(seqs) \in Seq(Attributes)
    BY <1>1, <1>3, FilterFacts
  <1> HIDE DEF seqs
  <1>6. declared \in Seq(Attributes)
    BY <1>4, <1>5
  <1> HIDE DEF declared
  <1>7. DOMAIN declared = 1..Len(declared) /\ Len(declared) \in Nat
    BY <1>6
  <1>8. bound \in Seq(S)
    <2>1. \A i \in 1..Len(declared) : bound[i] \in S
      BY <1>7
    <2>2. bound = [i \in 1..Len(declared) |-> bound[i]]
      BY <1>7
    <2> HIDE DEF bound, S
    <2> QED  BY <1>7, <2>1, <2>2
  <1>9. NewReader.namespaces \in Seq(S)
    <2>1. [prefix |-> "xml", uri |-> "xml"] \in S
      OBVIOUS
    <2> HIDE DEF S
    <2> QED  BY <2>1 DEF NewReader
  <1>10. ApplyNamespaceDeclarations(NewReader.namespaces, a) = NewReader.namespaces \o bound
    BY DEF ApplyNamespaceDeclarations, declared
  <1> HIDE DEF bound, S
  <1>11. NewReader.namespaces \o bound \in Seq(S)
    BY <1>8, <1>9
  <1> QED  BY <1>10, <1>11 DEF a

\* The declaration and the root.
LEMMA ReadsRoot ==
  ASSUME NEW r, NEW n \in {0, 1}, NEW named \in DeleteNames, Reading(n, r, named), ~r.rejected,
         NEW token, IsToken(n, named, token)
  PROVE  Reading(n + 1, Read(r, token), named)
  <1> DEFINE s == Read(r, token)
  <1>1. /\ IsReader(r) /\ ~r.root_closed /\ r.elements = <<>>
        /\ r.namespaces = NewReader.namespaces
    BY DEF Reading
  <1>2. CASE n = 0
    <2>1. IsReader(s) /\ (s.rejected \/ Stays(r, s))
      BY <1>1, <1>2, ReadOther DEF IsToken
    <2> HIDE DEF s
    <2>2. CASE s.rejected
      BY <2>1, <2>2 DEF Reading, s
    <2>3. CASE Stays(r, s)
      <3>1. PICK S : s.elements \in Seq(S)
        BY <2>1 DEF IsReader
      <3>2. Len(s.elements) = 0 /\ ~s.root_closed /\ s.namespaces = NewReader.namespaces
        BY <1>1, <2>3 DEF Stays
      <3>3. s.elements = <<>>
        BY <3>1, <3>2
      <3>4. Reading(1, s, named)
        BY <2>1, <3>2, <3>3 DEF Reading
      <3> QED  BY <1>2, <3>4 DEF s
    <2> QED  BY <2>1, <2>2, <2>3
  <1>3. CASE n = 1
    <2>1. IsReader(s) /\ (s.rejected \/ Opened(r, s, token))
      BY <1>1, <1>3, ReadStart DEF IsToken
    <2> HIDE DEF s
    <2>2. CASE s.rejected
      BY <2>1, <2>2 DEF Reading, s
    <2>3. CASE Opened(r, s, token)
      <3>1. /\ s.namespaces = ApplyNamespaceDeclarations(NewReader.namespaces, named.attributes)
            /\ Len(s.elements) = 1 /\ ~s.root_closed
            /\ s.elements[1].children = <<>>
            /\ s.elements[1].namespace_uri = ResolveNamespace(s.namespaces, named.prefix)
        BY <1>1, <1>3, <2>3 DEF Opened, IsToken
      <3>2. \E S : s.namespaces \in Seq(S)
        BY <3>1, RootDeclarations
      <3>3. AtRoot(s, named)
        BY <3>1, <3>2 DEF AtRoot
      <3>4. Reading(2, s, named)
        BY <2>1, <3>1, <3>3 DEF Reading
      <3> QED  BY <1>3, <3>4 DEF s
    <2> QED  BY <2>1, <2>2, <2>3
  <1> QED  BY <1>2, <1>3

\* The Error.
LEMMA ReadsErrorStart ==
  ASSUME NEW r, NEW named \in DeleteNames, Reading(2, r, named), ~r.rejected,
         NEW token, IsToken(2, named, token)
  PROVE  Reading(3, Read(r, token), named)
  <1> DEFINE s == Read(r, token)
  <1>1. IsReader(r) /\ ~r.root_closed /\ AtRoot(r, named)
    BY DEF Reading
  <1>2. IsReader(s) /\ (s.rejected \/ Opened(r, s, token))
    BY <1>1, ReadStart DEF IsToken
  <1> HIDE DEF s
  <1>3. CASE s.rejected
    BY <1>2, <1>3 DEF Reading, s
  <1>4. CASE Opened(r, s, token)
    <2>1. /\ token.attributes = <<>> /\ token.name.prefix = named.prefix
          /\ token.name.local_name = "Error"
      BY DEF IsToken, Name
    <2>2. ApplyNamespaceDeclarations(r.namespaces, token.attributes) = r.namespaces
      BY <1>1, <2>1, NoDeclarations DEF AtRoot
    <2>3. /\ Len(s.elements) = 2 /\ ~s.root_closed
          /\ s.elements[1] = r.elements[1]
          /\ s.elements[2].name = token.name
          /\ s.elements[2].namespace_uri = ResolveNamespace(r.namespaces, token.name.prefix)
      BY <1>1, <1>4, <2>2 DEF Opened, AtRoot
    <2>4. InError(s, 2)
      BY <1>1, <2>1, <2>3 DEF InError, AtRoot
    <2>5. Reading(3, s, named)
      BY <1>2, <2>3, <2>4 DEF Reading
    <2> QED  BY <2>5 DEF s
  <1> QED  BY <1>2, <1>3, <1>4

\* Key and Code.
LEMMA ReadsInError ==
  ASSUME NEW r, NEW n \in 3..8, NEW named \in DeleteNames, Reading(n, r, named), ~r.rejected,
         NEW token, IsToken(n, named, token)
  PROVE  Reading(n + 1, Read(r, token), named)
  <1> DEFINE s == Read(r, token)
  <1>1. IsReader(r) /\ ~r.root_closed
    BY DEF Reading
  <1>2. CASE n \in {3, 6}
    <2>1. IsReader(s) /\ (s.rejected \/ Opened(r, s, token))
      BY <1>1, <1>2, ReadStart DEF IsToken
    <2>2. InError(r, 2)
      BY <1>2 DEF Reading
    <2> HIDE DEF s
    <2>3. CASE s.rejected
      BY <2>1, <2>3 DEF Reading, s
    <2>4. CASE Opened(r, s, token)
      <3>1. InError(s, 3) /\ ~s.root_closed
        BY <2>2, <2>4 DEF InError, Opened
      <3>2. n + 1 \in {4, 7}
        BY <1>2
      <3>3. Reading(n + 1, s, named)
        BY <2>1, <3>1, <3>2 DEF Reading
      <3> QED  BY <3>3 DEF s
    <2> QED  BY <2>1, <2>3, <2>4
  <1>3. CASE n \in {4, 7}
    <2>1. IsReader(s) /\ (s.rejected \/ Stays(r, s))
      BY <1>1, <1>3, ReadOther DEF IsToken
    <2>2. InError(r, 3)
      BY <1>3 DEF Reading
    <2> HIDE DEF s
    <2>3. CASE s.rejected
      BY <2>1, <2>3 DEF Reading, s
    <2>4. CASE Stays(r, s)
      <3>1. InError(s, 3) /\ ~s.root_closed
        BY <1>1, <2>2, <2>4 DEF InError, Stays, SameFrame
      <3>2. n + 1 \in {5, 8}
        BY <1>3
      <3>3. Reading(n + 1, s, named)
        BY <2>1, <3>1, <3>2 DEF Reading
      <3> QED  BY <3>3 DEF s
    <2> QED  BY <2>1, <2>3, <2>4
  <1>4. CASE n \in {5, 8}
    <2>1. IsReader(s) /\ (s.rejected \/ Closed(r, s))
      BY <1>1, <1>4, ReadEnd DEF IsToken
    <2>2. InError(r, 3)
      BY <1>4 DEF Reading
    <2> HIDE DEF s
    <2>3. CASE s.rejected
      BY <2>1, <2>3 DEF Reading, s
    <2>4. CASE Closed(r, s)
      <3>1. Len(r.elements) = 3
        BY <2>2 DEF InError
      <3>2. /\ Len(s.elements) = 2 /\ ~s.root_closed /\ s.elements[1] = r.elements[1]
            /\ s.elements[2].name = r.elements[2].name
            /\ s.elements[2].namespace_uri = r.elements[2].namespace_uri
        BY <1>1, <2>4, <3>1 DEF Closed
      <3>3. InError(s, 2)
        BY <2>2, <3>2 DEF InError
      <3>4. n + 1 \in {6, 9}
        BY <1>4
      <3>5. Reading(n + 1, s, named)
        BY <2>1, <3>2, <3>3, <3>4 DEF Reading
      <3> QED  BY <3>5 DEF s
    <2> QED  BY <2>1, <2>3, <2>4
  <1>5. n \in {3, 6} \/ n \in {4, 7} \/ n \in {5, 8}
    OBVIOUS
  <1> QED  BY <1>2, <1>3, <1>4, <1>5

\* The end of the Error, and whatever follows.
LEMMA ReadsAfterError ==
  ASSUME NEW r, NEW n \in Nat, n >= 9, NEW named \in DeleteNames, Reading(n, r, named), ~r.rejected,
         NEW token, IsToken(n, named, token)
  PROVE  Reading(n + 1, Read(r, token), named)
  <1> DEFINE s == Read(r, token)
  <1>1. IsReader(r)
    BY DEF Reading
  <1>2. SUFFICES IsReader(s) /\ (s.rejected \/ HasError(s))
    BY DEF Reading
  <1>3. CASE n = 9
    <2>1. IsReader(s) /\ (s.rejected \/ Closed(r, s))
      BY <1>1, <1>3, ReadEnd DEF IsToken
    <2>2. InError(r, 2) /\ ~r.root_closed
      BY <1>3 DEF Reading
    <2> HIDE DEF s
    <2>3. ASSUME Closed(r, s) PROVE HasError(s)
      <3>1. Len(r.elements) = 2
        BY <2>2 DEF InError
      <3>2. /\ Len(s.elements) = 1 /\ ~s.root_closed
            /\ s.elements[1].namespace_uri = r.elements[1].namespace_uri
            /\ \E node : /\ IsNode(node, r.elements[2])
                         /\ s.elements[1].children = Append(r.elements[1].children, node)
        BY <2>2, <2>3, <3>1 DEF Closed
      <3>3. PICK node : /\ IsNode(node, r.elements[2])
                        /\ s.elements[1].children = Append(<<>>, node)
        BY <2>2, <3>2 DEF InError
      <3>4. s.elements[1].children = <<node>>
        BY <3>3
      <3>5. <<node>> \in Seq({node}) /\ Len(<<node>>) = 1 /\ <<node>>[1] = node
        OBVIOUS
      <3>6. /\ node.local_name = "Error"
            /\ node.namespace_uri = s.elements[1].namespace_uri
        BY <2>2, <3>2, <3>3 DEF IsNode, InError
      <3>7. FirstIsError(s.elements[1])
        <4> DEFINE e == s.elements[1]
                   c == e.children
        <4>1. c \in Seq({node}) /\ Len(c) = 1 /\ c[1] = node
          BY ONLY <3>4, <3>5, Zenon
        <4>2. c[1].local_name = "Error" /\ c[1].namespace_uri = e.namespace_uri
          BY <3>6, <4>1
        <4>3. Len(c) >= 1
          BY <4>1
        <4> HIDE DEF e
        <4> QED  BY <4>1, <4>2, <4>3 DEF FirstIsError, e
      <3>8. s.elements # <<>>
        BY <3>2
      <3> QED  BY <3>2, <3>7, <3>8 DEF HasError
    <2> QED  BY <2>1, <2>3
  <1>4. CASE n >= 10
    <2>1. HasError(r) /\ token.type \in {"start", "end", "text", "declaration"}
      BY <1>4 DEF Reading, IsToken
    <2>2. CASE token.type = "start"
      <3>1. /\ IsReader(s)
            /\ \/ s.rejected
               \/ ~token.self_closing /\ Opened(r, s, token)
               \/ \E q : token.self_closing /\ IsReader(q) /\ Opened(r, q, token) /\ Closed(q, s)
        BY <1>1, <2>2, ReadStart
      <3> HIDE DEF s
      <3> QED  BY <1>1, <2>1, <3>1, OpenKeepsError, CloseKeepsError
    <2>3. CASE token.type = "end"
      <3>1. IsReader(s) /\ (s.rejected \/ Closed(r, s))
        BY <1>1, <2>3, ReadEnd
      <3> HIDE DEF s
      <3> QED  BY <1>1, <2>1, <3>1, CloseKeepsError
    <2>4. CASE token.type \in {"text", "declaration"}
      <3>1. IsReader(s) /\ (s.rejected \/ Stays(r, s))
        BY <1>1, <2>4, ReadOther
      <3> HIDE DEF s
      <3> QED  BY <1>1, <2>1, <3>1, StayKeepsError
    <2> QED  BY <2>1, <2>2, <2>3, <2>4
  <1> QED  BY <1>3, <1>4

LEMMA ReadingStep ==
  ASSUME NEW r, NEW n \in Nat, NEW named \in DeleteNames, Reading(n, r, named), ~r.rejected,
         NEW token, IsToken(n, named, token)
  PROVE  Reading(n + 1, Read(r, token), named)
  <1>1. n \in {0, 1} \/ n = 2 \/ n \in 3..8 \/ n >= 9
    OBVIOUS
  <1> QED  BY <1>1, ReadsRoot, ReadsErrorStart, ReadsInError, ReadsAfterError

\* An Error that was read is reported.
LEMMA ErrorIsReported ==
  ASSUME NEW r, HasError(r), ParseDocument(r)
  PROVE  InterpretDeleteObjects(r.root).errors # <<>>
  <1> DEFINE c == r.root.children
             uri == r.root.namespace_uri
             test == [i \in 1..Len(c) |-> c[i].local_name = "Error" /\ c[i].namespace_uri = uri]
             seqs == [i \in DOMAIN c |-> IF test[i] THEN <<c[i]>> ELSE <<>>]
             errors == Children(r.root, uri, "Error")
  <1>1. FirstIsError(r.root)
    BY DEF HasError, ParseDocument
  <1>2. PICK S : c \in Seq(S)
    BY <1>1 DEF FirstIsError
  <1>3. DOMAIN c = 1..Len(c) /\ Len(c) \in Nat /\ 1 \in 1..Len(c)
    BY <1>1, <1>2 DEF FirstIsError
  <1>4. test \in [1..Len(c) -> BOOLEAN] /\ test[1]
    BY <1>1, <1>3 DEF FirstIsError
  <1>5. errors = FlattenSeq(seqs)
    <2>1. [i \in DOMAIN c |-> IF c[i].local_name = "Error" /\ c[i].namespace_uri = uri
                              THEN <<c[i]>> ELSE <<>>] = seqs
      BY <1>3
    <2> HIDE DEF seqs
    <2> QED  BY <2>1 DEF Children, Filter
  <1> HIDE DEF c, test
  <1>6. FlattenSeq(seqs) \in Seq(S) /\ FlattenSeq(seqs) # <<>>
    BY <1>2, <1>3, <1>4, FilterFacts
  <1> HIDE DEF seqs, errors
  <1>7. errors \in Seq(S) /\ errors # <<>>
    BY <1>5, <1>6
  <1>8. 1 \in DOMAIN errors
    BY <1>7
  <1>9. InterpretDeleteObjects(r.root).errors
          = [i \in DOMAIN errors |-> TextIfFound(GetChildText(errors[i], uri, "Key"))]
    BY DEF InterpretDeleteObjects, errors
  <1>10. 1 \in DOMAIN InterpretDeleteObjects(r.root).errors
    BY <1>8, <1>9
  <1>11. DOMAIN <<>> = {}
    OBVIOUS
  <1> QED  BY <1>10, <1>11

\* Two sequences, one after the other.
LEMMA JoinFacts ==
  ASSUME NEW S, NEW s \in Seq(S), NEW t \in Seq(S)
  PROVE  /\ s \o t \in Seq(S) /\ Len(s \o t) = Len(s) + Len(t)
         /\ \A i \in 1..Len(s) : (s \o t)[i] = s[i]
         /\ \A i \in 1..Len(t) : (s \o t)[Len(s) + i] = t[i]
  OBVIOUS

\* The Error of a key.
LEMMA ErrorTokens ==
  ASSUME NEW named, NEW key
  PROVE  /\ \E T : ErrorElement(named, key) \in Seq(T)
         /\ Len(ErrorElement(named, key)) = 8
         /\ \A i \in 1..8 : IsToken(i + 1, named, ErrorElement(named, key)[i])
         /\ \A i \in 1..8 : ErrorElement(named, key)[i].type \in {"start", "end", "text"}
  <1> DEFINE a == Start(Element(named, "Error"), <<>>)
             b == Start(Element(named, "Key"), <<>>)
             c == Text(key)
             d == End(Element(named, "Key"))
             e == Start(Element(named, "Code"), <<>>)
             f == Text("AccessDenied")
             g == End(Element(named, "Code"))
             h == End(Element(named, "Error"))
             element == ErrorElement(named, key)
  <1>1. /\ a.type = "start" /\ ~a.self_closing /\ a.name = Name(named.prefix, "Error")
        /\ a.attributes = <<>>
        /\ b.type = "start" /\ ~b.self_closing /\ e.type = "start" /\ ~e.self_closing
        /\ c.type = "text" /\ f.type = "text"
        /\ d.type = "end" /\ g.type = "end" /\ h.type = "end"
    BY DEF Start, End, Text, Element
  <1>2. element = <<a>> \o <<b, c, d>> \o <<e, f, g>> \o <<h>>
    BY DEF ErrorElement, Leaf
  <1> HIDE DEF a, b, c, d, e, f, g, h, element
  <1> DEFINE U == {a, b, c, d, e, f, g, h}
             x == <<a>> \o <<b, c, d>>
             y == x \o <<e, f, g>>
  <1>3. /\ x \in Seq(U) /\ Len(x) = 4
        /\ x[1] = a /\ x[2] = b /\ x[3] = c /\ x[4] = d
    <2>1. <<a>> \in Seq(U) /\ <<b, c, d>> \in Seq(U)
      OBVIOUS
    <2>2. /\ Len(<<a>>) = 1 /\ <<a>>[1] = a /\ Len(<<b, c, d>>) = 3
          /\ <<b, c, d>>[1] = b /\ <<b, c, d>>[2] = c /\ <<b, c, d>>[3] = d
      OBVIOUS
    <2> QED  BY <2>1, <2>2, JoinFacts
  <1> HIDE DEF x
  <1>4. /\ y \in Seq(U) /\ Len(y) = 7
        /\ y[1] = a /\ y[2] = b /\ y[3] = c /\ y[4] = d /\ y[5] = e /\ y[6] = f /\ y[7] = g
    <2>1. <<e, f, g>> \in Seq(U)
      OBVIOUS
    <2>2. /\ Len(<<e, f, g>>) = 3
          /\ <<e, f, g>>[1] = e /\ <<e, f, g>>[2] = f /\ <<e, f, g>>[3] = g
      OBVIOUS
    <2> DEFINE t == <<e, f, g>>
    <2> HIDE DEF U, t
    <2>3. /\ y \in Seq(U) /\ Len(y) = Len(x) + Len(t)
          /\ \A i \in 1..Len(x) : y[i] = x[i]
          /\ \A i \in 1..Len(t) : y[Len(x) + i] = t[i]
      <3>1. x \in Seq(U) /\ t \in Seq(U) /\ y = x \o t
        BY <1>3, <2>1 DEF t
      <3> HIDE DEF y
      <3> QED  BY <3>1, JoinFacts
    <2>4. Len(t) = 3 /\ t[1] = e /\ t[2] = f /\ t[3] = g
      BY <2>2 DEF t
    <2> HIDE DEF y
    <2>5. /\ y[1] = x[1] /\ y[2] = x[2] /\ y[3] = x[3] /\ y[4] = x[4]
          /\ y[5] = t[1] /\ y[6] = t[2] /\ y[7] = t[3] /\ Len(y) = 7
      <3>1. y[4 + 1] = t[1] /\ y[4 + 2] = t[2] /\ y[4 + 3] = t[3]
        BY <1>3, <2>3, <2>4
      <3> QED  BY <1>3, <2>3, <2>4, <3>1
    <2> QED  BY <1>3, <2>3, <2>4, <2>5
  <1> HIDE DEF y
  <1>5. /\ element \in Seq(U) /\ Len(element) = 8
        /\ element[1] = a /\ element[2] = b /\ element[3] = c /\ element[4] = d
        /\ element[5] = e /\ element[6] = f /\ element[7] = g /\ element[8] = h
    <2>1. <<h>> \in Seq(U)
      OBVIOUS
    <2>2. Len(<<h>>) = 1 /\ <<h>>[1] = h
      OBVIOUS
    <2>3. element = y \o <<h>>
      BY <1>2 DEF x, y
    <2> DEFINE t == <<h>>
    <2> HIDE DEF U, t
    <2>4. /\ element \in Seq(U) /\ Len(element) = Len(y) + Len(t)
          /\ \A i \in 1..Len(y) : element[i] = y[i]
          /\ \A i \in 1..Len(t) : element[Len(y) + i] = t[i]
      BY SMTT(40), <1>4, <2>1, <2>3, JoinFacts DEF t
    <2>5. Len(t) = 1 /\ t[1] = h
      BY <2>2 DEF t
    <2>6. element[8] = h
      <3>1. element[7 + 1] = t[1]
        BY <1>4, <2>4, <2>5
      <3> QED  BY <2>5, <3>1
    <2> QED  BY <1>4, <2>4, <2>5, <2>6
  <1>6. ASSUME NEW i \in 1..8
        PROVE  IsToken(i + 1, named, element[i]) /\ element[i].type \in {"start", "end", "text"}
    <2>1. i \in {1, 2, 3, 4, 5, 6, 7, 8}
      OBVIOUS
    <2>2. CASE i = 1
      BY <1>1, <1>5, <2>2 DEF IsToken
    <2>3. CASE i \in {2, 5}
      BY <1>1, <1>5, <2>3 DEF IsToken
    <2>4. CASE i \in {3, 6}
      BY <1>1, <1>5, <2>4 DEF IsToken
    <2>5. CASE i \in {4, 7, 8}
      BY <1>1, <1>5, <2>5 DEF IsToken
    <2> QED  BY <2>1, <2>2, <2>3, <2>4, <2>5
  <1> QED  BY <1>5, <1>6 DEF element

\* A report of refused keys begins with the Error of the first one.
LEMMA ReportTokens ==
  ASSUME NEW named, NEW S, NEW keys \in Seq(S), keys # <<>>
  PROVE  LET doc == DeleteResult(named, keys)
         IN  /\ \E T : doc \in Seq(T)
             /\ \A i \in 1..Len(doc) : IsToken(i - 1, named, doc[i])
  <1> DEFINE n     == Len(keys)
             p     == Declaration
             q     == Start(Element(named, "DeleteResult"), named.attributes)
             z     == End(Element(named, "DeleteResult"))
             seqs  == [i \in DOMAIN keys |-> ErrorElement(named, keys[i])]
             R     == {ErrorElement(named, keys[k])[j] : k \in 1..n, j \in 1..8}
             flat  == FlattenSeq(seqs)
             doc   == DeleteResult(named, keys)
  <1>1. n \in Nat /\ 1 \in 1..n /\ DOMAIN keys = 1..n
    OBVIOUS
  <1>2. /\ p.type = "declaration" /\ z.type = "end"
        /\ q.type = "start" /\ ~q.self_closing
        /\ q.name.prefix = named.prefix /\ q.attributes = named.attributes
    BY DEF Declaration, Start, End, Element, Name
  <1>3. doc = <<p, q>> \o flat \o <<z>>
    BY DEF DeleteResult
  <1> HIDE DEF n, p, q, z, doc
  <1>4. ASSUME NEW k \in 1..n PROVE ErrorElement(named, keys[k]) \in Seq(R)
    <2> DEFINE e == ErrorElement(named, keys[k])
    <2>1. PICK T : e \in Seq(T)
      BY ErrorTokens
    <2>2. Len(e) = 8
      BY ErrorTokens
    <2>3. \A j \in 1..8 : e[j] \in R
      OBVIOUS
    <2> HIDE DEF e, R
    <2>4. e \in Seq(R)
      <3>1. e = [j \in 1..8 |-> e[j]]
        BY <2>1, <2>2
      <3> QED  BY <2>3, <3>1
    <2> QED  BY <2>4 DEF e
  <1>5. ASSUME NEW t \in R PROVE t.type \in {"start", "end", "text"}
    <2>1. PICK k \in 1..n, j \in 1..8 : t = ErrorElement(named, keys[k])[j]
      OBVIOUS
    <2> QED  BY SMTT(40), <2>1, ErrorTokens
  <1> HIDE DEF R
  <1>6. seqs \in Seq(Seq(R)) /\ Len(seqs) = n /\ seqs[1] = ErrorElement(named, keys[1])
    BY <1>1, <1>4
  <1> HIDE DEF seqs
  <1>7. /\ flat \in Seq(R)
        /\ Len(flat) >= Len(seqs[1])
        /\ \A k \in 1..Len(seqs[1]) : flat[k] = seqs[1][k]
    BY <1>1, <1>6, FlattenFacts
  <1> HIDE DEF flat
  <1>8. /\ Len(flat) \in Nat /\ Len(flat) >= 8
        /\ \A k \in 1..8 : flat[k] = ErrorElement(named, keys[1])[k]
    <2>1. Len(seqs[1]) = 8
      BY <1>6, ErrorTokens
    <2> QED  BY <1>6, <1>7, <2>1
  <1>9. /\ doc \in Seq(R \cup {p, q, z}) /\ Len(doc) = Len(flat) + 3
        /\ doc[1] = p /\ doc[2] = q /\ doc[Len(flat) + 3] = z
        /\ \A k \in 1..Len(flat) : doc[k + 2] = flat[k]
    <2> DEFINE U == R \cup {p, q, z}
               front == <<p, q>> \o flat
    <2>1. <<p, q>> \in Seq(U) /\ <<z>> \in Seq(U) /\ flat \in Seq(U)
      BY <1>7
    <2> HIDE DEF U
    <2>2. /\ front \in Seq(U) /\ Len(front) = Len(flat) + 2
          /\ front[1] = p /\ front[2] = q
          /\ \A k \in 1..Len(flat) : front[k + 2] = flat[k]
      BY <1>8, <2>1
    <2>3. doc = front \o <<z>>
      BY <1>3
    <2> HIDE DEF front
    <2>4. /\ doc \in Seq(U) /\ Len(doc) = Len(front) + 1
          /\ doc[Len(front) + 1] = z
          /\ \A k \in 1..Len(front) : doc[k] = front[k]
      BY <2>1, <2>2, <2>3
    <2>5. \A k \in 1..Len(flat) : doc[k + 2] = flat[k]
      BY SMTT(40), <1>8, <2>2, <2>4
    <2>6. doc[1] = p /\ doc[2] = q
      BY <1>8, <2>2, <2>4
    <2>7. Len(front) + 1 = Len(flat) + 3
      BY <1>8, <2>2
    <2> QED  BY <2>4, <2>5, <2>6, <2>7 DEF U
  <1>10. ASSUME NEW i \in 1..Len(doc) PROVE IsToken(i - 1, named, doc[i])
    <2>1. i \in Nat /\ (i = 1 \/ i = 2 \/ i \in 3..10 \/ i \in 11..(Len(flat) + 2) \/ i = Len(flat) + 3)
      BY <1>8, <1>9
    <2>2. CASE i = 1
      BY <1>2, <1>9, <2>2 DEF IsToken
    <2>3. CASE i = 2
      BY <1>2, <1>9, <2>3 DEF IsToken
    <2>4. CASE i \in 3..10
      <3> DEFINE k == i - 2
      <3>1. k \in 1..8 /\ k \in 1..Len(flat) /\ i = k + 2 /\ i - 1 = k + 1
        BY <1>8, <2>4
      <3> HIDE DEF k
      <3>2. doc[i] = ErrorElement(named, keys[1])[k]
        BY <1>8, <1>9, <3>1
      <3> QED  BY <3>1, <3>2, ErrorTokens
    <2>5. CASE i \in 11..(Len(flat) + 2)
      <3> DEFINE k == i - 2
      <3>1. k \in 1..Len(flat) /\ i = k + 2 /\ i - 1 \in Nat /\ i - 1 >= 10
        BY <1>8, <2>5
      <3> HIDE DEF k
      <3>2. doc[i].type \in {"start", "end", "text"}
        BY <1>5, <1>7, <1>9, <3>1
      <3> QED  BY <3>1, <3>2 DEF IsToken
    <2>6. CASE i = Len(flat) + 3
      BY SMTT(40), <1>2, <1>8, <1>9, <2>6 DEF IsToken
    <2> QED  BY <2>1, <2>2, <2>3, <2>4, <2>5, <2>6
  <1> QED  BY <1>9, <1>10 DEF doc

\* The store's own answer has refused no key of the chunk that was asked for, or is the
\* report of an Error that the reader is on its way to, or has read.
ReportInv ==
    truthful /\ pc = "ReadResponse" =>
        \/ \A path \in ToSet(Chunk) : Object(path) \notin objects
        \/ \E named \in DeleteNames :
              /\ \E S : answer \in Seq(S)
              /\ \E S : document \in Seq(S)
              /\ Reading(Len(document), reader, named)
              /\ \A i \in 1..Len(answer) : IsToken(Len(document) + i - 1, named, answer[i])

\* The reader is new when the answer comes.
LEMMA RequestReports ==
  ASSUME Inv, Request
  PROVE  ReportInv'
  <1> SUFFICES ASSUME truthful', pc' = "ReadResponse"
               PROVE  \/ \A path \in ToSet(Chunk') : Object(path) \notin objects'
                      \/ \E named \in DeleteNames :
                            /\ \E S : answer' \in Seq(S)
                            /\ \E S : document' \in Seq(S)
                            /\ Reading(Len(document'), reader', named)
                            /\ \A i \in 1..Len(answer') :
                                  IsToken(Len(document') + i - 1, named, answer'[i])
    BY DEF ReportInv
  <1>1. pc = "Request" /\ UNCHANGED <<batch, batch_start>>
    BY DEF Request
  <1>2. Chunk' = Chunk
    BY <1>1 DEF Chunk
  <1>3. Chunk \in Seq(Path)
    BY <1>1, ChunkPaths DEF Inv, WorkInv, InRequest
  <1>4. PICK refused \in SUBSET ToSet(Chunk) :
          /\ Deletes(ToSet(Chunk) \ refused)
          /\ LET keys == Filter(Chunk, LAMBDA path : path \in refused)
             IN  \E named \in DeleteNames :
                     StartReading(DeleteResult(named, [i \in DOMAIN keys |-> keys[i].key]), TRUE)
    BY DEF Request, Throw, StartReading
  <1> DEFINE c    == Chunk
             keys == Filter(c, LAMBDA path : path \in refused)
             test == [i \in 1..Len(c) |-> c[i] \in refused]
             seqs == [i \in DOMAIN c |-> IF test[i] THEN <<c[i]>> ELSE <<>>]
             names == [i \in DOMAIN keys |-> keys[i].key]
  <1>5. PICK named \in DeleteNames : StartReading(DeleteResult(named, names), TRUE)
    BY <1>4
  <1>6. objects' = objects \ {Object(path) : path \in ToSet(c) \ refused}
    BY <1>4 DEF Deletes
  <1>7. keys = FlattenSeq(seqs)
    <2>1. DOMAIN c = 1..Len(c)
      BY <1>3
    <2>2. [i \in DOMAIN c |-> IF c[i] \in refused THEN <<c[i]>> ELSE <<>>] = seqs
      BY <2>1
    <2> HIDE DEF seqs
    <2> QED  BY <2>2 DEF Filter
  <1> HIDE DEF c
  <1>8. c \in Seq(Path) /\ test \in [1..Len(c) -> BOOLEAN]
    BY <1>3 DEF c
  <1> HIDE DEF test
  <1>9. /\ FlattenSeq(seqs) \in Seq(Path)
        /\ (\E i \in 1..Len(c) : test[i]) => FlattenSeq(seqs) # <<>>
    BY <1>8, FilterFacts
  <1> HIDE DEF seqs, keys
  <1>10. /\ keys \in Seq(Path)
         /\ (\E i \in 1..Len(c) : c[i] \in refused) => keys # <<>>
    BY <1>7, <1>9 DEF test
  <1>11. CASE keys = <<>>
    <2>1. refused = {}
      BY <1>8, <1>10, <1>11 DEF ToSet, c
    <2> QED  BY <1>2, <1>6, <2>1 DEF c
  <1>12. CASE keys # <<>>
    <2> DEFINE S == {keys[i].key : i \in DOMAIN keys}
               doc == DeleteResult(named, names)
    <2>1. DOMAIN keys = 1..Len(keys) /\ Len(keys) \in Nat /\ 1 \in DOMAIN keys
      BY <1>10, <1>12
    <2>2. names \in Seq(S) /\ 1 \in DOMAIN names
      <3>1. \A i \in 1..Len(keys) : names[i] \in S
        BY <2>1
      <3>2. names = [i \in 1..Len(keys) |-> names[i]]
        BY <2>1
      <3> HIDE DEF S, names
      <3> QED  BY <2>1, <3>1, <3>2
    <2>3. DOMAIN <<>> = {}
      OBVIOUS
    <2> HIDE DEF S, names
    <2>4. names # <<>>
      BY <2>2, <2>3
    <2>5. (\E T : doc \in Seq(T)) /\ \A i \in 1..Len(doc) : IsToken(i - 1, named, doc[i])
      BY <2>2, <2>4, ReportTokens
    <2> HIDE DEF doc
    <2>6. answer' = doc /\ document' = <<>> /\ reader' = NewReader
      BY <1>5 DEF StartReading, doc
    <2>7. IsReader(NewReader)
      <3>1. NewReader.elements = <<>>
        BY DEF NewReader
      <3>2. 1..Len(NewReader.elements) = {} /\ NewReader.elements \in Seq({})
        BY <3>1
      <3>3. NewReader = [elements |-> NewReader.elements, namespaces |-> NewReader.namespaces,
                         root_seen |-> NewReader.root_seen, root_closed |-> NewReader.root_closed,
                         root |-> NewReader.root, started |-> NewReader.started,
                         rejected |-> NewReader.rejected]
        BY DEF NewReader
      <3> QED  BY <3>2, <3>3 DEF IsReader
    <2>8. Reading(0, NewReader, named)
      <3>1. ~NewReader.root_closed /\ NewReader.elements = <<>>
        BY DEF NewReader
      <3> QED  BY <2>7, <3>1 DEF Reading
    <2>9. document' \in Seq({}) /\ Len(document') = 0
      BY <2>6
    <2>10. \A i \in 1..Len(answer') : Len(document') + i - 1 = i - 1
      <3>1. Len(answer') \in Nat
        BY <2>5, <2>6
      <3> QED  BY <2>9, <3>1
    <2> QED  BY <2>5, <2>6, <2>8, <2>9, <2>10
  <1> QED  BY <1>11, <1>12

\* Every token brings the reader on.
LEMMA ReadTokenReports ==
  ASSUME Inv, ReportInv, ReadToken
  PROVE  ReportInv'
  <1> SUFFICES ASSUME truthful', pc' = "ReadResponse" PROVE ReportInv'
    BY DEF ReportInv
  <1>1. UNCHANGED <<batch, batch_start, objects, truthful, pc>>
    BY DEF ReadToken, batchVars, storeVars
  <1>2. Chunk' = Chunk
    BY <1>1 DEF Chunk
  <1>3. CASE \A path \in ToSet(Chunk) : Object(path) \notin objects
    BY <1>1, <1>2, <1>3 DEF ReportInv
  <1>4. CASE ~\A path \in ToSet(Chunk) : Object(path) \notin objects
    <2>1. PICK named \in DeleteNames :
              /\ \E S : answer \in Seq(S)
              /\ \E S : document \in Seq(S)
              /\ Reading(Len(document), reader, named)
              /\ \A i \in 1..Len(answer) : IsToken(Len(document) + i - 1, named, answer[i])
      BY <1>1, <1>4 DEF ReportInv
    <2>2. /\ ~reader.rejected /\ answer # <<>> /\ answer' = Tail(answer)
          /\ document' = Append(document, answer[1]) /\ reader' = Read(reader, answer[1])
      BY <1>1 DEF ReadToken
    <2>3. PICK S : answer \in Seq(S)
      BY <2>1
    <2>4. PICK D : document \in Seq(D)
      BY <2>1
    <2> DEFINE n == Len(document)
               t == answer[1]
    <2>5. n \in Nat /\ Len(answer) \in Nat /\ 1 \in 1..Len(answer) /\ n + 1 - 1 = n
      BY <2>2, <2>3, <2>4
    <2>6. IsToken(n, named, t)
      BY <2>1, <2>5
    <2>7. Reading(n + 1, reader', named)
      BY <2>1, <2>2, <2>5, <2>6, ReadingStep
    <2>8. document' \in Seq(D \cup {t}) /\ Len(document') = n + 1
      <3> HIDE DEF t
      <3>1. document' = Append(document, t) /\ document \in Seq(D \cup {t})
        BY <2>2, <2>4 DEF t
      <3> QED  BY <3>1
    <2>9. /\ answer' \in Seq(S) /\ Len(answer') = Len(answer) - 1
          /\ \A i \in 1..Len(answer') : answer'[i] = answer[i + 1]
      BY <2>2, <2>3
    <2> HIDE DEF t
    <2>10. ASSUME NEW i \in 1..Len(answer')
           PROVE  IsToken(Len(document') + i - 1, named, answer'[i])
      <3>1. i + 1 \in 1..Len(answer) /\ Len(document') + i - 1 = n + (i + 1) - 1
        BY <2>5, <2>8, <2>9
      <3> QED  BY <2>1, <2>9, <3>1
    <2> QED  BY <2>7, <2>8, <2>9, <2>10 DEF ReportInv
  <1> QED  BY <1>3, <1>4

\* The other steps begin and end the reading of no answer.
LEMMA NextReports == Inv /\ ReportInv /\ [Next]_vars => ReportInv'
  <1> SUFFICES ASSUME Inv, ReportInv, [Next]_vars PROVE ReportInv'
    OBVIOUS
  <1>1. CASE UNCHANGED vars
    BY <1>1 DEF vars, batchVars, storeVars, readVars, ReportInv, Chunk
  <1>2. CASE ResolvePath \/ NextBatch \/ EndOfBody \/ RemoveFile \/ RemoveDirectory \/ RefreshSecret
    <2>1. pc' # "ReadResponse"
      BY <1>2 DEF ResolvePath, NextBatch, EndOfBody, RemoveFile, RemoveDirectory, RefreshSecret, Throw
    <2> QED  BY <2>1 DEF ReportInv
  <1> QED  BY <1>1, <1>2, RequestReports, ReadTokenReports DEF Next

\* A report of the store's own that the reader finds clean tells of keys that are gone: an
\* Error that follows the root's start tag cannot be missed, wherever the body was cut,
\* whatever prefix the store gives its names and whatever namespace the prefix is bound to.
THEOREM CleanReportsAreTrue == Spec => []CleanReportIsTrue
  <1>1. Init => ReportInv
    <2> SUFFICES ASSUME Init PROVE ReportInv
      OBVIOUS
    <2>1. pc # "ReadResponse"
      BY DeleteAssumption DEF Init
    <2> QED  BY <2>1 DEF ReportInv
  <1>2. ASSUME ReportInv PROVE CleanReportIsTrue
    <2> SUFFICES ASSUME pc = "ReadResponse", truthful, ReportIsClean,
                        ~\A path \in ToSet(Chunk) : Object(path) \notin objects
                 PROVE  FALSE
      BY DEF CleanReportIsTrue
    <2>1. PICK named \in DeleteNames :
              /\ \E S : document \in Seq(S)
              /\ Reading(Len(document), reader, named)
      BY <1>2 DEF ReportInv
    <2>2. ParseDocument(reader) /\ InterpretDeleteObjects(reader.root).errors = <<>>
      BY DEF ReportIsClean
    <2>3. ~reader.rejected /\ reader.root_closed
      BY <2>2 DEF ParseDocument
    <2>4. Len(document) \in Nat
      BY <2>1
    <2>5. Len(document) >= 10
      BY <2>1, <2>3, <2>4 DEF Reading
    <2>6. HasError(reader)
      BY <2>1, <2>3, <2>4, <2>5 DEF Reading
    <2> QED  BY <2>2, <2>6, ErrorIsReported
  <1> QED  BY <1>1, <1>2, NextReports, DeleteInvariant, PTL DEF Spec

-----------------------------------------------------------------------------
(* No path is forgotten. *)

\* The last element of a sequence that was appended to, and the ones before.
LEMMA AppendedPaths ==
  ASSUME NEW s \in Seq(Path), NEW path \in Path
  PROVE  /\ \A j \in DOMAIN s : j \in DOMAIN Append(s, path) /\ Append(s, path)[j] = s[j]
         /\ Len(s) + 1 \in DOMAIN Append(s, path) /\ Append(s, path)[Len(s) + 1] = path
  OBVIOUS

\* A path that is resolved is in a batch, with all that were resolved before.
LEMMA ResolvePathCovers ==
  ASSUME Inv, CoveredInv, ResolvePath
  PROVE  CoveredInv'
  <1>1. pc = "RemoveFiles" /\ UNCHANGED <<operation, objects, truthful>>
    BY DEF ResolvePath, storeVars, readVars
  <1>2. CASE ~operation.paths[resolved + 1].absolute
    BY <1>2 DEF ResolvePath, Throw, CoveredInv, InRequest
  <1>3. CASE operation.paths[resolved + 1].absolute
    <2> DEFINE path == operation.paths[resolved + 1]
               key  == CreateDeleteBatchKey(path)
               old  == IF key \in DOMAIN delete_batches THEN delete_batches[key].paths ELSE <<>>
    <2>1. /\ path \in Path
          /\ resolved' = resolved + 1
          /\ DOMAIN delete_batches' = DOMAIN delete_batches \cup {key}
          /\ \A k \in DOMAIN delete_batches : k # key => delete_batches'[k] = delete_batches[k]
          /\ delete_batches'[key].paths = Append(old, path)
          /\ pc' = "RemoveFiles"
      BY <1>3, ResolvedBatches
    <2>2. old \in Seq(Path)
      BY DEF Inv, BatchesInv, IsBatch
    <2>3. /\ \A j \in DOMAIN old : j \in DOMAIN Append(old, path) /\ Append(old, path)[j] = old[j]
          /\ Len(old) + 1 \in DOMAIN Append(old, path) /\ Append(old, path)[Len(old) + 1] = path
      BY <2>1, <2>2, AppendedPaths
    <2>4. ASSUME NEW i \in DOMAIN operation.paths, Batched(i) PROVE Batched(i)'
      <3>1. PICK k \in DOMAIN delete_batches : \E j \in DOMAIN delete_batches[k].paths :
                delete_batches[k].paths[j] = operation.paths[i]
        BY <2>4 DEF Batched
      <3>2. PICK j \in DOMAIN delete_batches[k].paths :
                delete_batches[k].paths[j] = operation.paths[i]
        BY <3>1
      <3> HIDE DEF key, path
      <3>3. k \in DOMAIN delete_batches' /\ j \in DOMAIN delete_batches'[k].paths
            /\ delete_batches'[k].paths[j] = operation.paths[i]
        <4>1. CASE k = key
          <5>1. old = delete_batches[k].paths
            BY <4>1
          <5> HIDE DEF old
          <5> QED  BY <2>1, <2>3, <3>2, <4>1, <5>1
        <4>2. CASE k # key
          BY <2>1, <3>2, <4>2
        <4> QED  BY <4>1, <4>2
      <3> QED  BY <1>1, <3>3 DEF Batched
    <2>5. ASSUME NEW i \in DOMAIN operation.paths, i = resolved + 1 PROVE Batched(i)'
      <3>1. operation'.paths[i] = path
        BY <1>1, <2>5
      <3> HIDE DEF key, path, old
      <3> QED  BY <2>1, <2>3, <3>1 DEF Batched
    <2>6. SUFFICES ASSUME truthful, NEW i \in DOMAIN operation.paths, i <= resolved + 1
                   PROVE  Gone(i)' \/ Batched(i)'
      BY <1>1, <2>1 DEF CoveredInv, InRequest
    <2>7. CASE i = resolved + 1
      BY <2>5, <2>7
    <2>8. CASE i # resolved + 1
      <3>1. i <= resolved
        <4>1. i \in Nat /\ resolved \in Nat
          BY DEF Inv, TypeInv
        <4> QED  BY <2>6, <2>8, <4>1
      <3>2. Gone(i) \/ Batched(i)
        BY <1>1, <2>6, <3>1 DEF CoveredInv
      <3>3. Gone(i) => Gone(i)'
        BY <1>1 DEF Gone
      <3> QED  BY <2>4, <3>2, <3>3
    <2> QED  BY SMTT(40), <2>7, <2>8
  <1> QED  BY <1>2, <1>3

\* The paths of a batch taken into work are ahead in it.
LEMMA NextBatchCovers ==
  ASSUME Inv, CoveredInv, NextBatch
  PROVE  CoveredInv'
  <1>1. /\ pc = "RemoveFiles" /\ resolved = Len(operation.paths)
        /\ UNCHANGED <<operation, objects, truthful, resolved>>
    BY DEF NextBatch, storeVars, readVars
  <1>2. ASSUME truthful, NEW i \in DOMAIN operation.paths PROVE Gone(i) \/ Batched(i)
    <2>1. i <= resolved
      <3>1. operation.paths \in Seq(Path)
        BY DEF Inv, TypeInv
      <3> QED  BY <1>1, <3>1
    <2> QED  BY <1>1, <1>2, <2>1 DEF CoveredInv
  <1>3. \A i \in DOMAIN operation.paths : Gone(i) => Gone(i)'
    BY <1>1 DEF Gone
  <1>4. CASE delete_batches = <<>> /\ pc' = "Returned"
    <2>1. DOMAIN delete_batches = {}
      BY <1>4
    <2>2. \A i \in DOMAIN operation.paths : ~Batched(i)
      BY <2>1 DEF Batched
    <2> QED  BY <1>1, <1>2, <1>3, <1>4, <2>2 DEF CoveredInv, InRequest
  <1>5. ASSUME NEW key \in DOMAIN delete_batches,
               batch' = delete_batches[key].paths,
               batch_start' = 0,
               delete_batches' = [k \in DOMAIN delete_batches \ {key} |-> delete_batches[k]],
               pc' = "Request"
        PROVE  CoveredInv'
    <2>1. ASSUME NEW i \in DOMAIN operation.paths, Batched(i) PROVE Batched(i)' \/ Ahead(i)'
      <3>1. PICK k \in DOMAIN delete_batches : \E j \in DOMAIN delete_batches[k].paths :
                delete_batches[k].paths[j] = operation.paths[i]
        BY <2>1 DEF Batched
      <3>2. PICK j \in DOMAIN delete_batches[k].paths :
                delete_batches[k].paths[j] = operation.paths[i]
        BY <3>1
      <3>3. CASE k = key
        <4>1. batch' \in Seq(Path) /\ j \in DOMAIN batch' /\ batch'[j] = operation.paths[i]
          BY <1>5, <3>2, <3>3 DEF Inv, BatchesInv, IsBatch
        <4>2. j > 0
          BY <4>1
        <4> QED  BY <1>1, <1>5, <4>1, <4>2 DEF Ahead
      <3>4. CASE k # key
        <4>1. k \in DOMAIN delete_batches' /\ delete_batches'[k] = delete_batches[k]
          BY <1>5, <3>4
        <4> QED  BY <1>1, <3>2, <4>1 DEF Batched
      <3> QED  BY <3>3, <3>4
    <2> QED  BY <1>1, <1>2, <1>3, <1>5, <2>1 DEF CoveredInv
  <1> QED  BY <1>4, <1>5 DEF NextBatch

\* A request leaves its paths ahead until its answer has been read.
LEMMA RequestCovers ==
  ASSUME Inv, CoveredInv, Request
  PROVE  CoveredInv'
  <1>1. /\ pc = "Request" /\ pc' \in {"RequestError", "StatusError", "ReadResponse"}
        /\ UNCHANGED <<operation, resolved, delete_batches, batch, batch_start>>
        /\ truthful' => truthful
        /\ \E paths \in SUBSET ToSet(Chunk) : Deletes(paths)
    BY RequestDeletes
  <1>2. objects' \subseteq objects
    BY <1>1 DEF Deletes
  <1>3. \A i \in DOMAIN operation.paths : /\ Gone(i) => Gone(i)'
                                          /\ Batched(i) => Batched(i)'
                                          /\ Ahead(i) => Ahead(i)'
    BY <1>1, <1>2 DEF Gone, Batched, Ahead
  <1> QED  BY <1>1, <1>3 DEF CoveredInv, InRequest

\* What a clean report tells of is gone, and the rest is still ahead.
LEMMA EndOfBodyCovers ==
  ASSUME Inv, CoveredInv, CleanReportIsTrue, EndOfBody
  PROVE  CoveredInv'
  <1>1. /\ pc = "ReadResponse"
        /\ UNCHANGED <<operation, resolved, delete_batches, objects, truthful>>
    BY DEF EndOfBody, storeVars, readVars
  <1>2. CASE ~ReportIsClean
    BY <1>1, <1>2 DEF EndOfBody, Throw, CoveredInv, InRequest
  <1>3. CASE ReportIsClean
    <2>1. /\ batch \in Seq(Path) /\ batch_start \in Nat /\ MAX_KEYS_PER_REQUEST \in Nat
          /\ DOMAIN batch = 1..Len(batch) /\ Len(batch) \in Nat
      BY DeleteAssumption DEF Inv, TypeInv
    <2>2. batch_start < Len(batch)
      BY <1>1 DEF Inv, WorkInv, InRequest
    <2>3. /\ \A j \in DOMAIN batch :
               j > batch_start /\ j <= batch_start + MAX_KEYS_PER_REQUEST => batch[j] \in ToSet(Chunk)
      BY <2>2, ChunkPaths DEF Inv
    <2>4. \A i \in DOMAIN operation.paths : /\ Gone(i) => Gone(i)'
                                            /\ Batched(i) => Batched(i)'
      BY <1>1 DEF Gone, Batched
    <2>5. ASSUME truthful, NEW i \in DOMAIN operation.paths, ~Gone(i), ~Batched(i)
          PROVE  \E j \in DOMAIN batch : /\ j > batch_start + MAX_KEYS_PER_REQUEST
                                         /\ batch[j] = operation.paths[i]
      <3>1. Ahead(i)
        BY <1>1, <2>5 DEF CoveredInv, InRequest
      <3>2. PICK j \in DOMAIN batch : j > batch_start /\ batch[j] = operation.paths[i]
        BY <3>1 DEF Ahead
      <3>3. batch[j] \notin ToSet(Chunk)
        BY <1>1, <1>3, <2>5, <3>2 DEF CleanReportIsTrue, Gone
      <3>4. ~(j <= batch_start + MAX_KEYS_PER_REQUEST)
        BY <2>3, <3>2, <3>3
      <3>5. j > batch_start + MAX_KEYS_PER_REQUEST
        BY <2>1, <3>4
      <3> QED  BY <3>2, <3>5
    <2>6. CASE batch_start + MAX_KEYS_PER_REQUEST < Len(batch)
      <3>1. /\ batch_start' = batch_start + MAX_KEYS_PER_REQUEST
            /\ pc' = "Request" /\ batch' = batch
        BY <1>3, <2>6 DEF EndOfBody
      <3>2. ASSUME truthful, NEW i \in DOMAIN operation.paths PROVE Gone(i)' \/ Batched(i)' \/ Ahead(i)'
        <4>1. CASE ~Gone(i) /\ ~Batched(i)
          BY <1>1, <2>5, <3>1, <3>2, <4>1 DEF Ahead
        <4> QED  BY <2>4, <4>1
      <3> QED  BY <1>1, <3>1, <3>2 DEF CoveredInv
    <2>7. CASE ~(batch_start + MAX_KEYS_PER_REQUEST < Len(batch))
      <3>1. pc' = "RemoveFiles"
        BY <1>3, <2>7 DEF EndOfBody
      <3>2. \A j \in DOMAIN batch : ~(j > batch_start + MAX_KEYS_PER_REQUEST)
        BY <2>1, <2>7
      <3>3. ASSUME truthful, NEW i \in DOMAIN operation.paths PROVE Gone(i)' \/ Batched(i)'
        BY <2>4, <2>5, <3>2, <3>3
      <3> QED  BY <1>1, <3>1, <3>3 DEF CoveredInv, InRequest
    <2> QED  BY <2>6, <2>7
  <1> QED  BY <1>2, <1>3

\* RemoveFile returns when its file is deleted.
LEMMA RemoveFileCovers ==
  ASSUME Inv, CoveredInv, RemoveFile
  PROVE  CoveredInv'
  <1> DEFINE path == operation.paths[1]
  <1>1. /\ pc = "RemoveFile" /\ operation' = operation
        /\ pc' \in {"NoSuchFile", "RequestError", "Returned"}
        /\ pc' = "Returned" => objects' = objects \ {Object(path)}
    BY DEF RemoveFile, Throw
  <1>2. \A i \in DOMAIN operation.paths : i = 1
    <2>1. operation.paths \in Seq(Path) /\ Len(operation.paths) = 1
      BY <1>1 DEF Inv, TypeInv, WaitingInv
    <2> QED  BY <2>1
  <1>3. pc' = "Returned" => \A i \in DOMAIN operation.paths : Gone(i)'
    BY <1>1, <1>2 DEF Gone
  <1> QED  BY <1>1, <1>3 DEF CoveredInv, InRequest

\* RemoveDirectory has resolved nothing.
LEMMA RemoveDirectoryCovers ==
  ASSUME Inv, RemoveDirectory
  PROVE  CoveredInv'
  <1>1. pc = "RemoveDirectory" /\ pc' = "RemoveFiles" /\ resolved' = resolved
    BY DEF RemoveDirectory, batchVars
  <1>2. resolved' = 0
    BY <1>1 DEF Inv, WaitingInv
  <1>3. \A i \in DOMAIN operation'.paths : ~(i <= resolved')
    <2>1. operation'.paths \in Seq(Path)
      BY RelativePaths DEF Inv
    <2> QED  BY <1>2, <2>1
  <1> QED  BY <1>1, <1>3 DEF CoveredInv, InRequest

\* The store and the batches stay what they are.
LEMMA ReadingCovers ==
  ASSUME CoveredInv, UNCHANGED <<operation, batchVars, objects, truthful, pc>>
  PROVE  CoveredInv'
  BY DEF CoveredInv, Gone, Batched, Ahead, batchVars

\* Where a clean report of the store's own is true, no path is ever forgotten.
LEMMA NextCovers == Inv /\ CleanReportIsTrue /\ CoveredInv /\ [Next]_vars => CoveredInv'
  <1> SUFFICES ASSUME Inv, CleanReportIsTrue, CoveredInv, [Next]_vars PROVE CoveredInv'
    OBVIOUS
  <1>1. CASE UNCHANGED vars
    BY <1>1, ReadingCovers DEF vars, storeVars, readVars
  <1>2. CASE ReadToken \/ RefreshSecret
    BY <1>2, ReadingCovers DEF ReadToken, RefreshSecret, storeVars, readVars
  <1> QED  BY <1>1, <1>2, ResolvePathCovers, NextBatchCovers, RequestCovers, EndOfBodyCovers,
              RemoveFileCovers, RemoveDirectoryCovers DEF Next

\* RemoveFiles and RemoveFile return only when every file they were given is gone, in
\* whatever batches and chunks it was asked for and however the answers were cut.
THEOREM EveryTargetIsRemoved == Spec => []RemovedExactly
  <1>1. Init => CoveredInv
    <2> SUFFICES ASSUME Init PROVE CoveredInv
      OBVIOUS
    <2>1. pc \in Names /\ resolved = 0 /\ operation.paths \in Seq(Path)
      BY DeleteAssumption DEF Init, Names
    <2>2. \A i \in DOMAIN operation.paths : ~(i <= resolved)
      BY <2>1
    <2> QED  BY <2>1, <2>2 DEF CoveredInv, InRequest, Names
  <1>2. ASSUME Inv, CoveredInv PROVE RemovedExactly
    <2>1. RemovedAll
      BY <1>2 DEF CoveredInv, Gone, RemovedAll, Targets
    <2>2. RemovesOnlyTargets
      BY <1>2 DEF Inv, StoreInv, RemovesOnlyTargets
    <2> QED  BY <2>1, <2>2 DEF RemovedExactly
  <1> QED  BY <1>1, <1>2, NextCovers, DeleteInvariant, CleanReportsAreTrue, PTL DEF Spec
=============================================================================
