------------------------------- MODULE Batches -------------------------------
(***************************************************************************)
(* postRecordsBatched of sync15/storage.ts: records cut into chunks within *)
(* the server's limits, and the chunks posted as one batch.                *)
(*                                                                         *)
(* What stands for what.  A record is its place in the list that is posted *)
(* and has a size.  The server is modelled from what the code expects of   *)
(* it: it keeps a batch aside until a request commits it, or, if it has no *)
(* batches, stores what each request brings.                               *)
(***************************************************************************)
EXTENDS Integers, Sequences, SequencesExt

-----------------------------------------------------------------------------
\* Cutting.  What is cut so far: the chunks that are done, the current one, its bytes.

Full(cut, size, limits) ==
  \/ Len(cut.current) >= limits.records
  \/ cut.current # <<>> /\ cut.bytes + size > limits.bytes

\* A faulty variant: a record too many.
Add_OneMore(cut, r, size, limits) ==
  IF Len(cut.current) > limits.records \/ (cut.current # <<>> /\ cut.bytes + size > limits.bytes)
    THEN [done |-> Append(cut.done, cut.current), current |-> <<r>>, bytes |-> size]
    ELSE [done |-> cut.done, current |-> Append(cut.current, r), bytes |-> cut.bytes + size]

\* One record more, in the current chunk or in a new one.
Add(cut, r, size, limits) ==
  IF Full(cut, size, limits)
    THEN [done |-> Append(cut.done, cut.current), current |-> <<r>>, bytes |-> size]
    ELSE [done |-> cut.done, current |-> Append(cut.current, r), bytes |-> cut.bytes + size]

Uncut == [done |-> <<>>, current |-> <<>>, bytes |-> 0]

\* What is cut when every record was added.
Cut(sizes, limits) ==
  LET cut[r \in 0..Len(sizes)] == IF r = 0 THEN Uncut ELSE Add(cut[r - 1], r, sizes[r], limits) IN
  cut[Len(sizes)]

Chunks(sizes, limits) ==
  LET cut == Cut(sizes, limits) IN
  IF cut.current = <<>> THEN cut.done ELSE Append(cut.done, cut.current)

-----------------------------------------------------------------------------
\* Posting.

\* A faulty variant: every request commits.
Request_Commits(chunks, i, id) ==
  [batch |-> IF i = 1 THEN "true" ELSE IF id THEN "id" ELSE "none",
   commit |-> TRUE, records |-> ToSet(chunks[i])]

\* The i-th request; id says whether the server has named the batch.
Request(chunks, i, id) ==
  [batch |-> IF i = 1 THEN "true" ELSE IF id THEN "id" ELSE "none",
   commit |-> i = Len(chunks), records |-> ToSet(chunks[i])]

\* The server's part; `keeps' says whether it has batches.
Serve(server, request) ==
  LET batch == server.batch \cup request.records IN
  IF ~server.keeps \/ request.batch = "none" THEN [server EXCEPT !.stored = @ \cup request.records]
  ELSE IF request.commit THEN [server EXCEPT !.stored = @ \cup batch, !.batch = {}]
  ELSE [server EXCEPT !.batch = batch]

\* The first n requests are served, what comes after is not.
Posted(chunks, keeps, n) ==
  LET server[i \in 0..n] ==
        IF i = 0 THEN [keeps |-> keeps, batch |-> {}, stored |-> {}]
        ELSE Serve(server[i - 1], Request(chunks, i, keeps)) IN
  server[n]

-----------------------------------------------------------------------------
\* Properties, of a list of sizes and the server's limits.

Total(chunk, sizes) ==
  LET sum[k \in 0..Len(chunk)] == IF k = 0 THEN 0 ELSE sum[k - 1] + sizes[chunk[k]] IN sum[Len(chunk)]

\* The last record of the first k chunks.
End(chunks, k) == IF k = 0 THEN 0 ELSE Last(chunks[k])

\* Every record is posted once and in order; a chunk is within the limits, or a
\* single record that no chunk could hold; and no chunk is cut before it is full
\* (storage.ts:414-427).
CutExactly(sizes, limits) ==
  LET chunks == Chunks(sizes, limits) IN
  /\ End(chunks, Len(chunks)) = Len(sizes)
  /\ \A k \in DOMAIN chunks :
       /\ chunks[k] = [j \in 1..Len(chunks[k]) |-> End(chunks, k - 1) + j]
       /\ Len(chunks[k]) \in 1..limits.records
       /\ Total(chunks[k], sizes) <= limits.bytes \/ Len(chunks[k]) = 1
       /\ k > 1 => \/ Len(chunks[k - 1]) = limits.records
                   \/ Total(chunks[k - 1], sizes) + sizes[chunks[k][1]] > limits.bytes

\* storage.ts:401-403: "If any chunk fails the whole batch is discarded by the server,
\* which is the behaviour we want": wherever the requests stop, the server has stored
\* all records or none.  Without batches it has stored what was posted.
AllOrNothing(sizes, limits) ==
  LET chunks == Chunks(sizes, limits) IN
  \A n \in 0..Len(chunks) :
    LET stored == Posted(chunks, TRUE, n).stored IN
    stored = IF n = Len(chunks) THEN 1..Len(sizes) ELSE {}

==============================================================================
