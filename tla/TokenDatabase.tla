---------------------------- MODULE TokenDatabase ---------------------------
(***************************************************************************)
(* The cache keys of a prompt (env/token_database.py).                     *)
(* ChunkedTokenDatabase cuts the tokens into chunks of one size and hashes *)
(* each with the hash of the chunks before it; SegmentTokenDatabase cuts   *)
(* them at a separator and hashes each segment alone.  process_tokens is a *)
(* generator: one step is one key it yields or skips.  A hash is injective *)
(* here: it is the sequence of the chunks that went into it.               *)
(***************************************************************************)
EXTENDS Integers, Sequences, FiniteSets, SequencesExt

CONSTANTS
  Token,
  Sep,        \* sep_tokens; it does not overlap with itself
  ChunkSize,
  MaxTokens   \* bound: the length of a prompt

(* With an end that is also a beginning the separator could be found twice *)
(* in the same tokens, and the cutting would go back.                      *)
ConstantsAssumption ==
  /\ Sep \in Seq(Token) \ {<<>>} /\ ChunkSize \in Nat \ {0} /\ MaxTokens \in Nat
  /\ \A d \in 1 .. Len(Sep) - 1 : SubSeq(Sep, d + 1, Len(Sep)) # SubSeq(Sep, 1, Len(Sep) - d)

VARIABLES
  kind,     \* "none" before the call; "chunked", "segment", "hashes"
  tokens,   \* the prompt; for "hashes", the hash values
  falses,   \* the Falses of the mask, all in front
  unfull,   \* save_unfull_chunk
  matches,  \* where the separator was found and not yet used
  cut,      \* how far the tokens are cut
  at,       \* start_idx
  prefix,   \* the hash of the chunks so far
  yielded,  \* what was yielded: start, end and hash
  result    \* "running", "ended" or "raised"

vars == <<kind, tokens, falses, unfull, matches, cut, at, prefix, yielded, result>>

Init ==
  /\ kind = "none" /\ tokens = <<>> /\ falses = 0 /\ unfull = TRUE /\ matches = <<>>
  /\ cut = 0 /\ at = 0 /\ prefix = <<>> /\ yielded = <<>> /\ result = "running"

Slice(from, to) == SubSeq(tokens, from + 1, to)

(* tokens.unfold: the windows as long as the separator, each at its place. *)
Windows(ts) ==
  [i \in 1 .. Len(ts) - Len(Sep) + 1 |-> [place |-> i - 1, window |-> SubSeq(ts, i, i + Len(Sep) - 1)]]

(* nonzero: the places of the windows that equal the separator, in order. *)
Match(found, w) == IF w.window = Sep THEN Append(found, w.place) ELSE found

MatchesIn(ts) == FoldLeft(Match, <<>>, Windows(ts))

Call(k, ts, f, u) ==
  /\ kind = "none" /\ kind' = k
  /\ tokens' = ts /\ falses' = f /\ unfull' = u
  /\ matches' = IF k = "segment" THEN MatchesIn(ts) ELSE <<>>
  /\ result' = IF \/ k = "chunked" /\ f % ChunkSize # 0
                  \/ k = "segment" /\ f >= Len(ts)
                 THEN "raised" ELSE "running"
  /\ UNCHANGED <<cut, at, prefix, yielded>>

Running(k) == kind = k /\ result = "running"

Yield(start, end, hash) ==
  yielded' = IF start < falses THEN yielded
             ELSE Append(yielded, [start |-> start, end |-> end, hash |-> hash])

(* _chunk_tokens: an unfull chunk at the end may be left out. *)
End == IF unfull THEN Len(tokens) ELSE Len(tokens) - (Len(tokens) % ChunkSize)

(* A chunk the mask hides does not enter the hash. *)
NextChunkMasked ==
  LET end == IF at + ChunkSize < Len(tokens) THEN at + ChunkSize ELSE Len(tokens)
      hash == Append(prefix, Slice(at, end))
  IN  /\ Running("chunked") /\ at < End
      /\ prefix' = IF at < falses THEN prefix ELSE hash
      /\ at' = at + ChunkSize /\ Yield(at, end, hash)
      /\ UNCHANGED <<kind, tokens, falses, unfull, matches, cut, result>>

NextChunk ==
  LET end == IF at + ChunkSize < Len(tokens) THEN at + ChunkSize ELSE Len(tokens)
      hash == Append(prefix, Slice(at, end))
  IN  /\ Running("chunked") /\ at < End
      /\ prefix' = hash /\ at' = at + ChunkSize /\ Yield(at, end, hash)
      /\ UNCHANGED <<kind, tokens, falses, unfull, matches, cut, result>>

LastChunk ==
  /\ Running("chunked") /\ at >= End /\ result' = "ended"
  /\ UNCHANGED <<kind, tokens, falses, unfull, matches, cut, at, prefix, yielded>>

(* The separator in front of every segment is skipped. *)
SegmentStartAlways == at + Len(Sep)

(* The separator in front of every segment but the first is skipped. *)
SegmentStart == IF cut = 0 THEN at ELSE at + Len(Sep)

(* _fast_split_by_subtensor: tokens shorter than the separator are yielded *)
(* whole, and then the windows cannot be made.                             *)
NextSegment ==
  LET to   == IF matches = <<>> THEN Len(tokens) ELSE Head(matches)
      part == Slice(cut, to)
      end  == SegmentStart + Len(part)
  IN  /\ Running("segment")
      /\ Yield(SegmentStart, end, <<part>>)
      /\ at' = end /\ cut' = to + Len(Sep)
      /\ matches' = IF matches = <<>> THEN <<>> ELSE Tail(matches)
      /\ result' = IF matches # <<>> THEN "running"
                   ELSE IF Len(tokens) < Len(Sep) THEN "raised" ELSE "ended"
      /\ UNCHANGED <<kind, tokens, falses, unfull, prefix>>

(* Ready-made hashes, each with the length of its chunk. *)
NextHash ==
  /\ Running("hashes")
  /\ IF cut = Len(tokens)
       THEN result' = "ended" /\ UNCHANGED <<cut, at, yielded>>
       ELSE /\ yielded' = Append(yielded, [start |-> at, end |-> at + ChunkSize,
                                           hash |-> tokens[cut + 1]])
            /\ at' = at + ChunkSize /\ cut' = cut + 1 /\ UNCHANGED result
  /\ UNCHANGED <<kind, tokens, falses, unfull, matches, prefix>>

(* The caller makes the next call. *)
Done ==
  /\ result # "running"
  /\ kind' = "none" /\ tokens' = <<>> /\ falses' = 0 /\ unfull' = TRUE /\ matches' = <<>>
  /\ cut' = 0 /\ at' = 0 /\ prefix' = <<>> /\ yielded' = <<>> /\ result' = "running"

Next ==
  \/ \E k \in {"chunked", "segment", "hashes"}, ts \in SeqOf(Token, MaxTokens),
        f \in 0 .. MaxTokens, u \in BOOLEAN :
       f <= Len(ts) /\ (k # "chunked" => u) /\ (k = "hashes" => f = 0) /\ Call(k, ts, f, u)
  \/ NextChunk \/ LastChunk \/ NextSegment \/ NextHash \/ Done

Spec == Init /\ [][Next]_vars

-----------------------------------------------------------------------------
TypeOK ==
  /\ tokens \in Seq(Token) /\ at \in Nat /\ cut \in Nat
  /\ result \in {"running", "ended", "raised"}

(* A key of a chunk stands for all the tokens up to its end, the masked    *)
(* ones included, so prompts share the keys of exactly their common        *)
(* prefix; a key of a segment stands for the tokens between its own start  *)
(* and end, although the cutting and start_idx are counted apart.          *)
KeysNameTheirTokens == \A i \in DOMAIN yielded : LET y == yielded[i] IN
  /\ kind = "chunked" => FlattenSeq(y.hash) = Slice(0, y.end)
  /\ kind = "segment" => y.hash = <<Slice(y.start, y.end)>>
=============================================================================
