----------------------------- MODULE Streaming -----------------------------
(***************************************************************************)
(* stream_chat_completion (app/streaming.py): one stream of server-sent    *)
(* events that is forwarded from the model to a client, over up to three   *)
(* attempts.  A step ends where the generator awaits or yields, for there  *)
(* the client may go away.                                                 *)
(*                                                                         *)
(* The model answers every attempt with the lines of Script.  A line is    *)
(* Width pieces long, the last of which ends with the newline, and a chunk *)
(* may break off after any piece.  What a piece says is abstracted to the  *)
(* line and the place in it, so that a line that was put together wrongly  *)
(* can be told from a good one.                                            *)
(***************************************************************************)
EXTENDS Integers, SequencesExt

CONSTANTS
    MaxRetries,     \* MAX_STREAM_RETRIES
    Script,         \* the lines of an answer: "event", "noise", "done"
    Width,          \* pieces of a line
    MaxChunk        \* bound: pieces of a chunk

ASSUME RetriesAssumption == MaxRetries \in Nat
ASSUME ScriptAssumption == Script \in Seq({"event", "noise", "done"})
ASSUME WidthAssumption == Width \in Nat \ {0} /\ MaxChunk \in Nat \ {0}

VARIABLES
    pc,         \* where the generator is
    attempt,    \* 0 .. MaxRetries
    received,   \* history: pieces received in this attempt
    buffer,     \* the pieces not yet split off as lines
    sent,       \* the events the client received
    slept,      \* history: seconds slept
    failure     \* history: how the last attempt failed

vars == <<pc, attempt, received, buffer, sent, slept, failure>>

-----------------------------------------------------------------------------
(* The pieces of an answer in order.                                       *)
Text == [p \in 1..Len(Script) * Width |->
            [line |-> (p - 1) \div Width + 1, place |-> ((p - 1) % Width) + 1]]

Newlines(pieces) == {i \in DOMAIN pieces : pieces[i].place = Width}
FirstNewline(pieces) == CHOOSE i \in Newlines(pieces) :
                            \A j \in Newlines(pieces) : i <= j
Line(l) == SubSeq(Text, (l - 1) * Width + 1, l * Width)

(* What a line that was split off is: one of the script's, or garbage,     *)
(* which does not begin with "data: " or does not parse.                   *)
Reading(pieces) ==
    IF \E l \in 1..Len(Script) : pieces = Line(l)
    THEN Script[CHOOSE l \in 1..Len(Script) : pieces = Line(l)]
    ELSE "noise"

Message(l) == [event |-> "message", attempt |-> attempt, line |-> l]
DoneEvent  == [event |-> "done", attempt |-> attempt, line |-> 0]
ErrorEvent == [event |-> "error", attempt |-> attempt, line |-> 0]

Init ==
    /\ pc = "post"
    /\ attempt = 0
    /\ received = 0
    /\ buffer = <<>>
    /\ sent = <<>>
    /\ slept = 0
    /\ failure = "none"

-----------------------------------------------------------------------------
Emit(e) == sent' = Append(sent, e)

(* The generator yields an error and returns.                              *)
EndWithError ==
    /\ Emit(ErrorEvent)
    /\ pc' = "ended"
    /\ UNCHANGED <<attempt, slept>>

(* Slips a change to the code could make stand before the definition they  *)
(* alter; each of them breaks a property.                                  *)
OnceLess ==                    \* "attempt < MAX_STREAM_RETRIES - 1"
    \/ /\ attempt < MaxRetries - 1
       /\ slept' = slept + attempt + 1
       /\ pc' = "sleeping"
       /\ UNCHANGED <<attempt, sent>>
    \/ attempt >= MaxRetries - 1 /\ EndWithError

(* A failure that may pass: wait and go round again, unless this was the   *)
(* last attempt.                                                           *)
Again ==
    \/ /\ attempt < MaxRetries
       /\ slept' = slept + attempt + 1
       /\ pc' = "sleeping"
       /\ UNCHANGED <<attempt, sent>>
    \/ attempt = MaxRetries /\ EndWithError

(* The request is refused: 429 and some 5xx may pass, other codes do not.  *)
(* _sanitize_error comes first and raises if the body has an odd shape:    *)
(* then nothing is retried, whatever the code.                             *)
Refused ==
    /\ pc = "post"
    /\ \/ failure' = "transient" /\ Again
       \/ failure' \in {"permanent", "odd_body"} /\ EndWithError
    /\ UNCHANGED <<received, buffer>>

Accepted ==
    /\ pc = "post"
    /\ pc' = "reading"
    /\ received' = 0
    /\ buffer' = <<>>
    /\ UNCHANGED <<attempt, sent, slept, failure>>

ChunkReplaces ==               \* "buffer = chunk"
    /\ pc = "reading"
    /\ Newlines(buffer) = {}
    /\ \E n \in 1..MaxChunk :
         /\ received + n <= Len(Text)
         /\ received' = received + n
         /\ buffer' = SubSeq(Text, received + 1, received + n)
    /\ UNCHANGED <<pc, attempt, sent, slept, failure>>

(* The next chunk is appended to what is left of the last one.             *)
Chunk ==
    /\ pc = "reading"
    /\ Newlines(buffer) = {}
    /\ \E n \in 1..MaxChunk :
         /\ received + n <= Len(Text)
         /\ received' = received + n
         /\ buffer' = buffer \o SubSeq(Text, received + 1, received + n)
    /\ UNCHANGED <<pc, attempt, sent, slept, failure>>

LineWithoutRest ==             \* the rest of the buffer dropped
    /\ pc = "reading"
    /\ Newlines(buffer) # {}
    /\ LET n == FirstNewline(buffer)
           line == SubSeq(buffer, 1, n)
       IN  /\ buffer' = <<>>
           /\ \/ /\ Reading(line) = "event"
                 /\ Emit(Message(line[1].line))
                 /\ UNCHANGED pc
              \/ /\ Reading(line) = "done"
                 /\ Emit(DoneEvent)
                 /\ pc' = "ended"
              \/ /\ Reading(line) = "noise"
                 /\ UNCHANGED <<sent, pc>>
    /\ UNCHANGED <<attempt, received, slept, failure>>

(* One turn of the inner loop: a line is split off; an event is forwarded, *)
(* [DONE] ends the stream, anything else is passed over.                   *)
SplitLine ==
    /\ pc = "reading"
    /\ Newlines(buffer) # {}
    /\ LET n == FirstNewline(buffer)
           line == SubSeq(buffer, 1, n)
       IN  /\ buffer' = SubSeq(buffer, n + 1, Len(buffer))
           /\ \/ /\ Reading(line) = "event"
                 /\ Emit(Message(line[1].line))
                 /\ UNCHANGED pc
              \/ /\ Reading(line) = "done"
                 /\ Emit(DoneEvent)
                 /\ pc' = "ended"
              \/ /\ Reading(line) = "noise"
                 /\ UNCHANGED <<sent, pc>>
    /\ UNCHANGED <<attempt, received, slept, failure>>

(* The model closes the stream in good order, with or without [DONE].      *)
EndOfStream ==
    /\ pc = "reading"
    /\ Newlines(buffer) = {}
    /\ pc' = "ended"
    /\ UNCHANGED <<attempt, received, buffer, sent, slept, failure>>

BreaksAtPost ==                \* a time-out for the connection only
    /\ pc = "post"
    /\ \/ failure' = "transient" /\ Again
       \/ failure' = "unexpected" /\ EndWithError
    /\ UNCHANGED <<received, buffer>>

(* The connection cannot be made, breaks or times out, before or while     *)
(* text is read: time-outs, failed connects and protocol errors are tried  *)
(* again, other errors are not.                                            *)
Breaks ==
    /\ pc \in {"post", "reading"}
    /\ Newlines(buffer) = {}
    /\ \/ failure' = "transient" /\ Again
       \/ failure' = "unexpected" /\ EndWithError
    /\ UNCHANGED <<received, buffer>>

Wake ==
    /\ pc = "sleeping"
    /\ pc' = "post"
    /\ attempt' = attempt + 1
    /\ received' = 0
    /\ buffer' = <<>>
    /\ UNCHANGED <<sent, slept, failure>>

(* The client goes away: the generator is closed where it waits.           *)
Disconnect ==
    /\ pc \notin {"ended", "gone"}
    /\ pc' = "gone"
    /\ UNCHANGED <<attempt, received, buffer, sent, slept, failure>>

Next == \/ Refused \/ Accepted \/ Chunk \/ SplitLine \/ EndOfStream
        \/ Breaks \/ Wake \/ Disconnect

Spec == Init /\ [][Next]_vars

(* The generator goes on when it can, and the time-out of the HTTP client  *)
(* ends a wait for the model; nothing is assumed of the model.             *)
FairSpec == Spec /\ WF_vars(SplitLine) /\ WF_vars(Wake) /\ WF_vars(Breaks)

-----------------------------------------------------------------------------
(* The messages of attempt a are the events that the first n lines of the  *)
(* script hold: each of them, once, in order, and nothing else.            *)
Forwarded(a, n) ==
    LET mine == {i \in DOMAIN sent : sent[i].event = "message" /\ sent[i].attempt = a}
    IN  /\ {sent[i].line : i \in mine} = {l \in 1..n : Script[l] = "event"}
        /\ \A i, j \in mine : i < j => sent[i].line < sent[j].line

(* However the answer is cut into chunks, no event is lost, repeated,      *)
(* altered or put out of order within an attempt: what was forwarded is    *)
(* what the complete lines held that have left the buffer, and so it stays *)
(* when the attempt has failed, the stream has ended or the client left.   *)
NothingLostInChunks ==
    LET complete == received \div Width
        waiting == Cardinality(Newlines(buffer))
    IN  Forwarded(attempt, complete - waiting)

(* The client that is told "done" has, from the attempt that ended, every  *)
(* event before [DONE], whatever earlier attempts had forwarded.           *)
DoneMeansWhole ==
    \A i \in DOMAIN sent : sent[i].event = "done" =>
        \E l \in 1..Len(Script) : Script[l] = "done" /\ Forwarded(sent[i].attempt, l)

(* A stream is never given up early: before an error the generator has     *)
(* used every attempt and slept before each, unless the last one failed in *)
(* a way that does not pass.                                               *)
ErrorIsLastResort ==
    \A i \in DOMAIN sent : sent[i].event = "error" =>
        \/ failure # "transient"
        \/ 2 * slept = MaxRetries * (MaxRetries + 1) /\ sent[i].attempt = MaxRetries

(* Every stream comes to an end or its client goes away, even if the model *)
(* falls silent at any point of any attempt.                               *)
StreamEnds == <>(pc \in {"ended", "gone"})
=============================================================================
