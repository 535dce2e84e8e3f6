-------------------------------- MODULE Chat --------------------------------
(***************************************************************************)
(* The chat with the assistant (lib/pages/home/chat.dart) over a socket.io *)
(* connection.                                                             *)
(*                                                                         *)
(* Every question is one start_stream event; the server answers it with    *)
(* some new_message events and one end_of_response.  None of these events  *)
(* says which question it belongs to.  The connection is external: events  *)
(* emitted while it is down are buffered by the client and sent when it is *)
(* up again, and a stream open when it breaks is lost.  Whether the server *)
(* works on several streams at once is not known here: CONCURRENT.         *)
(*                                                                         *)
(* A text is a sequence of chunks and a chunk is the number of the stream  *)
(* it came from; a question is its number, the one of QueryPage being 0.   *)
(* `limit' and isSubscribed are only read by code that is commented out.   *)
(***************************************************************************)
EXTENDS Integers, Sequences, SequencesExt

CONSTANTS
    CONCURRENT,  \* the server may interleave the streams of one connection
    MaxStreams,  \* bound: questions sent
    MaxChunks,   \* bound: new_message events of a stream
    MaxDrops     \* bound: times the connection breaks

ASSUME ChatAssumption == CONCURRENT \in BOOLEAN
ASSUME BoundAssumption == MaxStreams \in Nat /\ MaxChunks \in Nat /\ MaxDrops \in Nat

VARIABLES
    phase,            \* "opening" (before the first frame), "open", "closed"
    connected,
    inputText,        \* the last question
    chatHistory,      \* _chatHistory
    currentResponse,  \* _currentResponse
    streams,          \* streams[k]: "queued", "open", "done" or "lost"
    chunks,           \* chunks[k]: new_message events of stream k
    drops,
    \* History variables, read by the properties only.
    asked,            \* asked[k]: length of chatHistory when stream k was asked for
    received,         \* every chunk ever delivered, in order
    mixed             \* two streams overlapped, or one broke in mid-answer

vars == <<phase, connected, inputText, chatHistory, currentResponse, streams, chunks,
          drops, asked, received, mixed>>

Entry(kind, text) == [kind |-> kind, text |-> text]
Header == << Entry("Verse", <<>>), Entry("Question", <<0>>) >>

Init ==
    /\ phase = "opening" /\ connected = FALSE
    /\ inputText = <<>> /\ chatHistory = <<>> /\ currentResponse = <<>>
    /\ streams = <<>> /\ chunks = <<>> /\ drops = 0
    /\ asked = <<>> /\ received = <<>> /\ mixed = FALSE

\* socket.emit('start_stream', ...): buffered while the connection is down.
Emit(history) ==
    /\ streams' = Append(streams, IF connected THEN "open" ELSE "queued")
    /\ chunks' = Append(chunks, 0)
    /\ asked' = Append(asked, Len(history))

\* The server is at work on stream k.
Streaming(k) ==
    /\ phase = "open" /\ connected /\ streams[k] = "open"
    /\ CONCURRENT \/ \A j \in 1..(k - 1) : streams[j] # "open"

-----------------------------------------------------------------------------
(* Mutants: slips in the code that the properties notice.  No specification uses them. *)

\* `_currentResponse = data'.
NewMessage_Overwrites(k) ==
    /\ Streaming(k)
    /\ chunks[k] < MaxChunks /\ chunks' = [chunks EXCEPT ![k] = @ + 1]
    /\ currentResponse' = <<k>>
    /\ received' = Append(received, k)
    /\ UNCHANGED <<phase, connected, inputText, chatHistory, streams, drops, asked, mixed>>

\* The response is not cleared for the next one.
EndOfResponse_NotCleared(k) ==
    /\ Streaming(k)
    /\ streams' = [streams EXCEPT ![k] = "done"]
    /\ chatHistory' = IF currentResponse # <<>>
                      THEN Append(chatHistory, Entry("A", currentResponse)) ELSE chatHistory
    /\ UNCHANGED <<phase, connected, inputText, currentResponse, chunks, drops, asked,
                   received, mixed>>

\* `_currentResponse.isEmpty'.
EndOfResponse_Inverted(k) ==
    /\ Streaming(k)
    /\ streams' = [streams EXCEPT ![k] = "done"]
    /\ IF currentResponse = <<>>
       THEN /\ chatHistory' = Append(chatHistory, Entry("A", currentResponse))
            /\ currentResponse' = <<>>
       ELSE UNCHANGED <<chatHistory, currentResponse>>
    /\ UNCHANGED <<phase, connected, inputText, chunks, drops, asked, received, mixed>>

\* The question is sent and not added to the history.
SendInput_NoEntry(typed) ==
    /\ phase = "open" /\ Len(streams) < MaxStreams
    /\ inputText' = IF typed THEN <<Len(streams)>> ELSE inputText
    /\ Emit(chatHistory)
    /\ mixed' = (mixed \/ \E k \in DOMAIN streams : streams[k] \in {"queued", "open"})
    /\ UNCHANGED <<phase, connected, chatHistory, currentResponse, drops, received>>

\* The question is added by the send button and again by _sendInput.
SendInput_Twice(typed) ==
    /\ phase = "open" /\ Len(streams) < MaxStreams
    /\ inputText' = IF typed THEN <<Len(streams)>> ELSE inputText
    /\ chatHistory' = IF typed
                      THEN chatHistory \o [i \in 1..2 |-> Entry("Q", <<Len(streams)>>)]
                      ELSE chatHistory
    /\ Emit(chatHistory')
    /\ mixed' = (mixed \/ \E k \in DOMAIN streams : streams[k] \in {"queued", "open"})
    /\ UNCHANGED <<phase, connected, currentResponse, drops, received>>

\* The header lacks the question, so that the list hides an entry of the conversation.
Start_ShortHeader ==
    /\ phase = "opening" /\ phase' = "open"
    /\ chatHistory' = << Header[1] >>
    /\ inputText' = <<0>>
    /\ Emit(<< Header[1] >>)
    /\ UNCHANGED <<connected, currentResponse, drops, received, mixed>>

-----------------------------------------------------------------------------
\* The post-frame callback of initState: the header of the conversation, the socket
\* and the question the user brought from QueryPage.
Start ==
    /\ phase = "opening" /\ phase' = "open"
    /\ chatHistory' = Header
    /\ inputText' = <<0>>
    /\ Emit(Header)
    /\ UNCHANGED <<connected, currentResponse, drops, received, mixed>>

\* The send button.  With an empty text field the last question is sent again.
SendInput(typed) ==
    /\ phase = "open" /\ Len(streams) < MaxStreams
    /\ inputText' = IF typed THEN <<Len(streams)>> ELSE inputText
    /\ chatHistory' = IF typed THEN Append(chatHistory, Entry("Q", <<Len(streams)>>))
                      ELSE chatHistory
    /\ Emit(chatHistory')
    /\ mixed' = (mixed \/ \E k \in DOMAIN streams : streams[k] \in {"queued", "open"})
    /\ UNCHANGED <<phase, connected, currentResponse, drops, received>>

\* The connection is up: the events that were buffered leave.
Connect ==
    /\ phase = "open" /\ ~connected /\ connected' = TRUE
    /\ streams' = [k \in DOMAIN streams |->
                      IF streams[k] = "queued" THEN "open" ELSE streams[k]]
    /\ UNCHANGED <<phase, inputText, chatHistory, currentResponse, chunks, drops, asked,
                   received, mixed>>

\* The connection breaks.  The page has no handler for it.
Drop ==
    /\ phase = "open" /\ connected /\ connected' = FALSE
    /\ drops < MaxDrops /\ drops' = drops + 1
    /\ streams' = [k \in DOMAIN streams |->
                      IF streams[k] = "open" THEN "lost" ELSE streams[k]]
    /\ mixed' = (mixed \/ currentResponse # <<>>)
    /\ UNCHANGED <<phase, inputText, chatHistory, currentResponse, chunks, asked, received>>

\* The new_message handler.
NewMessage(k) ==
    /\ Streaming(k)
    /\ chunks[k] < MaxChunks /\ chunks' = [chunks EXCEPT ![k] = @ + 1]
    /\ currentResponse' = Append(currentResponse, k)
    /\ received' = Append(received, k)
    /\ UNCHANGED <<phase, connected, inputText, chatHistory, streams, drops, asked, mixed>>

\* The end_of_response handler.
EndOfResponse(k) ==
    /\ Streaming(k)
    /\ streams' = [streams EXCEPT ![k] = "done"]
    /\ IF currentResponse # <<>>
       THEN /\ chatHistory' = Append(chatHistory, Entry("A", currentResponse))
            /\ currentResponse' = <<>>
       ELSE UNCHANGED <<chatHistory, currentResponse>>
    /\ UNCHANGED <<phase, connected, inputText, chunks, drops, asked, received, mixed>>

\* dispose: the socket disconnects and delivers nothing any more.
Dispose ==
    /\ phase = "open" /\ phase' = "closed" /\ connected' = FALSE
    /\ UNCHANGED <<inputText, chatHistory, currentResponse, streams, chunks, drops, asked,
                   received, mixed>>

Next ==
    \/ Start
    \/ \E typed \in BOOLEAN : SendInput(typed)
    \/ Connect \/ Drop \/ Dispose
    \/ \E k \in DOMAIN streams : NewMessage(k)
    \/ \E k \in DOMAIN streams : EndOfResponse(k)

\* The first frame is drawn, and the server ends every stream it works on while the
\* connection lasts.  Nothing is assumed of the network or of the user.
Fairness ==
    /\ WF_vars(Start)
    /\ \A k \in 1..MaxStreams : WF_vars(k \in DOMAIN streams /\ EndOfResponse(k))

Spec == Init /\ [][Next]_vars
FairSpec == Spec /\ Fairness

-----------------------------------------------------------------------------
(* Properties *)

Answers == {i \in DOMAIN chatHistory : chatHistory[i].kind = "A"}

\* The answer at position i is the whole answer of one stream, and no other question
\* stands between it and the question that stream was asked.
Whole(i) ==
    LET text == chatHistory[i].text
        k    == text[1]
    IN  /\ text # <<>>
        /\ \A j \in DOMAIN text : text[j] = k
        /\ streams[k] = "done" /\ Len(text) = chunks[k]
        /\ \A j \in (asked[k] + 1)..(i - 1) : chatHistory[j].kind # "Q"

\* Types of the page's fields; a conversation starts with its header.
TypeOK ==
    /\ phase \in {"opening", "open", "closed"} /\ connected \in BOOLEAN
    /\ \A i \in DOMAIN chatHistory : chatHistory[i].kind \in {"Verse", "Question", "Q", "A"}
    /\ phase # "opening" => Len(chatHistory) >= 2 /\ SubSeq(chatHistory, 1, 2) = Header
    /\ \A k \in DOMAIN streams : streams[k] \in {"queued", "open", "done", "lost"}
    /\ Len(chunks) = Len(streams) /\ Len(asked) = Len(streams)
    /\ connected => \A k \in DOMAIN streams : streams[k] # "queued"

\* Every chunk that arrived is on the screen exactly once and in its order: in an
\* answer of the history or in the response being received.
ChunksConserved ==
    LET texts == [i \in DOMAIN chatHistory |->
                     IF chatHistory[i].kind = "A" THEN chatHistory[i].text ELSE <<>>]
    IN  FlattenSeq(texts) \o currentResponse = received

\* Unless streams overlapped or one broke in mid-answer, every answer in the history
\* is whole and stands under its question.
AnswersWhole == ~mixed => \A i \in Answers : Whole(i)

\* The question a prompt repeats as "My New Question" is the last one of the history.
InputIsLastQuestion ==
    phase # "opening" =>
        \E i \in DOMAIN chatHistory :
            /\ chatHistory[i].kind \in {"Question", "Q"} /\ chatHistory[i].text = inputText
            /\ \A j \in (i + 1)..Len(chatHistory) : chatHistory[j].kind = "A"

\* A text being received reaches the history, unless the connection breaks or the user
\* leaves.
ResponseArchived ==
    (currentResponse # <<>> /\ \E k \in DOMAIN streams : streams[k] = "open")
        ~> (currentResponse = <<>> \/ ~connected)

\* The page implements Conversation: the history is never rewritten, and while questions
\* do not overlap it alternates between a question and the whole answer of that question.
\* Questions are counted from 0 here, the streams that answer them from 1.
Unanswered == {k \in DOMAIN streams : streams[k] \in {"queued", "open"}}
Said(entry) == IF entry.kind = "A" THEN <<"A", entry.text[1]>> ELSE <<"Q", entry.text[1] + 1>>
Promise == INSTANCE Conversation WITH
    log <- [i \in 1..(Len(chatHistory) - 2) |-> Said(chatHistory[i + 2])],
    asked <- Len(streams),
    pending <- IF Unanswered = {} THEN 0 ELSE Max(Unanswered)

ConversationKept == Promise!Spec

\* chat.dart:78 adds "complete response to history": every answer is the whole answer
\* of one stream.
CompleteAnswer ==
    \A i \in Answers :
        LET text == chatHistory[i].text
        IN  \A j \in DOMAIN text : text[j] = text[1] /\ Len(text) = chunks[text[1]]
=============================================================================
