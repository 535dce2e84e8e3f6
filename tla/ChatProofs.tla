----------------------------- MODULE ChatProofs -----------------------------
(***************************************************************************)
(* Proofs about the chat, for any number of questions, chunks and breaks   *)
(* of the connection, and whether or not the server interleaves streams.   *)
(*                                                                         *)
(* AnswersWhole is not inductive.  While nothing is mixed there is one     *)
(* open question at most, the last one, and the text being received is as  *)
(* much of its answer as has come (InOrder); since it was asked, no other  *)
(* question entered the history (LastAsked).                               *)
(***************************************************************************)
EXTENDS Chat, ListLemmas

Status == {"queued", "open", "done", "lost"}
Entries == [kind : {"Verse", "Question", "Q", "A"}, text : Seq(Nat)]

Typed ==
    /\ phase \in {"opening", "open", "closed"}
    /\ inputText \in Seq(Nat) /\ chatHistory \in Seq(Entries)
    /\ currentResponse \in Seq(Nat) /\ received \in Seq(Nat)
    /\ streams \in Seq(Status) /\ chunks \in Seq(Nat) /\ asked \in Seq(Nat)
    /\ Len(chunks) = Len(streams) /\ Len(asked) = Len(streams)

Flags == connected \in BOOLEAN /\ mixed \in BOOLEAN

\* The page before and after its first frame.
Opened ==
    /\ phase = "opening" => streams = <<>> /\ chatHistory = <<>> /\ currentResponse = <<>>
                            /\ ~connected
    /\ phase # "opening" => /\ Len(chatHistory) >= 2 /\ streams # <<>>
                            /\ chatHistory[1] = Header[1] /\ chatHistory[2] = Header[2]
    /\ connected => \A k \in DOMAIN streams : streams[k] # "queued"

\* No question entered the history after the last one that was sent.
LastAsked ==
    streams # <<>> =>
        /\ asked[Len(streams)] <= Len(chatHistory)
        /\ \A j \in DOMAIN chatHistory : j > asked[Len(streams)] => chatHistory[j].kind # "Q"

\* The last question alone is open, and the text received is the beginning of its answer.
OneOpen ==
    /\ \A k \in Unanswered : k = Len(streams)
    /\ Unanswered = {} => currentResponse = <<>>
    /\ Unanswered # {} => Len(currentResponse) = chunks[Len(streams)]
    /\ \A j \in DOMAIN currentResponse : currentResponse[j] = Len(streams)

InOrder ==
    ~mixed => /\ OneOpen
              /\ \A i \in Answers : chatHistory[i].text[1] \in DOMAIN streams /\ Whole(i)

IInv ==
    /\ Typed /\ Flags /\ Opened /\ LastAsked /\ InOrder
    /\ InputIsLastQuestion /\ ChunksConserved

\* The entries of the header.
LEMMA HeaderIs ==
    /\ Header \in Seq(Entries) /\ Len(Header) = 2
    /\ Header[1].kind = "Verse" /\ Header[1].text = <<>>
    /\ Header[2].kind = "Question" /\ Header[2].text = <<0>>
  <1>1. Entry("Verse", <<>>) \in Entries /\ Entry("Question", <<0>>) \in Entries
    BY DEF Entry, Entries
  <1> QED
    BY <1>1 DEF Header, Entry

\* What appending does, with the types the provers need.
LEMMA AppendIs ==
    ASSUME NEW X, NEW s \in Seq(X), NEW e \in X, NEW t, t = Append(s, e)
    PROVE  /\ t \in Seq(X) /\ Len(s) \in Nat /\ Len(t) = Len(s) + 1 /\ t # <<>>
           /\ t[Len(s) + 1] = e /\ \A i \in 1..Len(s) : t[i] = s[i]
           /\ DOMAIN s = 1..Len(s) /\ DOMAIN t = 1..(Len(s) + 1)
  BY AppendProperties

\* The conversation starts empty.
LEMMA InitIInv == Init => IInv
  <1> SUFFICES ASSUME Init PROVE IInv
    OBVIOUS
  <1>1. Typed /\ Opened /\ LastAsked /\ InputIsLastQuestion
    BY DEF Init, Typed, Opened, LastAsked, InputIsLastQuestion
  <1>2. Flags
    BY Zenon DEF Init, Flags
  <1>3. InOrder
    BY DEF Init, InOrder, OneOpen, Unanswered, Answers
  <1>4. ChunksConserved
    BY DEF Init, ChunksConserved, FlattenSeq
  <1> QED
    BY <1>1, <1>2, <1>3, <1>4 DEF IInv

\* Sending appends a question, or nothing, to the history, and a stream.
LEMMA SendInputIs ==
    ASSUME Typed, NEW typed \in BOOLEAN, SendInput(typed)
    PROVE  /\ phase = "open" /\ UNCHANGED <<phase, connected, currentResponse, received>>
           /\ \/ chatHistory' = chatHistory /\ inputText' = inputText
              \/ /\ chatHistory' = Append(chatHistory, Entry("Q", <<Len(streams)>>))
                 /\ inputText' = <<Len(streams)>>
           /\ Entry("Q", <<Len(streams)>>) \in Entries
           /\ \/ connected /\ streams' = Append(streams, "open")
              \/ ~connected /\ streams' = Append(streams, "queued")
           /\ chunks' = Append(chunks, 0) /\ asked' = Append(asked, Len(chatHistory'))
           /\ ~mixed' => ~mixed /\ Unanswered = {}
  <1>1. Entry("Q", <<Len(streams)>>) \in Entries
    BY DEF Entry, Entries, Typed
  <1>2. ~mixed' => ~mixed /\ Unanswered = {}
    BY Zenon DEF SendInput, Unanswered
  <1> QED
    BY <1>1, <1>2 DEF SendInput, Emit

\* The end of a response archives it, if there is any.
LEMMA EndOfResponseIs ==
    ASSUME Typed, NEW k \in DOMAIN streams, EndOfResponse(k)
    PROVE  /\ phase = "open" /\ connected /\ streams[k] = "open"
           /\ streams' = [streams EXCEPT ![k] = "done"]
           /\ \/ /\ currentResponse # <<>> /\ currentResponse' = <<>>
                 /\ chatHistory' = Append(chatHistory, Entry("A", currentResponse))
              \/ currentResponse = <<>> /\ UNCHANGED <<chatHistory, currentResponse>>
           /\ Entry("A", currentResponse) \in Entries
           /\ UNCHANGED <<phase, connected, inputText, chunks, asked, received, mixed>>
  BY DEF EndOfResponse, Streaming, Typed, Entry, Entries

\* The fields keep their types.
LEMMA TypedStep == ASSUME Typed, [Next]_vars PROVE Typed'
  <1> USE DEF Typed
  <1>1. CASE Start
    BY <1>1, HeaderIs DEF Start, Emit, Status
  <1>2. ASSUME NEW typed \in BOOLEAN, SendInput(typed) PROVE Typed'
    <2>1. Entry("Q", <<Len(streams)>>) \in Entries /\ <<Len(streams)>> \in Seq(Nat)
      BY DEF Entry, Entries
    <2>2. chatHistory' \in Seq(Entries) /\ inputText' \in Seq(Nat)
      BY <1>2, <2>1 DEF SendInput
    <2>3. /\ UNCHANGED <<phase, currentResponse, received>>
          /\ \E x \in Status : streams' = Append(streams, x)
          /\ chunks' = Append(chunks, 0) /\ asked' = Append(asked, Len(chatHistory'))
      BY <1>2 DEF SendInput, Emit, Status
    <2>4. /\ streams' \in Seq(Status) /\ Len(streams') = Len(streams) + 1
          /\ chunks' \in Seq(Nat) /\ Len(chunks') = Len(chunks) + 1
      BY <2>3
    <2>5. asked' \in Seq(Nat) /\ Len(asked') = Len(asked) + 1
      BY <2>2, <2>3
    <2> QED
      BY <2>2, <2>3, <2>4, <2>5
  <1>3. CASE Connect
    <2>1. streams' \in [1..Len(streams) -> Status]
      BY <1>3 DEF Connect, Status
    <2> QED
      BY <1>3, <2>1 DEF Connect
  <1>4. CASE Drop
    <2>1. streams' \in [1..Len(streams) -> Status]
      BY <1>4 DEF Drop, Status
    <2> QED
      BY <1>4, <2>1 DEF Drop
  <1>5. ASSUME NEW k \in DOMAIN streams, NewMessage(k) PROVE Typed'
    BY <1>5 DEF NewMessage
  <1>6. ASSUME NEW k \in DOMAIN streams, EndOfResponse(k) PROVE Typed'
    <2>1. /\ currentResponse' = <<>> \/ currentResponse' = currentResponse
          /\ \/ chatHistory' = chatHistory
             \/ chatHistory' = Append(chatHistory, Entry("A", currentResponse))
          /\ Entry("A", currentResponse) \in Entries
      BY <1>6, EndOfResponseIs
    <2>2. chatHistory' \in Seq(Entries) /\ currentResponse' \in Seq(Nat)
      <3>1. chatHistory \in Seq(Entries) /\ <<>> \in Seq(Nat) /\ currentResponse \in Seq(Nat)
        OBVIOUS
      <3>2. CASE chatHistory' = Append(chatHistory, Entry("A", currentResponse))
        <4> HIDE DEF Typed
        <4>1. chatHistory' \in Seq(Entries)
          BY <2>1, <3>1, <3>2, AppendIs
        <4> QED
          BY <2>1, <3>1, <4>1
      <3> QED
        BY <2>1, <3>1, <3>2
    <2>3. streams' \in Seq(Status) /\ Len(streams') = Len(streams)
      BY <1>6 DEF EndOfResponse, Status
    <2>4. UNCHANGED <<phase, inputText, received, chunks, asked>>
      BY <1>6 DEF EndOfResponse
    <2> QED
      BY <2>2, <2>3, <2>4
  <1>7. CASE Dispose
    BY <1>7 DEF Dispose
  <1>8. CASE UNCHANGED vars
    BY <1>8 DEF vars
  <1> QED
    BY <1>1, <1>2, <1>3, <1>4, <1>5, <1>6, <1>7, <1>8 DEF Next

\* The Boolean fields stay Boolean.
LEMMA FlagsStep == ASSUME Flags, [Next]_vars PROVE Flags'
  <1> USE DEF Flags
  <1>1. CASE Start
    BY <1>1, Zenon DEF Start
  <1>2. ASSUME NEW typed \in BOOLEAN, SendInput(typed) PROVE Flags'
    BY <1>2, Zenon DEF SendInput
  <1>3. CASE Connect \/ Drop \/ Dispose
    BY <1>3, Zenon DEF Connect, Drop, Dispose
  <1>4. ASSUME NEW k \in DOMAIN streams, NewMessage(k) \/ EndOfResponse(k) PROVE Flags'
    BY <1>4, Zenon DEF NewMessage, EndOfResponse
  <1>5. CASE UNCHANGED vars
    BY <1>5, Zenon DEF vars
  <1> QED
    BY <1>1, <1>2, <1>3, <1>4, <1>5 DEF Next

\* The header stays on top of the history; no event waits while the connection is up.
LEMMA OpenedStep == ASSUME Typed, Flags, Opened, [Next]_vars PROVE Opened'
  <1> USE DEF Opened
  <1>1. CASE Start
    <2>1. /\ phase' = "open" /\ chatHistory' = Header /\ ~connected /\ ~connected'
          /\ \E x : streams' = Append(streams, x) /\ streams = <<>>
      BY <1>1 DEF Start, Emit
    <2>2. streams' # <<>>
      BY <2>1
    <2> QED
      BY <2>1, <2>2, HeaderIs
  <1>2. ASSUME NEW typed \in BOOLEAN, SendInput(typed) PROVE Opened'
    <2>0. /\ phase = "open" /\ phase' = phase /\ connected' = connected
          /\ \/ chatHistory' = chatHistory
             \/ chatHistory' = Append(chatHistory, Entry("Q", <<Len(streams)>>))
          /\ Entry("Q", <<Len(streams)>>) \in Entries
          /\ \/ connected /\ streams' = Append(streams, "open")
             \/ ~connected /\ streams' = Append(streams, "queued")
      BY <1>2, SendInputIs
    <2>a. /\ chatHistory \in Seq(Entries) /\ Len(chatHistory) >= 2 /\ streams \in Seq(Status)
          /\ Len(chatHistory) \in Nat
      BY <2>0 DEF Typed
    <2>1. /\ Len(chatHistory') >= 2 /\ chatHistory'[1] = chatHistory[1]
          /\ chatHistory'[2] = chatHistory[2]
      <3>1. CASE chatHistory' = Append(chatHistory, Entry("Q", <<Len(streams)>>))
        BY <2>0, <2>a, <3>1, AppendIs
      <3> QED
        BY <2>0, <2>a, <3>1
    <2>b. /\ streams' # <<>>
          /\ connected => /\ streams'[Len(streams) + 1] = "open"
                          /\ DOMAIN streams' = 1..(Len(streams) + 1)
                          /\ \A i \in 1..Len(streams) : streams'[i] = streams[i]
      <3>1. "open" \in Status /\ "queued" \in Status
        BY DEF Status
      <3>2. CASE connected /\ streams' = Append(streams, "open")
        BY <2>a, <3>1, <3>2, AppendIs
      <3>3. CASE ~connected /\ streams' = Append(streams, "queued")
        BY <2>a, <3>1, <3>3, AppendIs
      <3> QED
        BY <2>0, <3>2, <3>3
    <2>2. ASSUME connected, NEW k \in DOMAIN streams' PROVE streams'[k] # "queued"
      <3>1. \A j \in 1..Len(streams) : streams[j] # "queued"
        BY <2>2, <2>a
      <3>2. k \in 1..Len(streams) \/ k = Len(streams) + 1
        BY <2>a, <2>b, <2>2
      <3> QED
        BY <2>b, <3>1, <3>2, <2>2
    <2> QED
      BY <2>0, <2>1, <2>2, <2>b
  <1>3. CASE Connect
    <2>1. /\ phase = "open" /\ phase' = phase /\ chatHistory' = chatHistory
          /\ DOMAIN streams' = DOMAIN streams
          /\ \A k \in DOMAIN streams : streams'[k] # "queued"
      BY <1>3 DEF Connect
    <2>2. streams' # <<>>
      BY <2>1 DEF Typed
    <2> QED
      BY <2>1, <2>2
  <1>4. CASE Drop
    <2>1. /\ phase = "open" /\ phase' = phase /\ chatHistory' = chatHistory /\ ~connected'
          /\ DOMAIN streams' = DOMAIN streams
      BY <1>4 DEF Drop
    <2>2. streams' # <<>>
      BY <2>1 DEF Typed
    <2> QED
      BY <2>1, <2>2
  <1>5. ASSUME NEW k \in DOMAIN streams, NewMessage(k) PROVE Opened'
    BY <1>5 DEF NewMessage, Streaming
  <1>6. ASSUME NEW k \in DOMAIN streams, EndOfResponse(k) PROVE Opened'
    <2>0. /\ phase = "open" /\ phase' = phase /\ connected' = connected
          /\ streams' = [streams EXCEPT ![k] = "done"]
          /\ \/ chatHistory' = chatHistory
             \/ chatHistory' = Append(chatHistory, Entry("A", currentResponse))
          /\ Entry("A", currentResponse) \in Entries
      BY <1>6, EndOfResponseIs
    <2>a. /\ chatHistory \in Seq(Entries) /\ Len(chatHistory) >= 2 /\ Len(chatHistory) \in Nat
      BY <2>0 DEF Typed
    <2>1. /\ Len(chatHistory') >= 2 /\ chatHistory'[1] = chatHistory[1]
          /\ chatHistory'[2] = chatHistory[2]
      <3>1. CASE chatHistory' = Append(chatHistory, Entry("A", currentResponse))
        BY <2>0, <2>a, <3>1, AppendIs
      <3> QED
        BY <2>0, <2>a, <3>1
    <2>b. streams' # <<>>
      BY <2>0 DEF Typed
    <2>2. connected' => \A j \in DOMAIN streams' : streams'[j] # "queued"
      BY <2>0 DEF Typed
    <2> QED
      BY <2>0, <2>1, <2>2, <2>b
  <1>7. CASE Dispose
    BY <1>7 DEF Dispose
  <1>8. CASE UNCHANGED vars
    BY <1>8 DEF vars
  <1> QED
    BY <1>1, <1>2, <1>3, <1>4, <1>5, <1>6, <1>7, <1>8 DEF Next

\* Only sending adds a question, and it remembers where the history then ends.
LEMMA LastAskedStep == ASSUME Typed, Opened, LastAsked, [Next]_vars PROVE LastAsked'
  <1> USE DEF LastAsked
  <1>0. ASSUME UNCHANGED <<chatHistory, asked>>, Len(streams') = Len(streams), Typed'
        PROVE  LastAsked'
    BY <1>0 DEF Typed
  <1>a. Typed'
    BY TypedStep
  <1>1. CASE Start
    <2>0. /\ chatHistory' = Header /\ streams = <<>>
          /\ \E x : streams' = Append(streams, x)
          /\ asked' = Append(asked, Len(Header)) /\ Len(asked) = 0 /\ asked \in Seq(Nat)
      BY <1>1 DEF Start, Emit, Typed, Opened
    <2>1. chatHistory' = Header /\ Len(streams') = 1 /\ asked'[1] = 2
      BY <2>0, HeaderIs
    <2> QED
      BY <2>1, HeaderIs
  <1>2. ASSUME NEW typed \in BOOLEAN, SendInput(typed) PROVE LastAsked'
    <2>0. /\ asked' = Append(asked, Len(chatHistory')) /\ Len(chatHistory') \in Nat
          /\ \E x \in Status : streams' = Append(streams, x)
      BY <1>2, <1>a, SendInputIs DEF Typed, Status
    <2>1. asked'[Len(streams')] = Len(chatHistory')
      BY <2>0 DEF Typed
    <2> QED
      BY <1>a, <2>1 DEF Typed
  <1>3. CASE Connect \/ Drop \/ Dispose
    <2>1. UNCHANGED <<chatHistory, asked>> /\ DOMAIN streams' = DOMAIN streams
      BY <1>3 DEF Connect, Drop, Dispose
    <2>2. Len(streams') = Len(streams)
      BY <1>a, <2>1 DEF Typed
    <2> QED
      BY <1>0, <1>a, <2>1, <2>2
  <1>4. ASSUME NEW k \in DOMAIN streams, NewMessage(k) PROVE LastAsked'
    BY <1>0, <1>a, <1>4 DEF NewMessage
  <1>5. ASSUME NEW k \in DOMAIN streams, EndOfResponse(k) PROVE LastAsked'
    <2>1. Len(streams') = Len(streams) /\ asked' = asked
      BY <1>5, EndOfResponseIs DEF Typed
    <2>2. CASE chatHistory' = chatHistory
      BY <1>0, <1>a, <2>1, <2>2
    <2>3. CASE chatHistory' = Append(chatHistory, Entry("A", currentResponse))
      <3>1. Entry("A", currentResponse).kind = "A"
        BY DEF Entry
      <3>2. Entry("A", currentResponse) \in Entries
        BY <1>5, EndOfResponseIs
      <3> QED
        BY <2>1, <2>3, <3>1, <3>2 DEF Typed
    <2> QED
      BY <1>5, <2>2, <2>3, EndOfResponseIs
  <1>6. CASE UNCHANGED vars
    BY <1>0, <1>a, <1>6 DEF vars
  <1> QED
    BY <1>1, <1>2, <1>3, <1>4, <1>5, <1>6 DEF Next

-----------------------------------------------------------------------------
(* Answers and their questions *)

\* No entry of the history is rewritten, and what is over stays as it was.
Kept ==
    /\ \A i \in 1..Len(chatHistory) : i \in 1..Len(chatHistory') /\ chatHistory'[i] = chatHistory[i]
    /\ \A k \in DOMAIN streams :
           /\ k \in DOMAIN streams' /\ asked'[k] = asked[k]
           /\ streams[k] = "done" => streams'[k] = "done" /\ chunks'[k] = chunks[k]

\* Every step keeps what is over.
LEMMA KeptStep == ASSUME Typed, Opened, [Next]_vars PROVE Kept
  <1>0. /\ chatHistory \in Seq(Entries) /\ streams \in Seq(Status) /\ asked \in Seq(Nat)
        /\ chunks \in Seq(Nat) /\ Len(chunks) = Len(streams) /\ Len(asked) = Len(streams)
        /\ Len(chatHistory) \in Nat /\ Len(streams) \in Nat /\ DOMAIN streams = 1..Len(streams)
    BY DEF Typed
  <1>1. CASE Start
    BY <1>1, <1>0 DEF Start, Kept, Opened
  <1>2. ASSUME NEW typed \in BOOLEAN, SendInput(typed) PROVE Kept
    <2>1. /\ chunks' = Append(chunks, 0) /\ asked' = Append(asked, Len(chatHistory'))
          /\ Len(chatHistory') \in Nat
      BY <1>2, SendInputIs, TypedStep DEF Typed
    <2>2. \E x \in Status : streams' = Append(streams, x)
      BY <1>2, SendInputIs DEF Status
    <2>3. \A k \in 1..Len(streams) : /\ k \in DOMAIN streams' /\ streams'[k] = streams[k]
                                     /\ chunks'[k] = chunks[k] /\ asked'[k] = asked[k]
      <3>1. \A k \in 1..Len(streams) : chunks'[k] = chunks[k] /\ asked'[k] = asked[k]
        BY <1>0, <2>1, AppendIs
      <3>2. \A k \in 1..Len(streams) : k \in DOMAIN streams' /\ streams'[k] = streams[k]
        BY <1>0, <2>2, AppendIs
      <3> QED
        BY <3>1, <3>2
    <2>4. \A i \in 1..Len(chatHistory) : /\ i \in 1..Len(chatHistory')
                                         /\ chatHistory'[i] = chatHistory[i]
      <3>1. CASE chatHistory' = chatHistory
        BY <3>1
      <3>2. CASE chatHistory' = Append(chatHistory, Entry("Q", <<Len(streams)>>))
        <4>1. Entry("Q", <<Len(streams)>>) \in Entries
          BY <1>2, SendInputIs
        <4> QED
          BY <1>0, <3>2, <4>1, AppendIs
      <3> QED
        BY <1>2, <3>1, <3>2, SendInputIs
    <2> QED
      BY <1>0, <2>3, <2>4 DEF Kept
  <1>3. CASE Connect \/ Drop \/ Dispose
    BY <1>0, <1>3 DEF Connect, Drop, Dispose, Kept
  <1>4. ASSUME NEW k \in DOMAIN streams, NewMessage(k) PROVE Kept
    BY <1>0, <1>4 DEF NewMessage, Streaming, Kept
  <1>5. ASSUME NEW k \in DOMAIN streams, EndOfResponse(k) PROVE Kept
    <2>1. \A i \in 1..Len(chatHistory) : /\ i \in 1..Len(chatHistory')
                                         /\ chatHistory'[i] = chatHistory[i]
      <3>1. CASE chatHistory' = chatHistory
        BY <3>1
      <3>2. CASE chatHistory' = Append(chatHistory, Entry("A", currentResponse))
        <4>1. Entry("A", currentResponse) \in Entries
          BY <1>5, EndOfResponseIs
        <4> QED
          BY <1>0, <3>2, <4>1, AppendIs
      <3> QED
        BY <1>5, <3>1, <3>2, EndOfResponseIs
    <2> QED
      BY <1>0, <1>5, <2>1 DEF EndOfResponse, Kept
  <1>6. CASE UNCHANGED vars
    BY <1>0, <1>6 DEF vars, Kept
  <1> QED
    BY <1>1, <1>2, <1>3, <1>4, <1>5, <1>6 DEF Next

\* An answer that is whole stays whole.
LEMMA WholeKept ==
    ASSUME Typed, Kept, NEW i \in Answers, chatHistory[i].text[1] \in DOMAIN streams, Whole(i)
    PROVE  chatHistory'[i].text[1] \in DOMAIN streams' /\ Whole(i)'
  <1>1. /\ chatHistory'[i] = chatHistory[i]
        /\ \A j \in 1..i : chatHistory'[j] = chatHistory[j]
        /\ i \in Nat
    <2>1. Len(chatHistory) \in Nat /\ i \in 1..Len(chatHistory)
      BY DEF Typed, Answers
    <2>2. \A j \in 1..Len(chatHistory) : chatHistory'[j] = chatHistory[j]
      BY DEF Kept
    <2> QED
      BY <2>1, <2>2
  <1> DEFINE k == chatHistory[i].text[1]
  <1>2. /\ k \in DOMAIN streams' /\ asked'[k] = asked[k] /\ asked[k] \in Nat
        /\ streams'[k] = "done" /\ chunks'[k] = chunks[k]
    <2>1. k \in DOMAIN streams /\ streams[k] = "done"
      BY DEF Whole
    <2>a. asked \in Seq(Nat) /\ DOMAIN asked = DOMAIN streams
      BY DEF Typed
    <2> HIDE DEF k
    <2>2. asked[k] \in Nat
      BY <2>1, <2>a
    <2> QED
      BY <2>1, <2>2 DEF Kept
  <1>3. \A j \in (asked[k] + 1)..(i - 1) : chatHistory[j].kind # "Q" /\ j \in 1..i
    BY <1>1, <1>2 DEF Whole
  <1> QED
    BY <1>1, <1>2, <1>3 DEF Whole

\* The answer of the only open question is archived whole, under that question.
LEMMA NewAnswerWhole ==
    ASSUME Typed, LastAsked, OneOpen, NEW k \in DOMAIN streams, EndOfResponse(k),
           currentResponse # <<>>, NEW n, n = Len(chatHistory) + 1
    PROVE  chatHistory'[n].text[1] \in DOMAIN streams' /\ Whole(n)'
  <1> DEFINE e == Entry("A", currentResponse)
  <1>0. /\ chatHistory \in Seq(Entries) /\ streams \in Seq(Status) /\ asked \in Seq(Nat)
        /\ Len(streams) \in Nat /\ DOMAIN streams = 1..Len(streams) /\ Len(asked) = Len(streams)
        /\ currentResponse \in Seq(Nat)
    BY DEF Typed
  <1>1. /\ streams[k] = "open" /\ streams' = [streams EXCEPT ![k] = "done"]
        /\ e \in Entries /\ UNCHANGED <<chunks, asked>> /\ chatHistory' = Append(chatHistory, e)
    BY EndOfResponseIs
  <1>2. e.text = currentResponse
    BY DEF Entry
  <1>3. k = Len(streams) /\ Len(currentResponse) = chunks[k]
    BY <1>1 DEF OneOpen, Unanswered
  <1>4. /\ chatHistory'[n] = e /\ Len(chatHistory) \in Nat
        /\ \A i \in 1..Len(chatHistory) : chatHistory'[i] = chatHistory[i]
    <2> HIDE DEF e
    <2> QED
      BY <1>0, <1>1, AppendIs
  <1>5. 1 \in DOMAIN currentResponse /\ currentResponse[1] = k
    BY <1>0, <1>3 DEF OneOpen
  <1>6. k \in DOMAIN streams' /\ streams'[k] = "done" /\ asked'[k] = asked[k] /\ asked[k] \in Nat
    BY <1>0, <1>1
  <1>7. \A j \in (asked[k] + 1)..(n - 1) : chatHistory'[j].kind # "Q"
    <2>1. \A j \in 1..Len(chatHistory) : j > asked[k] => chatHistory[j].kind # "Q"
      BY <1>0, <1>3 DEF LastAsked
    <2> QED
      BY <1>4, <1>6, <2>1
  <1>8. \A j \in DOMAIN currentResponse : currentResponse[j] = k
    BY <1>3 DEF OneOpen
  <1>9. chatHistory'[n].text = currentResponse
    BY <1>2, <1>4
  <1> HIDE DEF e
  <1>10. Whole(n)'
    BY <1>1, <1>3, <1>5, <1>6, <1>7, <1>8, <1>9 DEF Whole
  <1> QED
    BY <1>5, <1>6, <1>9, <1>10

\* Unless streams overlap or break, at most the last question is open.
LEMMA OneOpenStep ==
    ASSUME Typed, Opened, InOrder, ~mixed', [Next]_vars
    PROVE  ~mixed /\ OneOpen'
  <1>0. /\ streams \in Seq(Status) /\ chunks \in Seq(Nat) /\ currentResponse \in Seq(Nat)
        /\ Len(streams) \in Nat /\ DOMAIN streams = 1..Len(streams) /\ Len(chunks) = Len(streams)
    BY DEF Typed
  <1>a. ~mixed => OneOpen
    BY DEF InOrder
  <1>1. CASE Start
    <2>1. /\ streams = <<>> /\ currentResponse = <<>> /\ currentResponse' = <<>>
          /\ mixed' = mixed /\ chunks' = Append(chunks, 0) /\ streams' = <<"queued">>
      BY <1>1 DEF Start, Emit, Opened
    <2>2. chunks'[1] = 0 /\ Len(streams') = 1
      BY <1>0, <2>1
    <2>3. Unanswered' = {1}
      BY <2>1 DEF Unanswered
    <2> QED
      BY <2>1, <2>2, <2>3 DEF OneOpen
  <1>2. ASSUME NEW typed \in BOOLEAN, SendInput(typed) PROVE ~mixed /\ OneOpen'
    <2>1. /\ ~mixed /\ Unanswered = {} /\ chunks' = Append(chunks, 0)
          /\ currentResponse' = currentResponse
      BY <1>2, SendInputIs
    <2>2. PICK x \in {"open", "queued"} : streams' = Append(streams, x)
      BY <1>2, SendInputIs
    <2>3. /\ Len(streams') = Len(streams) + 1 /\ streams'[Len(streams) + 1] = x
          /\ \A k \in 1..Len(streams) : streams'[k] = streams[k]
          /\ DOMAIN streams' = 1..(Len(streams) + 1)
      <3>1. x \in Status
        BY DEF Status
      <3> QED
        BY <1>0, <2>2, <3>1, AppendIs
    <2>4. currentResponse' = <<>>
      BY <1>a, <2>1 DEF OneOpen
    <2>5. chunks'[Len(streams) + 1] = 0
      BY <1>0, <2>1
    <2>6. Unanswered' = {Len(streams) + 1}
      <3>1. \A k \in 1..Len(streams) : streams[k] \notin {"queued", "open"}
        BY <1>0, <2>1 DEF Unanswered
      <3>2. \A k \in DOMAIN streams' : k \in 1..Len(streams) \/ k = Len(streams) + 1
        BY <1>0, <2>3
      <3> QED
        BY <1>0, <2>3, <3>1, <3>2 DEF Unanswered
    <2> QED
      <3>1. Len(currentResponse') = chunks'[Len(streams')] /\ DOMAIN currentResponse' = {}
        BY <2>3, <2>4, <2>5
      <3> QED
        BY <2>1, <2>3, <2>6, <3>1 DEF OneOpen
  <1>3. CASE Connect
    <2>1. /\ Unanswered' = Unanswered /\ UNCHANGED <<mixed, chunks, currentResponse>>
          /\ DOMAIN streams' = DOMAIN streams
      BY <1>3 DEF Connect, Unanswered
    <2>2. Len(streams') = Len(streams)
      BY <1>3, <1>0, TypedStep, <2>1 DEF Typed
    <2> QED
      BY <1>a, <2>1, <2>2 DEF OneOpen
  <1>4. CASE Drop
    <2>1. ~mixed /\ currentResponse = <<>> /\ UNCHANGED <<chunks, currentResponse>>
      BY <1>4, Zenon DEF Drop
    <2>2. Unanswered' = {}
      BY <1>0, <1>4 DEF Drop, Opened, Unanswered, Status
    <2> QED
      BY <2>1, <2>2 DEF OneOpen
  <1>5. ASSUME NEW k \in DOMAIN streams, NewMessage(k) PROVE ~mixed /\ OneOpen'
    <2>1. /\ UNCHANGED <<mixed, streams>> /\ streams[k] = "open"
          /\ chunks' = [chunks EXCEPT ![k] = @ + 1]
          /\ currentResponse' = Append(currentResponse, k)
      BY <1>5 DEF NewMessage, Streaming
    <2>2. k \in Unanswered
      BY <2>1 DEF Unanswered
    <2>3. OneOpen /\ k = Len(streams) /\ Len(currentResponse) = chunks[k]
      BY <1>a, <2>1, <2>2 DEF OneOpen
    <2>4. Unanswered' = Unanswered
      BY <2>1 DEF Unanswered
    <2>5. chunks'[k] = chunks[k] + 1
      BY <1>0, <2>1, <2>3
    <2>6. /\ Len(currentResponse') = Len(currentResponse) + 1
          /\ \A j \in DOMAIN currentResponse' : currentResponse'[j] = k
      BY <1>0, <2>1, <2>3 DEF OneOpen
    <2> QED
      BY <2>1, <2>2, <2>3, <2>4, <2>5, <2>6 DEF OneOpen
  <1>6. ASSUME NEW k \in DOMAIN streams, EndOfResponse(k) PROVE ~mixed /\ OneOpen'
    <2>1. /\ UNCHANGED mixed /\ streams[k] = "open" /\ currentResponse' = <<>>
          /\ streams' = [streams EXCEPT ![k] = "done"]
      BY <1>6, EndOfResponseIs
    <2>2. Unanswered' = {}
      BY <1>0, <1>a, <2>1 DEF OneOpen, Unanswered
    <2> QED
      BY <2>1, <2>2 DEF OneOpen
  <1>7. CASE Dispose \/ UNCHANGED vars
    <2>1. UNCHANGED <<mixed, streams, chunks, currentResponse>>
      BY <1>7 DEF Dispose, vars
    <2> QED
      BY <1>a, <2>1 DEF OneOpen, Unanswered
  <1> QED
    BY <1>1, <1>2, <1>3, <1>4, <1>5, <1>6, <1>7 DEF Next

\* Only the end of a response adds an answer to the history.
LEMMA NewAnswers ==
    ASSUME Typed, Opened, [Next]_vars, NEW i \in Answers', i \notin Answers
    PROVE  /\ i = Len(chatHistory) + 1 /\ currentResponse # <<>>
           /\ \E k \in DOMAIN streams : EndOfResponse(k)
  <1>0. /\ chatHistory \in Seq(Entries) /\ chatHistory' \in Seq(Entries)
        /\ Len(chatHistory) \in Nat /\ DOMAIN chatHistory = 1..Len(chatHistory)
        /\ i \in DOMAIN chatHistory' /\ chatHistory'[i].kind = "A"
    BY TypedStep DEF Typed, Answers
  <1>a. ASSUME chatHistory' = chatHistory PROVE FALSE
    BY <1>a DEF Answers
  <1>b. ASSUME NEW e \in Entries, chatHistory' = Append(chatHistory, e)
        PROVE  i = Len(chatHistory) + 1 /\ e.kind = "A"
    <2>1. /\ chatHistory'[Len(chatHistory) + 1] = e
          /\ \A j \in 1..Len(chatHistory) : chatHistory'[j] = chatHistory[j]
          /\ DOMAIN chatHistory' = 1..(Len(chatHistory) + 1)
      BY <1>0, <1>b, AppendIs
    <2>2. i \notin 1..Len(chatHistory)
      BY <1>0, <2>1 DEF Answers
    <2> QED
      BY <1>0, <2>1, <2>2
  <1>1. CASE Start
    <2>1. chatHistory' = Header
      BY <1>1 DEF Start
    <2> QED
      BY <1>0, <2>1, HeaderIs
  <1>2. ASSUME NEW typed \in BOOLEAN, SendInput(typed) PROVE FALSE
    <2>1. /\ Entry("Q", <<Len(streams)>>) \in Entries
          /\ \/ chatHistory' = chatHistory
             \/ chatHistory' = Append(chatHistory, Entry("Q", <<Len(streams)>>))
      BY <1>2, SendInputIs
    <2>2. Entry("Q", <<Len(streams)>>).kind = "Q"
      BY DEF Entry
    <2> QED
      BY <1>a, <1>b, <2>1, <2>2
  <1>3. CASE Connect \/ Drop \/ Dispose \/ UNCHANGED vars
    BY <1>3, <1>a DEF Connect, Drop, Dispose, vars
  <1>4. ASSUME NEW k \in DOMAIN streams, NewMessage(k) PROVE FALSE
    BY <1>4, <1>a DEF NewMessage
  <1>5. ASSUME NEW k \in DOMAIN streams, EndOfResponse(k)
        PROVE  i = Len(chatHistory) + 1 /\ currentResponse # <<>>
    BY <1>5, <1>a, <1>b, EndOfResponseIs
  <1> QED
    BY <1>1, <1>2, <1>3, <1>4, <1>5 DEF Next

\* Answers stay in order.
LEMMA InOrderStep ==
    ASSUME Typed, Opened, LastAsked, InOrder, [Next]_vars PROVE InOrder'
  <1> SUFFICES ASSUME ~mixed'
               PROVE  /\ OneOpen'
                      /\ \A i \in Answers' :
                            chatHistory'[i].text[1] \in DOMAIN streams' /\ Whole(i)'
    BY DEF InOrder
  <1>1. ~mixed /\ OneOpen'
    BY OneOpenStep
  <1>2. /\ OneOpen
        /\ \A i \in Answers : chatHistory[i].text[1] \in DOMAIN streams /\ Whole(i)
    BY <1>1 DEF InOrder
  <1>3. ASSUME NEW i \in Answers', i \in Answers
        PROVE  chatHistory'[i].text[1] \in DOMAIN streams' /\ Whole(i)'
    BY <1>2, <1>3, KeptStep, WholeKept
  <1>4. ASSUME NEW i \in Answers', i \notin Answers
        PROVE  chatHistory'[i].text[1] \in DOMAIN streams' /\ Whole(i)'
    <2>1. PICK k \in DOMAIN streams : EndOfResponse(k)
      BY <1>4, NewAnswers
    <2>2. i = Len(chatHistory) + 1 /\ currentResponse # <<>>
      BY <1>4, NewAnswers
    <2> QED
      BY <1>2, <2>1, <2>2, NewAnswerWhole
  <1> QED
    BY <1>1, <1>3, <1>4

\* The question a prompt repeats stays the last question of the history.
LEMMA InputStep ==
    ASSUME Typed, Opened, InputIsLastQuestion, [Next]_vars PROVE InputIsLastQuestion'
  <1> DEFINE IsLast(i) == /\ i \in DOMAIN chatHistory
                          /\ chatHistory[i].kind \in {"Question", "Q"}
                          /\ chatHistory[i].text = inputText
                          /\ \A j \in (i + 1)..Len(chatHistory) : chatHistory[j].kind = "A"
  <1>0. /\ chatHistory \in Seq(Entries) /\ Len(chatHistory) \in Nat
        /\ DOMAIN chatHistory = 1..Len(chatHistory)
    BY DEF Typed
  <1>a. ASSUME UNCHANGED <<chatHistory, inputText>>, phase # "opening"
        PROVE  InputIsLastQuestion'
    BY <1>a DEF InputIsLastQuestion
  <1>1. CASE Start
    <2>1. chatHistory' = Header /\ inputText' = <<0>>
      BY <1>1 DEF Start
    <2>2. /\ 2 \in DOMAIN chatHistory' /\ Len(chatHistory') = 2
          /\ chatHistory'[2].kind \in {"Question", "Q"} /\ chatHistory'[2].text = inputText'
      BY <2>1, HeaderIs
    <2> QED
      BY <2>2 DEF InputIsLastQuestion
  <1>2. ASSUME NEW typed \in BOOLEAN, SendInput(typed) PROVE InputIsLastQuestion'
    <2>1. CASE chatHistory' = chatHistory /\ inputText' = inputText
      BY <1>2, <1>a, <2>1, SendInputIs
    <2>2. CASE /\ chatHistory' = Append(chatHistory, Entry("Q", <<Len(streams)>>))
               /\ inputText' = <<Len(streams)>>
      <3> DEFINE e == Entry("Q", <<Len(streams)>>)
      <3>1. e \in Entries /\ e.kind = "Q" /\ e.text = <<Len(streams)>>
        BY <1>2, SendInputIs DEF Entry
      <3> HIDE DEF e
      <3>2. PICK i : i = Len(chatHistory) + 1
        OBVIOUS
      <3>3. chatHistory'[i] = e /\ Len(chatHistory') = i /\ i \in DOMAIN chatHistory' /\ i \in Nat
        BY <1>0, <2>2, <3>1, <3>2, AppendIs DEF e
      <3> QED
        BY <2>2, <3>1, <3>3 DEF InputIsLastQuestion
    <2> QED
      BY <1>2, <2>1, <2>2, SendInputIs
  <1>3. CASE Connect \/ Drop \/ Dispose
    BY <1>3, <1>a DEF Connect, Drop, Dispose
  <1>4. ASSUME NEW k \in DOMAIN streams, NewMessage(k) PROVE InputIsLastQuestion'
    BY <1>4, <1>a DEF NewMessage, Streaming
  <1>5. ASSUME NEW k \in DOMAIN streams, EndOfResponse(k) PROVE InputIsLastQuestion'
    <2>0. phase = "open" /\ inputText' = inputText
      BY <1>5, EndOfResponseIs
    <2>1. CASE chatHistory' = chatHistory
      BY <1>a, <2>0, <2>1
    <2>2. CASE chatHistory' = Append(chatHistory, Entry("A", currentResponse))
      <3> DEFINE e == Entry("A", currentResponse)
      <3>1. e \in Entries /\ e.kind = "A"
        BY <1>5, EndOfResponseIs DEF Entry
      <3> HIDE DEF e
      <3>2. PICK i : IsLast(i)
        BY <2>0 DEF InputIsLastQuestion
      <3>3. /\ chatHistory'[Len(chatHistory) + 1] = e /\ Len(chatHistory') = Len(chatHistory) + 1
            /\ \A j \in 1..Len(chatHistory) : chatHistory'[j] = chatHistory[j]
            /\ DOMAIN chatHistory' = 1..(Len(chatHistory) + 1)
        BY <1>0, <2>2, <3>1, AppendIs DEF e
      <3>4. i \in 1..Len(chatHistory) /\ i \in DOMAIN chatHistory' /\ chatHistory'[i] = chatHistory[i]
        BY <1>0, <3>2, <3>3
      <3>5. ASSUME NEW j \in (i + 1)..Len(chatHistory') PROVE chatHistory'[j].kind = "A"
        <4>1. CASE j = Len(chatHistory) + 1
          BY <3>1, <3>3, <4>1
        <4>2. CASE j # Len(chatHistory) + 1
          <5>1. j \in (i + 1)..Len(chatHistory) /\ j \in 1..Len(chatHistory)
            BY <1>0, <3>3, <3>4, <3>5, <4>2
          <5> QED
            BY <3>2, <3>3, <5>1
        <4> QED
          BY <4>1, <4>2
      <3>6. chatHistory'[i].kind \in {"Question", "Q"} /\ chatHistory'[i].text = inputText'
        BY <2>0, <3>2, <3>4
      <3> QED
        BY <3>4, <3>5, <3>6 DEF InputIsLastQuestion
    <2> QED
      BY <1>5, <2>1, <2>2, EndOfResponseIs
  <1>6. CASE UNCHANGED vars
    BY <1>6, <1>a DEF vars, InputIsLastQuestion
  <1> QED
    BY <1>1, <1>2, <1>3, <1>4, <1>5, <1>6 DEF Next

-----------------------------------------------------------------------------
(* Chunks *)

TextOf(e) == IF e.kind = "A" THEN e.text ELSE <<>>
Texts(h) == [i \in DOMAIN h |-> TextOf(h[i])]

\* The texts of a history are texts, and an entry adds its own.
LEMMA TextsAre ==
    ASSUME NEW h \in Seq(Entries)
    PROVE  /\ Texts(h) \in Seq(Seq(Nat))
           /\ \A e \in Entries : /\ TextOf(e) \in Seq(Nat)
                                 /\ Texts(Append(h, e)) = Append(Texts(h), TextOf(e))
  <1>1. \A e \in Entries : TextOf(e) \in Seq(Nat)
    BY DEF Entries, TextOf
  <1>2. Texts(h) \in [1..Len(h) -> Seq(Nat)]
    BY <1>1 DEF Texts
  <1>3. Texts(h) \in Seq(Seq(Nat)) /\ Len(Texts(h)) = Len(h) /\ Len(h) \in Nat
    BY <1>2
  <1>4. ASSUME NEW e \in Entries PROVE Texts(Append(h, e)) = Append(Texts(h), TextOf(e))
    <2> DEFINE a == Append(h, e)
               b == Append(Texts(h), TextOf(e))
               n == Len(h) + 1
    <2>1. /\ a[n] = e /\ DOMAIN a = 1..n /\ \A i \in 1..Len(h) : a[i] = h[i]
      BY AppendIs
    <2>2. /\ b[n] = TextOf(e) /\ b \in Seq(Seq(Nat)) /\ DOMAIN b = 1..n
          /\ \A i \in 1..Len(h) : b[i] = Texts(h)[i]
      BY <1>1, <1>3, AppendIs
    <2>3. \A i \in 1..Len(h) : Texts(h)[i] = TextOf(h[i])
      BY DEF Texts
    <2> HIDE DEF a, b, n
    <2>4. b = [i \in 1..n |-> b[i]]
      BY <2>2
    <2>5. ASSUME NEW i \in 1..n PROVE b[i] = TextOf(a[i])
      <3>1. i \in 1..Len(h) \/ i = n
        BY <1>3 DEF n
      <3> QED
        BY <2>1, <2>2, <2>3, <3>1
    <2>6. Texts(a) = [i \in 1..n |-> TextOf(a[i])]
      BY <2>1 DEF Texts
    <2> QED
      BY <2>4, <2>5, <2>6 DEF a, b
  <1> QED
    BY <1>1, <1>3, <1>4

\* Chunks are neither lost nor repeated nor reordered.
LEMMA ChunksStep ==
    ASSUME Typed, Opened, ChunksConserved, [Next]_vars PROVE ChunksConserved'
  <1> DEFINE F(h) == FlattenSeq(Texts(h))
  <1>0. /\ chatHistory \in Seq(Entries) /\ currentResponse \in Seq(Nat)
        /\ received = F(chatHistory) \o currentResponse
    BY DEF Typed, ChunksConserved, Texts, TextOf
  <1>a. ASSUME NEW h \in Seq(Entries), NEW e \in Entries
        PROVE  F(h) \in Seq(Nat) /\ F(Append(h, e)) = F(h) \o TextOf(e)
    <2>1. /\ Texts(h) \in Seq(Seq(Nat)) /\ TextOf(e) \in Seq(Nat)
          /\ Texts(Append(h, e)) = Append(Texts(h), TextOf(e))
      BY TextsAre
    <2> QED
      BY <2>1, FlattenType, FlattenAppend
  <1>b. ASSUME received' = F(chatHistory') \o currentResponse' PROVE ChunksConserved'
    BY <1>b DEF ChunksConserved, Texts, TextOf
  <1>c. ASSUME UNCHANGED <<chatHistory, currentResponse, received>> PROVE ChunksConserved'
    BY <1>0, <1>b, <1>c
  <1>d. F(chatHistory) \in Seq(Nat)
    BY <1>0, TextsAre, FlattenType
  <1>1. CASE Start
    <2>1. /\ chatHistory' = Header /\ chatHistory = <<>> /\ currentResponse = <<>>
          /\ UNCHANGED <<currentResponse, received>>
      BY <1>1 DEF Start, Opened
    <2> DEFINE a == Entry("Verse", <<>>)
               b == Entry("Question", <<0>>)
    <2>2. /\ a \in Entries /\ b \in Entries /\ TextOf(a) = <<>> /\ TextOf(b) = <<>>
          /\ Header = <<a, b>>
      BY DEF Entry, Entries, TextOf, Header
    <2> HIDE DEF a, b, F
    <2>3. /\ <<>> \in Seq(Entries) /\ Append(<<>>, a) \in Seq(Entries)
          /\ Append(Append(<<>>, a), b) = <<a, b>>
      <3>1. Append(<<>>, a) = <<a>> /\ <<a>> \in Seq(Entries)
        BY <2>2
      <3>2. Append(<<a>>, b) = <<a, b>>
        <4> DEFINE s == Append(<<a>>, b)
        <4>1. s \in Seq(Entries) /\ Len(s) = 2 /\ s[1] = a /\ s[2] = b
          BY <2>2, <3>1, AppendProperties
        <4>2. <<a, b>> \in Seq(Entries)
          BY <2>2
        <4>3. Len(<<a, b>>) = 2 /\ <<a, b>>[1] = a /\ <<a, b>>[2] = b
          OBVIOUS
        <4> DEFINE t == <<a, b>>
        <4> HIDE DEF s, t
        <4>4. s = t
          BY <4>1, <4>2, <4>3, SeqEqual DEF t
        <4> QED
          BY <4>4 DEF s, t
      <3> QED
        BY <3>1, <3>2
    <2>4. F(Append(<<>>, a)) = F(<<>>) \o <<>> /\ F(<<a, b>>) = F(Append(<<>>, a)) \o <<>>
      BY <1>a, <2>2, <2>3
    <2>5. F(<<a, b>>) = F(<<>>)
      BY <1>d, <2>1, <2>4
    <2> QED
      BY <1>0, <1>b, <2>1, <2>2, <2>5
  <1>2. ASSUME NEW typed \in BOOLEAN, SendInput(typed) PROVE ChunksConserved'
    <2>1. CASE chatHistory' = chatHistory
      BY <1>2, <1>c, <2>1, SendInputIs
    <2>2. CASE chatHistory' = Append(chatHistory, Entry("Q", <<Len(streams)>>))
      <3>1. /\ Entry("Q", <<Len(streams)>>) \in Entries
            /\ UNCHANGED <<currentResponse, received>>
        BY <1>2, SendInputIs
      <3>2. TextOf(Entry("Q", <<Len(streams)>>)) = <<>>
        BY DEF TextOf, Entry
      <3> HIDE DEF F
      <3>3. F(chatHistory') = F(chatHistory) \o <<>>
        BY <1>0, <1>a, <2>2, <3>1, <3>2
      <3>4. F(chatHistory') = F(chatHistory)
        BY <1>d, <3>3
      <3> QED
        BY <1>0, <1>b, <3>1, <3>4
    <2> QED
      BY <1>2, <2>1, <2>2, SendInputIs
  <1>3. CASE Connect \/ Drop \/ Dispose \/ UNCHANGED vars
    BY <1>3, <1>c DEF Connect, Drop, Dispose, vars
  <1>4. ASSUME NEW k \in DOMAIN streams, NewMessage(k) PROVE ChunksConserved'
    <2>1. /\ chatHistory' = chatHistory /\ k \in Nat
          /\ currentResponse' = Append(currentResponse, k) /\ received' = Append(received, k)
      BY <1>4 DEF NewMessage, Typed
    <2> HIDE DEF F
    <2>2. Append(F(chatHistory) \o currentResponse, k) = F(chatHistory) \o Append(currentResponse, k)
      <3> DEFINE f == F(chatHistory)
                 c == currentResponse
      <3>1. f \in Seq(Nat) /\ c \in Seq(Nat) /\ k \in Nat /\ <<k>> \in Seq(Nat) /\ f \o c \in Seq(Nat)
        BY <1>0, <1>d, <2>1
      <3> HIDE DEF f, c
      <3>2. Append(f \o c, k) = (f \o c) \o <<k>> /\ Append(c, k) = c \o <<k>>
        BY <3>1, AppendIsConcat
      <3>3. (f \o c) \o <<k>> = f \o (c \o <<k>>)
        BY <3>1, ConcatAssociative
      <3> QED
        BY <3>2, <3>3 DEF f, c
    <2> QED
      BY <1>0, <1>b, <2>1, <2>2
  <1>5. ASSUME NEW k \in DOMAIN streams, EndOfResponse(k) PROVE ChunksConserved'
    <2>1. CASE chatHistory' = chatHistory /\ currentResponse' = currentResponse
      BY <1>5, <1>c, <2>1, EndOfResponseIs
    <2>2. CASE /\ chatHistory' = Append(chatHistory, Entry("A", currentResponse))
               /\ currentResponse' = <<>>
      <3>1. Entry("A", currentResponse) \in Entries /\ received' = received
        BY <1>5, EndOfResponseIs
      <3>2. TextOf(Entry("A", currentResponse)) = currentResponse
        BY DEF TextOf, Entry
      <3> HIDE DEF F
      <3>3. F(chatHistory') = F(chatHistory) \o currentResponse
        BY <1>0, <1>a, <2>2, <3>1, <3>2
      <3>4. F(chatHistory') \o <<>> = F(chatHistory')
        BY <1>0, <1>d, <3>3
      <3> QED
        BY <1>0, <1>b, <2>2, <3>1, <3>3, <3>4
    <2> QED
      BY <1>5, <2>1, <2>2, EndOfResponseIs
  <1> QED
    BY <1>1, <1>2, <1>3, <1>4, <1>5 DEF Next

-----------------------------------------------------------------------------
(* The invariant and what follows from it *)

\* The invariant holds in every state.
THEOREM Inductive == Spec => []IInv
  <1>1. ASSUME IInv, [Next]_vars PROVE IInv'
    <2>1. Typed' /\ Flags' /\ Opened' /\ LastAsked' /\ InOrder'
      BY <1>1, TypedStep, FlagsStep, OpenedStep, LastAskedStep, InOrderStep DEF IInv
    <2>2. InputIsLastQuestion' /\ ChunksConserved'
      BY <1>1, InputStep, ChunksStep DEF IInv
    <2> QED
      BY <2>1, <2>2 DEF IInv
  <1> QED
    BY InitIInv, <1>1, PTL DEF Spec

\* The page's fields have their types and the history starts with its header, whatever
\* chat.dart's handlers and the socket do.
THEOREM TypeCorrect == Spec => []TypeOK
  <1>1. ASSUME IInv PROVE TypeOK
    <2>1. Typed /\ Flags /\ Opened
      BY <1>1 DEF IInv
    <2>2. \A i \in DOMAIN chatHistory : chatHistory[i].kind \in {"Verse", "Question", "Q", "A"}
      <3>1. ASSUME NEW i \in DOMAIN chatHistory PROVE chatHistory[i] \in Entries
        BY <2>1 DEF Typed
      <3>2. \A e \in Entries : e.kind \in {"Verse", "Question", "Q", "A"}
        BY DEF Entries
      <3> QED
        BY <3>1, <3>2
    <2>3. ASSUME phase # "opening"
          PROVE  Len(chatHistory) >= 2 /\ SubSeq(chatHistory, 1, 2) = Header
      <3>1. /\ Len(chatHistory) >= 2 /\ chatHistory \in Seq(Entries)
            /\ chatHistory[1] = Header[1] /\ chatHistory[2] = Header[2]
        BY <2>1, <2>3 DEF Typed, Opened
      <3> DEFINE s == SubSeq(chatHistory, 1, 2)
      <3>2. s \in Seq(Entries) /\ Len(s) = 2 /\ s[1] = chatHistory[1] /\ s[2] = chatHistory[2]
        BY <3>1
      <3> HIDE DEF s
      <3>3. s = Header
        BY <3>1, <3>2, HeaderIs, SeqEqual
      <3> QED
        BY <3>1, <3>3 DEF s
    <2>4. /\ phase \in {"opening", "open", "closed"}
          /\ Len(chunks) = Len(streams) /\ Len(asked) = Len(streams)
          /\ \A k \in DOMAIN streams : streams[k] \in {"queued", "open", "done", "lost"}
      BY <2>1 DEF Typed, Status
    <2>5. connected \in BOOLEAN /\ (connected => \A k \in DOMAIN streams : streams[k] # "queued")
      BY <2>1, Zenon DEF Flags, Opened
    <2> QED
      BY <2>2, <2>3, <2>4, <2>5 DEF TypeOK
  <1> QED
    BY Inductive, <1>1, PTL

\* Every chunk the new_message handler appended is on the screen once, in its order.
THEOREM AllChunksShown == Spec => []ChunksConserved
  <1>1. IInv => ChunksConserved
    BY DEF IInv
  <1> QED
    BY Inductive, <1>1, PTL

\* Without overlap or break, the answers the end_of_response handler archives are whole
\* and stand under their questions.
THEOREM AnswersAreWhole == Spec => []AnswersWhole
  <1>1. IInv => AnswersWhole
    BY DEF IInv, InOrder, AnswersWhole
  <1> QED
    BY Inductive, <1>1, PTL

\* The question _sendInput repeats is the last one of the history.
THEOREM InputIsLast == Spec => []InputIsLastQuestion
  <1>1. IInv => InputIsLastQuestion
    BY DEF IInv
  <1> QED
    BY Inductive, <1>1, PTL

-----------------------------------------------------------------------------
(* The page implements Conversation *)

Log == [i \in 1..(Len(chatHistory) - 2) |-> Said(chatHistory[i + 2])]
Pending == IF Unanswered = {} THEN 0 ELSE Max(Unanswered)
Sayings == {Said(e) : e \in Entries}

\* An entry of the history is an entry of the conversation.
LEMMA LogAppend ==
    ASSUME Typed, Len(chatHistory) >= 2, NEW e \in Entries, chatHistory' = Append(chatHistory, e)
    PROVE  Log' = Append(Log, Said(e))
  <1>0. chatHistory \in Seq(Entries)
    BY DEF Typed
  <1> DEFINE n == Len(chatHistory) - 2
             a == Append(Log, Said(e))
  <1>1. /\ n \in Nat /\ Len(chatHistory') - 2 = n + 1
        /\ chatHistory'[n + 3] = e /\ \A i \in 1..(n + 2) : chatHistory'[i] = chatHistory[i]
    <2>1. /\ Len(chatHistory) \in Nat /\ Len(chatHistory') = Len(chatHistory) + 1
          /\ chatHistory'[Len(chatHistory) + 1] = e
          /\ \A i \in 1..Len(chatHistory) : chatHistory'[i] = chatHistory[i]
      BY <1>0, AppendIs
    <2>2. n + 3 = Len(chatHistory) + 1 /\ n + 2 = Len(chatHistory)
      BY <2>1
    <2> QED
      BY <2>1, <2>2
  <1>2. Log \in [1..n -> Sayings]
    <2>1. \A i \in 1..n : chatHistory[i + 2] \in Entries
      BY <1>0, <1>1
    <2> QED
      BY <2>1 DEF Log, Sayings
  <1>3. Log \in Seq(Sayings) /\ Len(Log) = n /\ Said(e) \in Sayings
    <2>1. Said(e) \in Sayings
      BY DEF Sayings
    <2>2. n \in Nat
      BY <1>1
    <2> HIDE DEF n
    <2> QED
      BY <1>2, <2>1, <2>2
  <1>4. /\ a \in Seq(Sayings) /\ DOMAIN a = 1..(n + 1) /\ a[n + 1] = Said(e)
        /\ \A i \in 1..n : a[i] = Log[i]
    BY <1>1, <1>3, AppendIs
  <1>5. \A i \in 1..n : Log[i] = Said(chatHistory[i + 2])
    BY DEF Log
  <1>6. Log' = [i \in 1..(n + 1) |-> Said(chatHistory'[i + 2])]
    BY <1>1 DEF Log, Said
  <1> HIDE DEF a, n
  <1>7. a = [i \in 1..(n + 1) |-> a[i]]
    BY <1>4
  <1>8. ASSUME NEW i \in 1..(n + 1) PROVE a[i] = Said(chatHistory'[i + 2])
    <2>1. CASE i \in 1..n
      <3>1. chatHistory'[i + 2] = chatHistory[i + 2]
        BY <1>1, <2>1
      <3> QED
        BY <1>4, <1>5, <2>1, <3>1
    <2>2. CASE i = n + 1
      <3>1. i + 2 = n + 3
        BY <1>1, <2>2
      <3> QED
        BY <1>1, <1>4, <2>2, <3>1
    <2> QED
      BY <1>1, <2>1, <2>2
  <1> QED
    BY <1>6, <1>7, <1>8 DEF a

\* The conversation grows by one entry at most.
LEMMA LogGrows ==
    ASSUME Typed, Opened, [Next]_vars
    PROVE  IsPrefix(Log, Log') /\ Len(Log') <= Len(Log) + 1
  <1>0. chatHistory \in Seq(Entries) /\ Len(chatHistory) \in Nat
    BY DEF Typed
  <1>1. Log \in Seq(Sayings)
    <2>1. CASE Len(chatHistory) >= 2
      <3> DEFINE n == Len(chatHistory) - 2
      <3>1. n \in Nat /\ \A i \in 1..n : chatHistory[i + 2] \in Entries
        BY <1>0, <2>1
      <3> HIDE DEF n
      <3>2. Log \in [1..n -> Sayings]
        BY <3>1 DEF Log, Sayings, n
      <3> QED
        BY <3>1, <3>2
    <2>2. CASE ~(Len(chatHistory) >= 2)
      <3>1. 1..(Len(chatHistory) - 2) = {}
        BY <1>0, <2>2
      <3>2. Log = <<>>
        BY <3>1 DEF Log
      <3> QED
        BY <3>2
    <2> QED
      BY <2>1, <2>2
  <1>2. ASSUME Log' = Log PROVE IsPrefix(Log, Log') /\ Len(Log') <= Len(Log) + 1
    BY <1>1, <1>2 DEF IsPrefix
  <1>3. ASSUME NEW e \in Entries, chatHistory' = Append(chatHistory, e), Len(chatHistory) >= 2
        PROVE  IsPrefix(Log, Log') /\ Len(Log') <= Len(Log) + 1
    <2>1. Log' = Append(Log, Said(e)) /\ Said(e) \in Sayings
      BY <1>3, LogAppend DEF Sayings
    <2> DEFINE a == Log'
    <2>2. /\ a \in Seq(Sayings) /\ Len(Log) \in Nat /\ Len(a) = Len(Log) + 1
          /\ \A i \in 1..Len(Log) : a[i] = Log[i]
      BY <1>1, <2>1, AppendIs
    <2> HIDE DEF a
    <2>3. SubSeq(Log, 1, Len(Log)) = SubSeq(a, 1, Len(Log))
      BY <1>1, <2>2
    <2> QED
      BY <2>2, <2>3 DEF IsPrefix, a
  <1>4. ASSUME chatHistory' = chatHistory PROVE Log' = Log
    BY <1>4 DEF Log, Said
  <1>5. CASE Start
    <2>1. chatHistory = <<>> /\ Len(chatHistory') = 2
      BY <1>5, HeaderIs DEF Start, Opened
    <2>2. 1..(Len(chatHistory) - 2) = {} /\ 1..(Len(chatHistory') - 2) = {}
      BY <2>1
    <2>3. Log' = Log
      BY <2>2 DEF Log
    <2> QED
      BY <1>2, <2>3
  <1>6. ASSUME NEW typed \in BOOLEAN, SendInput(typed)
        PROVE  IsPrefix(Log, Log') /\ Len(Log') <= Len(Log) + 1
    <2>1. /\ Len(chatHistory) >= 2 /\ Entry("Q", <<Len(streams)>>) \in Entries
          /\ \/ chatHistory' = chatHistory
             \/ chatHistory' = Append(chatHistory, Entry("Q", <<Len(streams)>>))
      BY <1>6, SendInputIs DEF Opened
    <2> QED
      BY <1>2, <1>3, <1>4, <2>1
  <1>7. ASSUME NEW k \in DOMAIN streams, EndOfResponse(k)
        PROVE  IsPrefix(Log, Log') /\ Len(Log') <= Len(Log) + 1
    <2>1. /\ Len(chatHistory) >= 2 /\ Entry("A", currentResponse) \in Entries
          /\ \/ chatHistory' = chatHistory
             \/ chatHistory' = Append(chatHistory, Entry("A", currentResponse))
      BY <1>7, EndOfResponseIs DEF Opened
    <2> QED
      BY <1>2, <1>3, <1>4, <2>1
  <1>8. ASSUME NEW k \in DOMAIN streams, NewMessage(k) PROVE chatHistory' = chatHistory
    BY <1>8 DEF NewMessage
  <1>9. CASE Connect \/ Drop \/ Dispose \/ UNCHANGED vars
    BY <1>2, <1>4, <1>9 DEF Connect, Drop, Dispose, vars
  <1> QED
    BY <1>2, <1>4, <1>5, <1>6, <1>7, <1>8, <1>9 DEF Next

\* While at most one question is open, it is the last one.
LEMMA PendingIs ==
    ASSUME Typed, OneOpen
    PROVE  /\ Unanswered = {} => Pending = 0
           /\ Unanswered # {} => Pending = Len(streams) /\ Len(streams) # 0
  <1>1. ASSUME Unanswered # {} PROVE Max(Unanswered) = Len(streams) /\ Len(streams) # 0
    <2>1. Unanswered = {Len(streams)} /\ Len(streams) \in DOMAIN streams /\ Len(streams) \in Nat
      BY <1>1 DEF OneOpen, Unanswered, Typed
    <2> DEFINE n == Len(streams)
    <2>2. n \in Nat /\ Unanswered = {n} /\ n # 0
      BY <2>1 DEF Typed
    <2> HIDE DEF n
    <2>3. Max({n}) = n
      BY <2>2 DEF Max
    <2> QED
      BY <2>2, <2>3 DEF n
  <1> QED
    BY <1>1 DEF Pending

\* Conversation's steps in the terms of the page.
LEMMA PromiseIs ==
    /\ (/\ Pending = 0
        /\ Len(streams)' = Len(streams) + 1 /\ Pending' = Len(streams) + 1
        /\ Log' = Log \/ Log' = Append(Log, <<"Q", Len(streams) + 1>>)
        /\ mixed' = mixed) => Promise!Next
    /\ (/\ Pending # 0 /\ Pending' = 0
        /\ Log' = Log \/ Log' = Append(Log, <<"A", Pending>>)
        /\ Len(streams)' = Len(streams) /\ mixed' = mixed) => Promise!Next
    /\ (mixed' = TRUE /\ IsPrefix(Log, Log') /\ Len(Log') <= Len(Log) + 1) => Promise!Next
    /\ (/\ Log' = Log /\ Len(streams)' = Len(streams) /\ Pending' = Pending
        /\ mixed' = mixed) => UNCHANGED Promise!vars
  <1>1. (/\ Pending = 0
         /\ Len(streams)' = Len(streams) + 1 /\ Pending' = Len(streams) + 1
         /\ Log' = Log \/ Log' = Append(Log, <<"Q", Len(streams) + 1>>)
         /\ mixed' = mixed) => Promise!Ask
    BY Zenon DEF Promise!Ask, Log, Pending
  <1>2. (/\ Pending # 0 /\ Pending' = 0
         /\ Log' = Append(Log, <<"A", Pending>>)
         /\ Len(streams)' = Len(streams) /\ mixed' = mixed) => Promise!Answer
    BY Zenon DEF Promise!Answer, Log, Pending
  <1>3. (/\ Pending # 0 /\ Pending' = 0 /\ Log' = Log
         /\ Len(streams)' = Len(streams) /\ mixed' = mixed) => Promise!NoAnswer
    BY Zenon DEF Promise!NoAnswer, Log, Pending
  <1>4. (mixed' = TRUE /\ IsPrefix(Log, Log') /\ Len(Log') <= Len(Log) + 1) => Promise!Overlap
    BY Zenon DEF Promise!Overlap, Log, Promise!IsPrefix, IsPrefix
  <1>5. (/\ Log' = Log /\ Len(streams)' = Len(streams) /\ Pending' = Pending
         /\ mixed' = mixed) => UNCHANGED Promise!vars
    BY Zenon DEF Promise!vars, Log, Pending
  <1> QED
    BY <1>1, <1>2, <1>3, <1>4, <1>5 DEF Promise!Next

\* A step of the page is a step of the conversation, or none.
LEMMA PromiseStep ==
    ASSUME IInv, IInv', [Next]_vars PROVE [Promise!Next]_(Promise!vars)
  <1>0. /\ Typed /\ Typed' /\ Flags /\ Flags' /\ Opened /\ LastAsked /\ InOrder /\ InOrder'
        /\ DOMAIN streams = 1..Len(streams) /\ Len(streams) \in Nat
        /\ streams \in Seq(Status) /\ streams' \in Seq(Status) /\ currentResponse \in Seq(Nat)
    BY DEF IInv, Typed
  <1>1. CASE mixed'
    <2>1. mixed' = TRUE
      BY <1>0, <1>1, Zenon DEF Flags
    <2>2. IsPrefix(Log, Log') /\ Len(Log') <= Len(Log) + 1
      BY <1>0, LogGrows
    <2> QED
      BY <2>1, <2>2, PromiseIs
  <1>2. CASE ~mixed'
    <2>0. ~mixed /\ OneOpen /\ OneOpen'
      BY <1>0, <1>2, OneOpenStep DEF InOrder
    <2>a. mixed' = mixed
      BY <1>0, <1>2, <2>0, Zenon DEF Flags
    <2>b. /\ Unanswered = {} => Pending = 0
          /\ Unanswered # {} => Pending = Len(streams) /\ Len(streams) # 0
      BY <1>0, <2>0, PendingIs
    <2>c. /\ Unanswered' = {} => Pending' = 0
          /\ Unanswered' # {} => Pending' = Len(streams')
      <3>1. ASSUME Unanswered' # {} PROVE Max(Unanswered') = Len(streams')
        <4> DEFINE n == Len(streams')
        <4>1. n \in Nat /\ Unanswered' = {n}
          BY <1>0, <2>0, <3>1 DEF OneOpen, Unanswered
        <4> HIDE DEF n
        <4>2. Max({n}) = n
          BY <4>1 DEF Max
        <4> QED
          BY <4>1, <4>2 DEF n
      <3> QED
        BY <3>1 DEF Pending
    <2>d. ASSUME chatHistory' = chatHistory PROVE Log' = Log
      BY <2>d DEF Log, Said
    <2>1. CASE Start
      <3>1. /\ streams = <<>> /\ streams' = <<"queued">> /\ chatHistory = <<>>
            /\ Len(chatHistory') = 2
        BY <2>1, <1>0, HeaderIs DEF Start, Emit, Opened
      <3>2. 1..(Len(chatHistory) - 2) = {} /\ 1..(Len(chatHistory') - 2) = {}
        BY <3>1
      <3>3. Log' = Log
        BY <3>2 DEF Log
      <3>4. Unanswered = {} /\ 1 \in Unanswered' /\ Len(streams') = 1 /\ Len(streams) = 0
        BY <3>1 DEF Unanswered
      <3> QED
        BY <2>a, <2>b, <2>c, <3>3, <3>4, PromiseIs
    <2>2. ASSUME NEW typed \in BOOLEAN, SendInput(typed) PROVE Promise!Next
      <3>1. Unanswered = {}
        BY <1>0, <1>2, <2>2, SendInputIs
      <3>2. PICK x \in {"open", "queued"} : streams' = Append(streams, x)
        BY <1>0, <2>2, SendInputIs
      <3>3. Len(streams') = Len(streams) + 1 /\ Unanswered' # {}
        <4>1. x \in Status
          BY DEF Status
        <4>2. /\ Len(streams') = Len(streams) + 1 /\ streams'[Len(streams) + 1] = x
              /\ DOMAIN streams' = 1..(Len(streams) + 1)
          BY <1>0, <3>2, <4>1, AppendIs
        <4>3. Len(streams) + 1 \in Unanswered'
          BY <1>0, <4>2 DEF Unanswered
        <4> QED
          BY <4>2, <4>3
      <3>4. Log' = Log \/ Log' = Append(Log, <<"Q", Len(streams) + 1>>)
        <4>1. CASE chatHistory' = chatHistory
          BY <2>d, <4>1
        <4>2. CASE chatHistory' = Append(chatHistory, Entry("Q", <<Len(streams)>>))
          <5>1. Len(chatHistory) >= 2 /\ Entry("Q", <<Len(streams)>>) \in Entries
            BY <1>0, <2>2, SendInputIs DEF Opened
          <5>2. Said(Entry("Q", <<Len(streams)>>)) = <<"Q", Len(streams) + 1>>
            BY DEF Said, Entry
          <5> QED
            BY <1>0, <4>2, <5>1, <5>2, LogAppend
        <4> QED
          BY <1>0, <2>2, <4>1, <4>2, SendInputIs
      <3> QED
        BY <2>a, <2>b, <2>c, <3>1, <3>3, <3>4, PromiseIs
    <2>3. CASE Connect
      <3>1. Unanswered' = Unanswered /\ DOMAIN streams' = DOMAIN streams /\ chatHistory' = chatHistory
        BY <2>3 DEF Connect, Unanswered
      <3>2. Len(streams') = Len(streams)
        BY <1>0, <3>1
      <3> QED
        BY <2>a, <2>b, <2>c, <2>d, <3>1, <3>2, PromiseIs
    <2>4. CASE Drop
      <3>1. /\ Unanswered' = {} /\ DOMAIN streams' = DOMAIN streams /\ chatHistory' = chatHistory
        BY <1>0, <2>4 DEF Drop, Opened, Unanswered, Status
      <3>2. Len(streams') = Len(streams)
        BY <1>0, <3>1
      <3> QED
        BY <2>a, <2>b, <2>c, <2>d, <3>1, <3>2, PromiseIs
    <2>5. ASSUME NEW k \in DOMAIN streams, NewMessage(k) PROVE UNCHANGED Promise!vars
      <3>1. UNCHANGED <<streams, chatHistory>>
        BY <2>5 DEF NewMessage
      <3>2. Unanswered' = Unanswered
        BY <3>1 DEF Unanswered
      <3> QED
        BY <2>a, <2>b, <2>c, <2>d, <3>1, <3>2, PromiseIs
    <2>6. ASSUME NEW k \in DOMAIN streams, EndOfResponse(k) PROVE Promise!Next
      <3>1. /\ streams[k] = "open" /\ streams' = [streams EXCEPT ![k] = "done"]
            /\ Entry("A", currentResponse) \in Entries /\ Len(chatHistory) >= 2
        BY <1>0, <2>6, EndOfResponseIs DEF Opened
      <3>2. k \in Unanswered /\ Pending = k /\ k = Len(streams) /\ k # 0
        BY <2>0, <2>b, <3>1 DEF Unanswered, OneOpen
      <3>3. Unanswered' = {} /\ Len(streams') = Len(streams)
        BY <1>0, <2>0, <3>1 DEF OneOpen, Unanswered
      <3>4. Log' = Log \/ Log' = Append(Log, <<"A", Pending>>)
        <4>1. CASE chatHistory' = chatHistory
          BY <2>d, <4>1
        <4>2. CASE /\ chatHistory' = Append(chatHistory, Entry("A", currentResponse))
                   /\ currentResponse # <<>>
          <5>1. currentResponse[1] = k
            BY <1>0, <2>0, <3>2, <4>2 DEF OneOpen
          <5>2. Said(Entry("A", currentResponse)) = <<"A", Pending>>
            BY <3>2, <5>1 DEF Said, Entry
          <5> QED
            BY <1>0, <3>1, <4>2, <5>2, LogAppend
        <4> QED
          BY <1>0, <2>6, <4>1, <4>2, EndOfResponseIs
      <3> QED
        BY <2>a, <2>c, <3>2, <3>3, <3>4, PromiseIs
    <2>7. CASE Dispose \/ UNCHANGED vars
      <3>1. UNCHANGED <<streams, chatHistory>>
        BY <2>7 DEF Dispose, vars
      <3>2. Unanswered' = Unanswered
        BY <3>1 DEF Unanswered
      <3> QED
        BY <2>a, <2>b, <2>c, <2>d, <3>1, <3>2, PromiseIs
    <2> QED
      BY <2>1, <2>2, <2>3, <2>4, <2>5, <2>6, <2>7 DEF Next
  <1> QED
    BY <1>1, <1>2

\* The chat page implements Conversation: chat.dart never rewrites the history, and while
\* questions do not overlap every answer is the answer of the question still open.
THEOREM KeepsConversation == Spec => ConversationKept
  <1>1. Init => Promise!Init
    <2> SUFFICES ASSUME Init PROVE Promise!Init
      OBVIOUS
    <2>1. Len(chatHistory) = 0 /\ Len(streams) = 0 /\ DOMAIN streams = {} /\ mixed = FALSE
      BY DEF Init
    <2>2. 1..(Len(chatHistory) - 2) = {}
      BY <2>1
    <2>3. Log = <<>>
      BY <2>2 DEF Log
    <2>4. Pending = 0
      BY <2>1 DEF Pending, Unanswered
    <2> QED
      BY <2>1, <2>3, <2>4, Zenon DEF Promise!Init, Log, Pending
  <1> QED
    BY <1>1, PromiseStep, Inductive, PTL DEF Spec, ConversationKept, Promise!Spec
=============================================================================
