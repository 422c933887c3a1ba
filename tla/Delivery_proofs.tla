--------------------------- MODULE Delivery_proofs ---------------------------
(***************************************************************************)
(* Proofs about Delivery and the mailbox under it: what a message that was *)
(* sent can be lost to, what a phone can get twice, and what revoking the  *)
(* device leaves under way.                                                *)
(***************************************************************************)
EXTENDS Delivery, TLAPS

Line == Message \union {Torn}

Appending == [msg : Nat, file : Nat]
Draining == [stage : {"idle", "read", "reply"}, batch : SUBSET Message]

\* The types, with the shape of the records.
MailboxTypes ==
    /\ TypeOK
    /\ sender \in [Sender -> Appending]
    /\ drainer \in [Drainer -> Draining]

\* A message no file, no drain and no phone has seen.
Fresh(m) ==
    /\ \A i \in DOMAIN files : m \notin Range(files[i])
    /\ \A d \in Drainer : m \notin drainer[d].batch
    /\ m \notin received

Pending(s) == sender[s] # NoAppend

\* An append holds a message of its own, not written yet, and an open file.
PendingInv ==
    \A s \in Sender : Pending(s) =>
        /\ sender[s].msg \in (1 .. sent) \ reported
        /\ sender[s].file \in 1 .. Len(files)
        /\ Fresh(sender[s].msg)
        /\ \A t \in Sender \ {s} : sender[t].msg # sender[s].msg

\* Files and drains hold messages that were sent.
SentInv ==
    /\ \A i \in DOMAIN files : Range(files[i]) \subseteq 0 .. sent
    /\ \A d \in Drainer :
        /\ drainer[d].batch \subseteq 1 .. sent
        /\ drainer[d].stage = "idle" => drainer[d].batch = {}

\* What an unlink can take with it: the messages the drain has read, those
\* whose append overlapped its window, and no others.
WindowInv ==
    /\ \A s \in Sender : Pending(s) => sender[s].msg \in exposed \/ sender[s].file = path
    /\ \A d \in Drainer : InWindow(d) =>
        /\ \A s \in Sender : Pending(s) => sender[s].msg \in exposed
        /\ \A m \in Message : Waiting(m) => m \in drainer[d].batch \/ m \in exposed

\* A drain past its unlink has the message in its answer.
Replied(m) == \E d \in Drainer : drainer[d].stage = "reply" /\ m \in drainer[d].batch

\* Where a reported message is, when no window is left open around it.
LossInv ==
    \A m \in reported :
        \/ Waiting(m) \/ Replied(m) \/ m \in received
        \/ m \in exposed \/ m \in dropped \/ Glued(m)

\* What the path's file holds has not left it yet.
OnPathInv ==
    \A m \in Message : path # NoFile /\ m \in Range(files[path]) =>
        m \notin received /\ ~Replied(m)

\* A message is twice among the batches and the received only if two windows met.
CopyInv ==
    /\ repeated \subseteq contended
    /\ \A d \in Drainer : \A m \in drainer[d].batch :
        /\ m \in received => m \in contended
        /\ \A e \in Drainer \ {d} : m \in drainer[e].batch => m \in contended

\* The inductive invariant of the mailbox.
MailboxInv ==
    MailboxTypes /\ PendingInv /\ SentInv /\ WindowInv /\ LossInv /\ OnPathInv /\ CopyInv

\* A file's lines, as a sequence.
LEMMA LinesOfAFile ==
    ASSUME NEW file \in Seq(Line)
    PROVE  /\ Range(file) \subseteq Line
           /\ \A i \in 1 .. Len(file) : file[i] \in Range(file) /\ file[i] \in Line
           /\ Readable(file) \subseteq Range(file)
           /\ Readable(file) \subseteq Message
<1>1. DOMAIN file = 1 .. Len(file) /\ \A i \in 1 .. Len(file) : file[i] \in Line
  OBVIOUS
<1>2. Range(file) = {file[i] : i \in DOMAIN file}
  BY DEF Range
<1> QED
  BY <1>1, <1>2 DEF Readable, Parses, Line, Message, Torn

\* What one more line does to a file: what could be read still can, and the line
\* can if it is a message that follows no torn one.
LEMMA OneMoreLine ==
    ASSUME NEW file \in Seq(Line), NEW line \in Line
    PROVE  /\ Append(file, line) \in Seq(Line)
           /\ Range(Append(file, line)) = Range(file) \union {line}
           /\ Readable(file) \subseteq Readable(Append(file, line))
           /\ Readable(Append(file, line)) \subseteq Readable(file) \union ({line} \ {Torn})
           /\ line # Torn => \/ line \in Readable(Append(file, line))
                             \/ Len(file) \in Nat \ {0} /\ file[Len(file)] = Torn
<1> DEFINE more == Append(file, line)
<1>1. /\ more \in Seq(Line) /\ Len(more) = Len(file) + 1 /\ Len(file) \in Nat
      /\ \A i \in 1 .. Len(file) : more[i] = file[i]
      /\ more[Len(file) + 1] = line
  OBVIOUS
<1>2. DOMAIN file = 1 .. Len(file) /\ DOMAIN more = 1 .. (Len(file) + 1)
  BY <1>1
<1> HIDE DEF more
<1>3. Range(more) = Range(file) \union {line}
  <2>1. /\ Range(more) = {more[i] : i \in 1 .. (Len(file) + 1)}
        /\ Range(file) = {file[i] : i \in 1 .. Len(file)}
    BY <1>2 DEF Range
  <2>2. 1 .. (Len(file) + 1) = (1 .. Len(file)) \union {Len(file) + 1}
    BY <1>1
  <2> QED
    BY <1>1, <2>1, <2>2
<1>4. \A i \in 1 .. Len(file) : Parses(more, i) <=> Parses(file, i)
  <2> TAKE i \in 1 .. Len(file)
  <2>1. i = 1 \/ i - 1 \in 1 .. Len(file)
    BY <1>1
  <2> QED
    BY <1>1, <2>1 DEF Parses
<1>5. Readable(file) = {file[i] : i \in {k \in 1 .. Len(file) : Parses(file, k)}}
  BY <1>2 DEF Readable
<1>6. Readable(more) = {more[i] : i \in {k \in 1 .. (Len(file) + 1) : Parses(more, k)}}
  BY <1>2 DEF Readable
<1>7. Readable(file) \subseteq Readable(more)
  BY <1>1, <1>4, <1>5, <1>6
<1>8. Readable(more) \subseteq Readable(file) \union ({line} \ {Torn})
  <2> SUFFICES ASSUME NEW i \in 1 .. (Len(file) + 1), Parses(more, i)
               PROVE  more[i] \in Readable(file) \union ({line} \ {Torn})
    BY <1>6
  <2>1. CASE i \in 1 .. Len(file)
    BY <1>1, <1>4, <1>5, <2>1
  <2>2. CASE i = Len(file) + 1
    BY <1>1, <2>2 DEF Parses
  <2> QED
    BY <1>1, <2>1, <2>2
<1>9. ASSUME line # Torn, ~(Len(file) \in Nat \ {0} /\ file[Len(file)] = Torn)
      PROVE  line \in Readable(more)
  <2>1. Len(file) + 1 = 1 \/ (Len(file) \in 1 .. Len(file) /\ more[(Len(file) + 1) - 1] # Torn)
    BY <1>1, <1>9
  <2>2. Parses(more, Len(file) + 1)
    BY <1>1, <1>9, <2>1 DEF Parses
  <2> QED
    BY <1>1, <1>6, <2>2
<1> QED
  BY <1>1, <1>3, <1>7, <1>8, <1>9 DEF more

\* A sequence with one more element.
LEMMA AppendedSequence ==
    ASSUME NEW S, NEW seq \in Seq(S), NEW e \in S
    PROVE  /\ Append(seq, e) \in Seq(S) /\ Len(Append(seq, e)) = Len(seq) + 1
           /\ \A i \in 1 .. Len(seq) : Append(seq, e)[i] = seq[i]
           /\ Append(seq, e)[Len(seq) + 1] = e
OBVIOUS

\* The files are sequences of lines, and the path names one of them or none.
LEMMA FilesOfLines ==
    ASSUME MailboxTypes
    PROVE  /\ files \in Seq(Seq(Line)) /\ Len(files) \in Nat
           /\ DOMAIN files = 1 .. Len(files)
           /\ \A i \in 1 .. Len(files) : files[i] \in Seq(Line)
           /\ path # NoFile => path \in 1 .. Len(files)
           /\ \A m : Waiting(m) => m \in Message /\ m \in Range(files[path])
           /\ sent \in Nat /\ 1 .. sent \subseteq Message /\ Message \subseteq Nat \ {0}
<1>1. files \in Seq(Seq(Line)) /\ path \in 0 .. Len(files) /\ sent \in 0 .. MaxMessages
  BY DEF MailboxTypes, TypeOK, Line
<1>2. /\ Len(files) \in Nat /\ DOMAIN files = 1 .. Len(files)
      /\ \A i \in 1 .. Len(files) : files[i] \in Seq(Line)
  BY <1>1
<1>3. path # NoFile => path \in 1 .. Len(files)
  BY <1>1, <1>2 DEF NoFile
<1>4. \A m : Waiting(m) => m \in Message /\ m \in Range(files[path])
  BY <1>2, <1>3, LinesOfAFile DEF Waiting
<1>5. sent \in Nat /\ 1 .. sent \subseteq Message /\ Message \subseteq Nat \ {0}
  BY <1>1, MailboxAssumption DEF Message
<1> QED
  BY <1>1, <1>2, <1>3, <1>4, <1>5

\* A torn line keeps spoiling the next one however the files grow.
LEMMA GluedStays ==
    ASSUME MailboxTypes, files' \in Seq(Seq(Line)), Len(files) <= Len(files'),
           \A i \in 1 .. Len(files) :
               /\ Len(files[i]) <= Len(files'[i])
               /\ \A k \in 1 .. Len(files[i]) : files'[i][k] = files[i][k]
    PROVE  \A m : Glued(m) => Glued(m)'
<1> SUFFICES ASSUME NEW m, Glued(m) PROVE Glued(m)'
  OBVIOUS
<1>1. /\ DOMAIN files = 1 .. Len(files) /\ Len(files) \in Nat
      /\ \A i \in 1 .. Len(files) : files[i] \in Seq(Line)
  BY FilesOfLines
<1>2. PICK i \in 1 .. Len(files) :
          \E k \in 2 .. Len(files[i]) : files[i][k] = m /\ files[i][k - 1] = Torn
  BY <1>1 DEF Glued
<1>k. PICK k \in 2 .. Len(files[i]) : files[i][k] = m /\ files[i][k - 1] = Torn
  BY <1>2
<1>3. Len(files[i]) \in Nat /\ k \in 1 .. Len(files[i]) /\ k - 1 \in 1 .. Len(files[i])
  BY <1>1, <1>k
<1>4. files'[i][k] = m /\ files'[i][k - 1] = Torn
  BY <1>k, <1>3
<1>5. DOMAIN files' = 1 .. Len(files') /\ i \in 1 .. Len(files') /\ files'[i] \in Seq(Line)
  <2>1. DOMAIN files' = 1 .. Len(files') /\ Len(files') \in Nat
    OBVIOUS
  <2>2. i \in 1 .. Len(files')
    BY <1>1, <1>2, <2>1
  <2> QED
    BY <2>1, <2>2
<1>6. k \in 2 .. Len(files'[i])
  <2>1. Len(files'[i]) \in Nat
    BY <1>5
  <2> QED
    BY <1>k, <1>3, <2>1
<1> QED
  BY <1>4, <1>5, <1>6 DEF Glued

\* A mailbox nobody has written to.
LEMMA MailboxInitially == Init => MailboxInv
<1> SUFFICES ASSUME Init PROVE MailboxInv
  OBVIOUS
<1>1. /\ path = NoFile /\ files = <<>> /\ sent = 0 /\ reported = {} /\ exposed = {}
      /\ contended = {} /\ received = {} /\ repeated = {} /\ dropped = {} /\ faults = 0
      /\ \A s \in Sender : sender[s] = NoAppend
      /\ \A d \in Drainer : drainer[d] = Resting
  BY DEF Init
<1>2. Len(files) = 0 /\ DOMAIN files = {}
  BY <1>1
<1>3. TypeOK
  BY <1>1, <1>2, MailboxAssumption DEF TypeOK, NoFile, NoAppend, Resting
<1>4. MailboxTypes
  BY <1>3 DEF MailboxTypes, Init, NoAppend, NoFile, Resting, Appending, Draining
<1>5. PendingInv /\ SentInv /\ WindowInv
  BY <1>1, <1>2 DEF PendingInv, SentInv, WindowInv, Pending, InWindow, Resting
<1>6. LossInv /\ OnPathInv /\ CopyInv
  BY <1>1 DEF LossInv, OnPathInv, CopyInv, Resting
<1> QED
  BY <1>4, <1>5, <1>6 DEF MailboxInv

\* Opening the file, or creating it, puts a new message under way.
LEMMA OpenFileKeeps ==
    ASSUME MailboxInv, NEW s \in Sender, OpenFile(s)
    PROVE  MailboxInv'
<1> USE DEF MailboxInv
<1>0. PICK m : m = sent + 1
  OBVIOUS
<1>1. /\ sender[s] = NoAppend /\ sent < MaxMessages /\ sent' = m
      /\ sender' = [sender EXCEPT ![s] = [msg |-> m, file |-> path']]
      /\ exposed' = IF \E d \in Drainer : InWindow(d) THEN exposed \union {m} ELSE exposed
      /\ UNCHANGED <<drainer, reported, contended, received, repeated, dropped, faults>>
  BY <1>0 DEF OpenFile
<1>2. /\ files \in Seq(Seq(Line)) /\ Len(files) \in Nat /\ DOMAIN files = 1 .. Len(files)
      /\ \A i \in 1 .. Len(files) : files[i] \in Seq(Line)
      /\ path # NoFile => path \in 1 .. Len(files)
      /\ sent \in Nat /\ Message \subseteq Nat \ {0}
  BY FilesOfLines
<1>3. \/ path = NoFile /\ files' = Append(files, <<>>) /\ path' = Len(files) + 1
      \/ path # NoFile /\ files' = files /\ path' = path
  <2>1. path # NoFile => [files EXCEPT ![path] = files[path]] = files
    BY <1>2
  <2> QED
    BY <2>1 DEF OpenFile, Opened
<1>4. /\ files' \in Seq(Seq(Line)) /\ Len(files) <= Len(files') /\ Len(files') \in Nat
      /\ DOMAIN files' = 1 .. Len(files')
      /\ \A i \in 1 .. Len(files) : files'[i] = files[i]
      /\ \A i \in DOMAIN files' : i \in 1 .. Len(files) \/ files'[i] = <<>>
      /\ path' \in 1 .. Len(files')
      /\ path # NoFile => path' = path /\ files' = files
      /\ path = NoFile => files'[path'] = <<>>
  <2>1. CASE path = NoFile
    <3>1. <<>> \in Seq(Line)
      OBVIOUS
    <3>2. /\ files' \in Seq(Seq(Line)) /\ Len(files') = Len(files) + 1
          /\ \A i \in 1 .. Len(files) : files'[i] = files[i]
          /\ files'[Len(files) + 1] = <<>>
      <4>1. files' = Append(files, <<>>)
        BY <1>3, <2>1
      <4> QED
        BY <1>2, <3>1, <4>1, AppendedSequence
    <3>3. /\ Len(files) + 1 \in Nat /\ Len(files) <= Len(files) + 1
          /\ Len(files) + 1 \in 1 .. Len(files) + 1
          /\ \A i \in 1 .. Len(files) + 1 : i \in 1 .. Len(files) \/ i = Len(files) + 1
      BY <1>2
    <3>4. DOMAIN files' = 1 .. Len(files) + 1 /\ path' = Len(files) + 1
      BY <1>3, <2>1, <3>2
    <3> QED
      BY <2>1, <3>2, <3>3, <3>4
  <2>2. CASE path # NoFile
    BY <1>2, <1>3, <2>2
  <2> QED
    BY <2>1, <2>2
<1>5. Range(<<>>) = {} /\ Readable(<<>>) = {}
  BY DEF Range, Readable
<1>6. m \in Message /\ 1 .. sent \subseteq 1 .. sent' /\ m \in 1 .. sent' /\ m \notin 0 .. sent
  BY <1>0, <1>1, <1>2, MailboxAssumption DEF Message, MailboxTypes, TypeOK
<1>7. /\ sender' \in [Sender -> Appending]
      /\ sender'[s] = [msg |-> m, file |-> path']
      /\ \A t \in Sender \ {s} : sender'[t] = sender[t]
  <2>1. [msg |-> m, file |-> path'] \in Appending
    BY <1>0, <1>2, <1>4 DEF Appending
  <2> QED
    BY <1>1, <2>1 DEF MailboxTypes
<1>8. \A n : Glued(n) => Glued(n)'
  <2>1. \A i \in 1 .. Len(files) : Len(files[i]) \in Nat
    BY <1>2
  <2>2. \A i \in 1 .. Len(files) : Len(files[i]) <= Len(files'[i])
    BY <1>4, <2>1
  <2> QED
    BY <1>4, <2>2, GluedStays
<1>9. \A n : Waiting(n)' <=> Waiting(n)
  BY <1>2, <1>4, <1>5 DEF Waiting, NoFile
<1>10. MailboxTypes'
  <2>1. path' \in 0 .. Len(files')
    BY <1>4
  <2>2. sent' \in 0 .. MaxMessages /\ exposed' \subseteq 1 .. sent'
    <3>1. sent' \in 0 .. MaxMessages
      BY <1>0, <1>1, <1>2, MailboxAssumption
    <3>2. exposed \subseteq 1 .. sent'
      BY <1>6 DEF MailboxTypes, TypeOK
    <3> QED
      BY <1>1, <1>6, <3>1, <3>2
  <2>3. \A t \in Sender : sender'[t].msg \in 0 .. sent' /\ sender'[t].file \in 0 .. Len(files')
    <3> TAKE t \in Sender
    <3>1. CASE t = s
      BY <1>6, <1>7, <2>1, <3>1
    <3>2. CASE t # s
      <4>1. sender[t].msg \in 0 .. sent /\ sender[t].file \in 0 .. Len(files)
        BY DEF MailboxTypes, TypeOK
      <4>2. /\ sender'[t] = sender[t]
            /\ 0 .. sent \subseteq 0 .. sent' /\ 0 .. Len(files) \subseteq 0 .. Len(files')
        BY <1>0, <1>1, <1>2, <1>4, <1>7, <3>2
      <4> QED
        BY <4>1, <4>2
    <3> QED
      BY <3>1, <3>2
  <2>4. TypeOK'
    BY <1>1, <1>4, <1>6, <2>1, <2>2, <2>3 DEF MailboxTypes, TypeOK, Line
  <2> QED
    BY <1>1, <1>7, <2>4 DEF MailboxTypes
<1>11. \A n \in 0 .. sent : Fresh(n) => Fresh(n)'
  BY <1>1, <1>2, <1>4, <1>5 DEF Fresh
<1>12. Fresh(m)'
  <2>1. \A i \in DOMAIN files' : m \notin Range(files'[i])
    BY <1>2, <1>4, <1>5, <1>6 DEF SentInv
  <2>2. received \subseteq 1 .. sent /\ \A d \in Drainer : drainer[d].batch \subseteq 1 .. sent
    BY DEF SentInv, MailboxTypes, TypeOK
  <2>3. m \notin 1 .. sent
    BY <1>2, <1>6
  <2> QED
    BY <1>1, <2>1, <2>2, <2>3 DEF Fresh
<1>13. PendingInv'
  <2> SUFFICES ASSUME NEW t \in Sender, Pending(t)'
               PROVE  /\ sender'[t].msg \in (1 .. sent') \ reported'
                      /\ sender'[t].file \in 1 .. Len(files')
                      /\ Fresh(sender[t].msg)'
                      /\ \A u \in Sender \ {t} : sender'[u].msg # sender'[t].msg
    BY DEF PendingInv
  <2>1. \A u \in Sender \ {s} : sender'[u].msg \in 0 .. sent
    BY <1>7 DEF MailboxTypes, TypeOK
  <2>2. CASE t = s
    <3>1. sender'[t].msg = m /\ sender'[t].file = path'
      BY <1>7, <2>2
    <3>2. \A u \in Sender \ {t} : sender'[u].msg # m
      BY <1>6, <2>1, <2>2
    <3>3. Fresh(sender[t].msg)'
      BY <1>12, <3>1 DEF Fresh
    <3>4. m \notin reported'
      BY <1>1, <1>2, <1>6 DEF MailboxTypes, TypeOK
    <3> QED
      BY <1>4, <1>6, <3>1, <3>2, <3>3, <3>4
  <2>3. CASE t # s
    <3>1. PICK n : n = sender[t].msg
      OBVIOUS
    <3>2. /\ n \in (1 .. sent) \ reported /\ sender[t].file \in 1 .. Len(files) /\ Fresh(n)
          /\ \A u \in Sender \ {t} : sender[u].msg # n
      <4>1. Pending(t)
        BY <1>7, <2>3 DEF Pending
      <4> QED
        BY <3>1, <4>1 DEF PendingInv
    <3>3. n \in 0 .. sent /\ 1 .. Len(files) \subseteq 1 .. Len(files')
      <4>1. n \in 0 .. sent
        BY <1>2, <3>2
      <4>2. 1 .. Len(files) \subseteq 1 .. Len(files')
        BY <1>2, <1>4
      <4> QED
        BY <4>1, <4>2
    <3>4. Fresh(n)'
      BY <1>11, <3>2, <3>3
    <3>5. n # m /\ n \in (1 .. sent') \ reported'
      BY <1>1, <1>6, <3>2, <3>3
    <3>6. sender'[t] = sender[t]
      BY <1>7, <2>3
    <3>7. Fresh(sender[t].msg)'
      BY <3>1, <3>4, <3>6 DEF Fresh
    <3>8. \A u \in Sender \ {t} : sender'[u].msg # n
      BY <1>7, <3>2, <3>5
    <3> QED
      BY <3>1, <3>2, <3>3, <3>5, <3>6, <3>7, <3>8
  <2> QED
    BY <2>2, <2>3
<1>14. SentInv'
  <2>1. 0 .. sent \subseteq 0 .. sent'
    BY <1>0, <1>1, <1>2
  <2> QED
    BY <1>1, <1>2, <1>4, <1>5, <1>6, <2>1 DEF SentInv
<1>15. WindowInv'
  <2>1. exposed \subseteq exposed' /\ ((\E d \in Drainer : InWindow(d)) => m \in exposed')
    BY <1>1
  <2>2. \A t \in Sender : Pending(t)' => sender'[t].msg \in exposed' \/ sender'[t].file = path'
    <3> SUFFICES ASSUME NEW t \in Sender, Pending(t)', t # s
                 PROVE  sender'[t].msg \in exposed' \/ sender'[t].file = path'
      BY <1>7
    <3>1. sender'[t] = sender[t] /\ Pending(t)
      BY <1>7 DEF Pending
    <3>2. sender[t].file \in 1 .. Len(files) /\ (sender[t].msg \in exposed \/ sender[t].file = path)
      BY <3>1 DEF WindowInv, PendingInv
    <3>3. sender[t].file = path => path' = path
      BY <1>2, <1>4, <3>2 DEF NoFile
    <3> QED
      BY <2>1, <3>1, <3>2, <3>3
  <2>3. \A d \in Drainer : InWindow(d)' <=> InWindow(d)
    BY <1>1 DEF InWindow
  <2> QED
    BY <1>1, <1>7, <1>9, <2>1, <2>2, <2>3 DEF WindowInv, Pending
<1>16. LossInv'
  BY <1>1, <1>8, <1>9 DEF LossInv, Replied
<1>17. OnPathInv'
  BY <1>1, <1>4, <1>5 DEF OnPathInv, Replied
<1>18. CopyInv'
  BY <1>1 DEF CopyInv
<1> QED
  BY <1>10, <1>13, <1>14, <1>15, <1>16, <1>17, <1>18

\* A line, whole or torn, lands in the file an append had open, and the append
\* is over.
LEMMA LineLands ==
    ASSUME MailboxInv, NEW s \in Sender, Pending(s), NEW line \in {Torn, sender[s].msg},
           files' = [files EXCEPT ![sender[s].file] = Append(@, line)],
           sender' = [sender EXCEPT ![s] = NoAppend],
           \/ reported' = reported
           \/ line = sender[s].msg /\ reported' = reported \union {line},
           faults' \in 0 .. MaxFaults,
           UNCHANGED <<path, drainer, sent, exposed, contended, received, repeated, dropped>>
    PROVE  MailboxInv'
<1> USE DEF MailboxInv
<1>0. PICK m, f : m = sender[s].msg /\ f = sender[s].file
  OBVIOUS
<1>1. /\ files \in Seq(Seq(Line)) /\ Len(files) \in Nat /\ DOMAIN files = 1 .. Len(files)
      /\ \A i \in 1 .. Len(files) : files[i] \in Seq(Line)
      /\ path # NoFile => path \in 1 .. Len(files)
      /\ \A n : Waiting(n) => n \in Message /\ n \in Range(files[path])
      /\ sent \in Nat /\ 1 .. sent \subseteq Message /\ Message \subseteq Nat \ {0}
  BY FilesOfLines
<1>2. /\ m \in 1 .. sent /\ f \in 1 .. Len(files) /\ Fresh(m)
      /\ \A t \in Sender \ {s} : sender[t].msg # m
  BY <1>0 DEF PendingInv
<1>3. line \in Line /\ m \in Message /\ line \in 0 .. sent /\ (line = Torn \/ line = m)
  BY <1>0, <1>1, <1>2 DEF Line, Torn
<1>4. /\ files' \in Seq(Seq(Line)) /\ Len(files') = Len(files) /\ DOMAIN files' = 1 .. Len(files)
      /\ files'[f] = Append(files[f], line)
      /\ \A i \in 1 .. Len(files) : i # f => files'[i] = files[i]
  <2>1. Append(files[f], line) \in Seq(Line)
    BY <1>1, <1>2, <1>3
  <2>2. files' = [files EXCEPT ![f] = Append(files[f], line)]
    BY <1>0
  <2> HIDE DEF Line
  <2> QED
    BY <1>1, <1>2, <2>1, <2>2
<1>5. /\ Range(files'[f]) = Range(files[f]) \union {line}
      /\ Readable(files[f]) \subseteq Readable(files'[f])
      /\ Readable(files'[f]) \subseteq Readable(files[f]) \union ({line} \ {Torn})
      /\ line # Torn => \/ line \in Readable(files'[f])
                        \/ Len(files[f]) \in Nat \ {0} /\ files[f][Len(files[f])] = Torn
  BY <1>1, <1>2, <1>3, <1>4, OneMoreLine
<1>6. /\ sender'[s] = NoAppend /\ sender' \in [Sender -> Appending]
      /\ \A t \in Sender \ {s} : sender'[t] = sender[t]
      /\ \A t \in Sender : Pending(t)' => t # s /\ Pending(t)
  BY DEF MailboxTypes, NoAppend, NoFile, Appending, Pending
<1>7. \A n : Waiting(n) => Waiting(n)'
  BY <1>1, <1>4, <1>5 DEF Waiting
<1>8. \A n : Waiting(n)' => Waiting(n) \/ (n = m /\ f = path)
  BY <1>1, <1>3, <1>4, <1>5 DEF Waiting
<1>9. \A n : Glued(n) => Glued(n)'
  <2>1. \A i \in 1 .. Len(files) : Len(files[i]) \in Nat
    BY <1>1
  <2>2. /\ Len(files'[f]) = Len(files[f]) + 1
        /\ \A k \in 1 .. Len(files[f]) : files'[f][k] = files[f][k]
    BY <1>1, <1>2, <1>3, <1>4, AppendedSequence
  <2>3. Len(files) <= Len(files')
    BY <1>1, <1>4
  <2>4. \A i \in 1 .. Len(files) :
            /\ Len(files[i]) <= Len(files'[i])
            /\ \A k \in 1 .. Len(files[i]) : files'[i][k] = files[i][k]
    <3> TAKE i \in 1 .. Len(files)
    <3>1. CASE i = f
      BY <1>2, <2>1, <2>2, <3>1
    <3>2. CASE i # f
      BY <1>4, <2>1, <3>2
    <3> QED
      BY <3>1, <3>2
  <2> QED
    BY <1>4, <2>3, <2>4, GluedStays
<1>10. ASSUME line = m
       PROVE  (f = path => Waiting(m)' \/ Glued(m)') /\ (f = path \/ m \in exposed)
  <2>1. f = path \/ m \in exposed
    BY <1>0 DEF WindowInv
  <2>2. CASE line \in Readable(files'[f])
    BY <1>1, <1>2, <1>10, <2>1, <2>2 DEF Waiting, NoFile
  <2>3. CASE Len(files[f]) \in Nat \ {0} /\ files[f][Len(files[f])] = Torn
    <3>1. /\ Len(files'[f]) = Len(files[f]) + 1 /\ files'[f][Len(files[f]) + 1] = line
          /\ \A k \in 1 .. Len(files[f]) : files'[f][k] = files[f][k]
      BY <1>1, <1>2, <1>3, <1>4, AppendedSequence
    <3>2. PICK k : k = Len(files'[f])
      OBVIOUS
    <3>3. /\ k \in 2 .. Len(files'[f]) /\ k - 1 = Len(files[f])
          /\ Len(files[f]) \in 1 .. Len(files[f])
      BY <2>3, <3>1, <3>2
    <3>4. files'[f][k] = m /\ files'[f][k - 1] = Torn
      BY <1>10, <2>3, <3>1, <3>2, <3>3
    <3>5. f \in DOMAIN files'
      BY <1>2, <1>4
    <3>6. Glued(m)'
      BY <3>3, <3>4, <3>5 DEF Glued
    <3> QED
      BY <2>1, <3>6
  <2>4. line # Torn
    BY <1>1, <1>3, <1>10 DEF Torn
  <2> QED
    BY <1>5, <2>2, <2>3, <2>4
<1>11. MailboxTypes'
  <2>1. \A t \in Sender : sender'[t].msg \in 0 .. sent /\ sender'[t].file \in 0 .. Len(files)
    <3> TAKE t \in Sender
    <3>1. CASE t = s
      BY <1>1, <1>6, <3>1 DEF NoAppend, NoFile
    <3>2. CASE t # s
      BY <1>6, <3>2 DEF MailboxTypes, TypeOK
    <3> QED
      BY <3>1, <3>2
  <2>2. reported' \subseteq 1 .. sent
    BY <1>0, <1>2 DEF MailboxTypes, TypeOK
  <2>3. TypeOK'
    BY <1>4, <2>1, <2>2 DEF MailboxTypes, TypeOK, Line
  <2> QED
    BY <1>6, <2>3 DEF MailboxTypes
<1>12. PendingInv'
  <2> SUFFICES ASSUME NEW t \in Sender, Pending(t)'
               PROVE  /\ sender'[t].msg \in (1 .. sent') \ reported'
                      /\ sender'[t].file \in 1 .. Len(files')
                      /\ Fresh(sender[t].msg)'
                      /\ \A u \in Sender \ {t} : sender'[u].msg # sender'[t].msg
    BY DEF PendingInv
  <2>0. PICK n : n = sender[t].msg
    OBVIOUS
  <2>1. /\ t # s /\ Pending(t) /\ sender'[t] = sender[t]
    BY <1>6
  <2>2. /\ n \in (1 .. sent) \ reported /\ sender[t].file \in 1 .. Len(files) /\ Fresh(n) /\ n # m
        /\ \A u \in Sender \ {t} : sender[u].msg # n
    BY <1>2, <2>0, <2>1 DEF PendingInv
  <2>3. n # line /\ n \notin reported'
    BY <1>0, <1>3, <2>2 DEF Torn
  <2>4. Fresh(n)'
    <3>1. \A i \in 1 .. Len(files) : n \notin Range(files'[i])
      BY <1>1, <1>2, <1>4, <1>5, <2>2, <2>3 DEF Fresh
    <3> QED
      BY <1>4, <2>2, <3>1 DEF Fresh
  <2>5. Fresh(sender[t].msg)'
    BY <2>0, <2>1, <2>4 DEF Fresh
  <2>6. \A u \in Sender \ {t} : sender'[u].msg # n
    <3>1. NoAppend.msg # n
      BY <2>2 DEF NoAppend
    <3> QED
      BY <1>6, <2>2, <3>1
  <2> QED
    BY <1>4, <2>0, <2>1, <2>2, <2>5, <2>6
<1>13. SentInv'
  <2>1. \A i \in 1 .. Len(files) : Range(files'[i]) \subseteq 0 .. sent
    BY <1>1, <1>2, <1>3, <1>4, <1>5 DEF SentInv
  <2> QED
    BY <1>4, <2>1 DEF SentInv
<1>14. WindowInv'
  <2>1. \A t \in Sender : Pending(t)' => sender'[t].msg \in exposed' \/ sender'[t].file = path'
    BY <1>6 DEF WindowInv
  <2>2. ASSUME NEW d \in Drainer, InWindow(d)'
        PROVE  /\ \A t \in Sender : Pending(t)' => sender'[t].msg \in exposed'
               /\ \A n \in Message : Waiting(n)' => n \in drainer'[d].batch \/ n \in exposed'
    <3>1. InWindow(d)
      BY <2>2 DEF InWindow
    <3>2. m \in exposed
      BY <1>0, <3>1 DEF WindowInv
    <3> QED
      BY <1>6, <1>8, <3>1, <3>2 DEF WindowInv
  <2> QED
    BY <2>1, <2>2 DEF WindowInv
<1>15. LossInv'
  <2> SUFFICES ASSUME NEW n \in reported'
               PROVE  \/ Waiting(n)' \/ Replied(n)' \/ n \in received'
                      \/ n \in exposed' \/ n \in dropped' \/ Glued(n)'
    BY DEF LossInv
  <2>1. CASE n \in reported
    BY <1>7, <1>9, <2>1 DEF LossInv, Replied
  <2>2. CASE line = m /\ n = m
    BY <1>10, <2>2
  <2> QED
    BY <1>0, <2>1, <2>2
<1>16. OnPathInv'
  <2> SUFFICES ASSUME NEW n \in Message, path # NoFile, n \in Range(files'[path])
               PROVE  n \notin received' /\ ~Replied(n)'
    BY DEF OnPathInv
  <2>1. n \in Range(files[path]) \/ n = line
    BY <1>1, <1>4, <1>5
  <2>2. CASE n = line
    BY <1>1, <1>2, <1>3, <2>2 DEF Fresh, Replied, Torn
  <2> QED
    BY <2>1, <2>2 DEF OnPathInv, Replied
<1>17. CopyInv'
  BY DEF CopyInv
<1> QED
  BY <1>11, <1>12, <1>13, <1>14, <1>15, <1>16, <1>17

\* The append raises with nothing written.
LEMMA NothingLands ==
    ASSUME MailboxInv, NEW s \in Sender, sender' = [sender EXCEPT ![s] = NoAppend],
           faults' \in 0 .. MaxFaults,
           UNCHANGED <<path, files, drainer, sent, reported, exposed, contended, received,
                       repeated, dropped>>
    PROVE  MailboxInv'
<1> USE DEF MailboxInv
<1>1. /\ sender'[s] = NoAppend /\ sender' \in [Sender -> Appending]
      /\ \A t \in Sender \ {s} : sender'[t] = sender[t]
      /\ \A t \in Sender : Pending(t)' => t # s /\ Pending(t)
  BY DEF MailboxTypes, NoAppend, NoFile, Appending, Pending
<1>2. sent \in Nat /\ Len(files) \in Nat
  BY FilesOfLines
<1>3. MailboxTypes'
  <2>1. \A t \in Sender : sender'[t].msg \in 0 .. sent /\ sender'[t].file \in 0 .. Len(files)
    <3> TAKE t \in Sender
    <3>1. CASE t = s
      BY <1>1, <1>2, <3>1 DEF NoAppend, NoFile
    <3>2. CASE t # s
      BY <1>1, <3>2 DEF MailboxTypes, TypeOK
    <3> QED
      BY <3>1, <3>2
  <2> QED
    BY <1>1, <2>1 DEF MailboxTypes, TypeOK
<1>4. PendingInv'
  <2>1. NoAppend.msg = 0
    BY DEF NoAppend
  <2> SUFFICES ASSUME NEW t \in Sender, Pending(t)'
               PROVE  /\ sender'[t].msg \in (1 .. sent) \ reported
                      /\ sender'[t].file \in 1 .. Len(files)
                      /\ Fresh(sender[t].msg)'
                      /\ \A u \in Sender \ {t} : sender'[u].msg # sender'[t].msg
    BY DEF PendingInv
  <2>2. PICK n : n = sender[t].msg
    OBVIOUS
  <2>3. /\ t # s /\ sender'[t] = sender[t] /\ n \in (1 .. sent) \ reported
        /\ sender[t].file \in 1 .. Len(files) /\ Fresh(n)
        /\ \A u \in Sender \ {t} : sender[u].msg # n
    BY <1>1, <2>2 DEF PendingInv
  <2>4. Fresh(sender[t].msg)'
    BY <2>2, <2>3 DEF Fresh
  <2>5. \A u \in Sender \ {t} : sender'[u].msg # n
    BY <1>1, <2>1, <2>3
  <2> QED
    BY <2>2, <2>3, <2>4, <2>5
<1>5. SentInv'
  BY DEF SentInv
<1>6. WindowInv'
  BY <1>1 DEF WindowInv, InWindow, Waiting
<1>7. LossInv' /\ OnPathInv' /\ CopyInv'
  BY DEF LossInv, OnPathInv, CopyInv, Waiting, Replied, Glued
<1> QED
  BY <1>3, <1>4, <1>5, <1>6, <1>7

\* A drain reads the file at the path: nothing in it has left the file before,
\* and another drain that has read it as well is still in its window.
LEMMA ReadFileKeeps ==
    ASSUME MailboxInv, NEW d \in Drainer, ReadFile(d)
    PROVE  MailboxInv'
<1> USE DEF MailboxInv
<1>0. PICK batch : batch = Readable(files[path])
  OBVIOUS
<1>1. /\ drainer[d] = Resting /\ path # NoFile
      /\ drainer' = [drainer EXCEPT ![d] = [stage |-> "read", batch |-> batch]]
      /\ exposed' = exposed \union {sender[s].msg : s \in {u \in Sender : Pending(u)}}
      /\ UNCHANGED <<path, files, sender, sent, reported, received, repeated, dropped, faults>>
  BY <1>0 DEF ReadFile, Pending
<1>2. /\ files \in Seq(Seq(Line)) /\ DOMAIN files = 1 .. Len(files)
      /\ \A i \in 1 .. Len(files) : files[i] \in Seq(Line)
      /\ path \in 1 .. Len(files)
      /\ sent \in Nat /\ 1 .. sent \subseteq Message /\ Message \subseteq Nat \ {0}
  BY <1>1, FilesOfLines
<1>3. /\ batch \subseteq Range(files[path]) /\ batch \subseteq Message
      /\ batch \subseteq 1 .. sent
      /\ \A m : Waiting(m) <=> m \in batch
  <2>1. batch \subseteq Range(files[path]) /\ batch \subseteq Message
    BY <1>0, <1>2, LinesOfAFile
  <2>2. \A m \in batch : m \in 0 .. sent /\ m # 0
    BY <1>2, <2>1 DEF SentInv
  <2>3. batch \subseteq 1 .. sent
    BY <1>2, <2>2
  <2> QED
    BY <1>0, <1>1, <2>1, <2>3 DEF Waiting
<1>4. /\ drainer' \in [Drainer -> Draining]
      /\ drainer'[d] = [stage |-> "read", batch |-> batch]
      /\ \A e \in Drainer \ {d} : drainer'[e] = drainer[e]
  BY <1>1, <1>3 DEF MailboxTypes, Draining
<1>5. contended' = IF \E e \in Drainer : InWindow(e) THEN contended \union batch ELSE contended
  <2>1. drainer'[d].batch = batch
    BY <1>4
  <2> QED
    BY <2>1 DEF ReadFile
<1>6. \A m : Replied(m)' <=> Replied(m)
  BY <1>1, <1>4 DEF Replied, Resting
<1>7. exposed \subseteq exposed' /\ \A s \in Sender : Pending(s) => sender[s].msg \in exposed'
  BY <1>1
<1>8. MailboxTypes'
  <2>1. exposed' \subseteq 1 .. sent /\ contended' \subseteq 1 .. sent
    BY <1>1, <1>3, <1>5 DEF MailboxTypes, TypeOK, PendingInv
  <2>2. \A e \in Drainer : /\ drainer'[e].stage \in {"idle", "read", "reply"}
                           /\ drainer'[e].batch \subseteq Message
    BY <1>4 DEF Draining
  <2> QED
    BY <1>1, <1>4, <2>1, <2>2 DEF MailboxTypes, TypeOK
<1>9. PendingInv'
  <2> SUFFICES ASSUME NEW s \in Sender, Pending(s)
               PROVE  /\ sender[s].msg \in 1 .. sent /\ sender[s].file \in 1 .. Len(files)
                      /\ Fresh(sender[s].msg)'
                      /\ \A t \in Sender \ {s} : sender[t].msg # sender[s].msg
    BY <1>1 DEF PendingInv, Pending
  <2>1. Fresh(sender[s].msg)
    BY DEF PendingInv
  <2>2. Fresh(sender[s].msg)'
    BY <1>1, <1>2, <1>3, <1>4, <2>1 DEF Fresh
  <2> QED
    BY <2>2 DEF PendingInv
<1>10. SentInv'
  BY <1>1, <1>3, <1>4 DEF SentInv
<1>11. WindowInv'
  <2>1. \A s \in Sender : Pending(s)' <=> Pending(s)
    BY <1>1 DEF Pending
  <2>2. \A m : Waiting(m)' <=> m \in batch
    BY <1>1, <1>3 DEF Waiting
  <2>3. \A e \in Drainer : InWindow(e)' => e = d \/ InWindow(e)
    BY <1>4 DEF InWindow
  <2> QED
    BY <1>1, <1>3, <1>4, <1>7, <2>1, <2>2, <2>3 DEF WindowInv
<1>12. LossInv'
  <2>1. \A m : (Waiting(m)' <=> Waiting(m)) /\ (Glued(m)' <=> Glued(m))
    BY <1>1 DEF Waiting, Glued
  <2> QED
    BY <1>1, <1>6, <1>7, <2>1 DEF LossInv
<1>13. OnPathInv'
  BY <1>1, <1>6 DEF OnPathInv
<1>14. CopyInv'
  <2>1. contended \subseteq contended'
    BY <1>5
  <2>2. \A m \in batch : m \notin received /\ ~Replied(m)
    BY <1>1, <1>3 DEF OnPathInv
  <2>3. ASSUME NEW e \in Drainer \ {d}, NEW m \in drainer[e].batch, m \in batch
        PROVE  m \in contended'
    <3>1. drainer[e].stage \in {"idle", "read", "reply"}
      BY DEF MailboxTypes, TypeOK
    <3>2. drainer[e].stage # "idle" /\ drainer[e].stage # "reply"
      BY <2>2, <2>3 DEF SentInv, Replied
    <3>3. InWindow(e)
      BY <3>1, <3>2 DEF InWindow
    <3> QED
      BY <1>5, <2>3, <3>3
  <2> QED
    BY <1>1, <1>4, <2>1, <2>2, <2>3 DEF CopyInv
<1> QED
  BY <1>8, <1>9, <1>10, <1>11, <1>12, <1>13, <1>14

\* The unlink: what it takes with it the drain has read, or its window exposed.
LEMMA UnlinkPathKeeps ==
    ASSUME MailboxInv, NEW d \in Drainer, UnlinkPath(d)
    PROVE  MailboxInv'
<1> USE DEF MailboxInv
<1>1. /\ drainer[d].stage = "read" /\ path' = NoFile
      /\ drainer' = [drainer EXCEPT ![d].stage = "reply"]
      /\ UNCHANGED <<files, sender, sent, reported, exposed, contended, received, repeated,
                     dropped, faults>>
  BY DEF UnlinkPath
<1>2. sent \in Nat /\ Len(files) \in Nat /\ 1 .. sent \subseteq Message
  BY FilesOfLines
<1>3. /\ drainer' \in [Drainer -> Draining]
      /\ drainer'[d].stage = "reply"
      /\ \A e \in Drainer : drainer'[e].batch = drainer[e].batch
      /\ \A e \in Drainer \ {d} : drainer'[e] = drainer[e]
  BY <1>1 DEF MailboxTypes, Draining
<1>4. \A m : ~Waiting(m)'
  BY <1>1 DEF Waiting
<1>5. MailboxTypes'
  <2>1. path' \in 0 .. Len(files)
    BY <1>1, <1>2 DEF NoFile
  <2>2. \A e \in Drainer : /\ drainer'[e].stage \in {"idle", "read", "reply"}
                           /\ drainer'[e].batch \subseteq Message
    BY <1>3 DEF Draining
  <2> QED
    BY <1>1, <1>3, <2>1, <2>2 DEF MailboxTypes, TypeOK
<1>6. PendingInv'
  BY <1>1, <1>3 DEF PendingInv, Pending, Fresh
<1>7. SentInv'
  BY <1>1, <1>3 DEF SentInv
<1>8. WindowInv'
  <2>1. \A s \in Sender : Pending(s) => sender[s].msg \in exposed
    BY <1>1 DEF WindowInv, InWindow
  <2> QED
    BY <1>1, <1>4, <2>1 DEF WindowInv, Pending
<1>9. LossInv'
  <2> SUFFICES ASSUME NEW m \in reported
               PROVE  \/ Replied(m)' \/ m \in received
                      \/ m \in exposed \/ m \in dropped \/ Glued(m)'
    BY <1>1 DEF LossInv
  <2>1. Glued(m) => Glued(m)'
    BY <1>1 DEF Glued
  <2>2. Replied(m) => Replied(m)'
    BY <1>1, <1>3 DEF Replied
  <2>3. Waiting(m) => Replied(m)' \/ m \in exposed
    <3>1. m \in Message
      BY <1>2 DEF MailboxTypes, TypeOK
    <3>2. Waiting(m) => m \in drainer[d].batch \/ m \in exposed
      BY <1>1, <3>1 DEF WindowInv, InWindow
    <3> QED
      BY <1>3, <3>2 DEF Replied
  <2> QED
    BY <2>1, <2>2, <2>3 DEF LossInv
<1>10. OnPathInv'
  BY <1>1 DEF OnPathInv
<1>11. CopyInv'
  BY <1>1, <1>3 DEF CopyInv
<1> QED
  BY <1>5, <1>6, <1>7, <1>8, <1>9, <1>10, <1>11

\* A drain is over: its answer arrived, or was lost, or it never had one.
LEMMA DrainEnds ==
    ASSUME MailboxInv, NEW d \in Drainer,
           drainer' = [drainer EXCEPT ![d] = Resting],
           \/ UNCHANGED <<received, repeated>>
           \/ /\ drainer[d].stage = "reply"
              /\ received' = received \union drainer[d].batch
              /\ repeated' = repeated \union (received \intersect drainer[d].batch),
           dropped' \in {dropped, dropped \union drainer[d].batch},
           drainer[d].stage = "reply" => drainer[d].batch \subseteq received' \union dropped',
           faults' \in 0 .. MaxFaults,
           UNCHANGED <<path, files, sender, sent, reported, exposed, contended>>
    PROVE  MailboxInv'
<1> USE DEF MailboxInv
<1>0. PICK batch : batch = drainer[d].batch
  OBVIOUS
<1>1. /\ sent \in Nat /\ 1 .. sent \subseteq Message
      /\ batch \subseteq 1 .. sent
      /\ received \subseteq received' /\ received' \subseteq received \union batch
      /\ received' \subseteq received \/ drainer[d].stage = "reply"
  BY <1>0, FilesOfLines DEF SentInv
<1>2. /\ drainer' \in [Drainer -> Draining]
      /\ drainer'[d] = Resting
      /\ \A e \in Drainer \ {d} : drainer'[e] = drainer[e]
      /\ \A e \in Drainer : drainer'[e].batch \subseteq drainer[e].batch
  BY DEF MailboxTypes, Draining, Resting
<1>3. \A m : Replied(m)' => Replied(m)
  BY <1>2 DEF Replied, Resting
<1>4. \A m : (Waiting(m)' <=> Waiting(m)) /\ (Glued(m)' <=> Glued(m))
  BY DEF Waiting, Glued
<1>5. MailboxTypes'
  <2>1. received' \subseteq 1 .. sent /\ dropped' \subseteq 1 .. sent
    BY <1>0, <1>1 DEF MailboxTypes, TypeOK
  <2>2. repeated' \subseteq received'
    BY <1>0 DEF MailboxTypes, TypeOK
  <2>3. \A e \in Drainer : /\ drainer'[e].stage \in {"idle", "read", "reply"}
                           /\ drainer'[e].batch \subseteq Message
    BY <1>2 DEF Draining
  <2> QED
    BY <1>2, <2>1, <2>2, <2>3 DEF MailboxTypes, TypeOK
<1>6. PendingInv'
  <2> SUFFICES ASSUME NEW s \in Sender, Pending(s)
               PROVE  /\ sender[s].msg \in 1 .. sent /\ sender[s].file \in 1 .. Len(files)
                      /\ Fresh(sender[s].msg)'
                      /\ \A t \in Sender \ {s} : sender[t].msg # sender[s].msg
    BY DEF PendingInv, Pending
  <2>1. Fresh(sender[s].msg)
    BY DEF PendingInv
  <2>2. Fresh(sender[s].msg)'
    BY <1>0, <1>1, <1>2, <2>1 DEF Fresh
  <2> QED
    BY <2>2 DEF PendingInv
<1>7. SentInv'
  BY <1>2 DEF SentInv, Resting
<1>8. WindowInv'
  BY <1>2, <1>4 DEF WindowInv, Pending, InWindow, Resting
<1>9. LossInv'
  <2> SUFFICES ASSUME NEW m \in reported
               PROVE  \/ Waiting(m) \/ Replied(m)' \/ m \in received'
                      \/ m \in exposed \/ m \in dropped' \/ Glued(m)
    BY <1>4 DEF LossInv
  <2>1. Replied(m) => Replied(m)' \/ m \in received' \/ m \in dropped'
    BY <1>2 DEF Replied
  <2> QED
    BY <1>1, <2>1 DEF LossInv
<1>10. OnPathInv'
  <2> SUFFICES ASSUME NEW m \in Message, path # NoFile, m \in Range(files[path])
               PROVE  m \notin received' /\ ~Replied(m)'
    BY DEF OnPathInv
  <2>1. m \notin received /\ ~Replied(m)
    BY DEF OnPathInv
  <2> QED
    BY <1>0, <1>1, <1>3, <2>1 DEF Replied
<1>11. CopyInv'
  <2>1. repeated' \subseteq contended
    BY DEF CopyInv
  <2>2. ASSUME NEW e \in Drainer, NEW m \in drainer'[e].batch
        PROVE  /\ m \in received' => m \in contended
               /\ \A g \in Drainer \ {e} : m \in drainer'[g].batch => m \in contended
    <3>1. e # d /\ m \in drainer[e].batch
      BY <1>2, <2>2 DEF Resting
    <3> QED
      BY <1>0, <1>1, <1>2, <3>1 DEF CopyInv
  <2> QED
    BY <2>1, <2>2 DEF CopyInv
<1> QED
  BY <1>5, <1>6, <1>7, <1>8, <1>9, <1>10, <1>11

\* A fault of the send around the append leaves the mailbox as it is.
LEMMA MailboxRests ==
    ASSUME MailboxInv, faults' \in 0 .. MaxFaults,
           UNCHANGED <<path, files, sender, drainer, sent, reported, exposed, contended,
                       received, repeated, dropped>>
    PROVE  MailboxInv'
<1> USE DEF MailboxInv
<1>1. MailboxTypes' /\ SentInv' /\ CopyInv'
  BY DEF MailboxTypes, TypeOK, SentInv, CopyInv
<1>2. PendingInv' /\ WindowInv'
  BY DEF PendingInv, Pending, Fresh, WindowInv, InWindow, Waiting
<1>3. LossInv' /\ OnPathInv'
  BY DEF LossInv, OnPathInv, Waiting, Replied, Glued
<1> QED
  BY <1>1, <1>2, <1>3

\* Every step of the mailbox keeps its invariant.
LEMMA MailboxStep == MailboxInv /\ [Next]_vars => MailboxInv'
<1> SUFFICES ASSUME MailboxInv, [Next]_vars PROVE MailboxInv'
  OBVIOUS
<1>0. /\ faults \in 0 .. MaxFaults
      /\ \A more : more = faults + 1 /\ faults < MaxFaults => more \in 0 .. MaxFaults
  BY MailboxAssumption DEF MailboxInv, MailboxTypes, TypeOK
<1>1. ASSUME NEW s \in Sender, OpenFile(s) PROVE MailboxInv'
  BY <1>1, OpenFileKeeps
<1>2. ASSUME NEW s \in Sender, WriteLine(s) PROVE MailboxInv'
  BY <1>0, <1>2, LineLands DEF WriteLine, Pending
<1>3. ASSUME NEW s \in Sender, WriteFails(s) PROVE MailboxInv'
  <2>1. faults' \in 0 .. MaxFaults
    BY <1>0, <1>3 DEF WriteFails
  <2>2. CASE UNCHANGED files
    BY <1>3, <2>1, <2>2, NothingLands DEF WriteFails
  <2>3. CASE ~UNCHANGED files
    <3>1. PICK line \in {Torn, sender[s].msg} :
              files' = [files EXCEPT ![sender[s].file] = Append(@, line)]
      BY <1>3, <2>3 DEF WriteFails
    <3>2. /\ Pending(s) /\ sender' = [sender EXCEPT ![s] = NoAppend]
          /\ UNCHANGED <<path, drainer, sent, reported, exposed, contended, received,
                         repeated, dropped>>
      BY <1>3 DEF WriteFails, Pending
    <3> QED
      BY <2>1, <3>1, <3>2, LineLands
  <2> QED
    BY <2>2, <2>3
<1>4. ASSUME NEW d \in Drainer, ReadFile(d) PROVE MailboxInv'
  BY <1>4, ReadFileKeeps
<1>5. ASSUME NEW d \in Drainer, UnlinkPath(d) PROVE MailboxInv'
  BY <1>5, UnlinkPathKeeps
<1>6. ASSUME NEW d \in Drainer, UnlinkFails(d) PROVE MailboxInv'
  BY <1>0, <1>6, DrainEnds DEF UnlinkFails
<1>7. ASSUME NEW d \in Drainer, ResponseArrives(d) PROVE MailboxInv'
  BY <1>0, <1>7, DrainEnds DEF ResponseArrives
<1>8. ASSUME NEW d \in Drainer, ResponseLost(d) PROVE MailboxInv'
  BY <1>0, <1>8, DrainEnds DEF ResponseLost
<1>9. CASE UNCHANGED vars
  BY <1>0, <1>9, MailboxRests DEF vars
<1> QED
  BY <1>1, <1>2, <1>3, <1>4, <1>5, <1>6, <1>7, <1>8, <1>9 DEF Next

\* The mailbox's invariant says where every reported message can have gone.
LEMMA MailboxConsequences ==
    MailboxInv => TypeOK /\ LossHasACause
BY DEF MailboxInv, MailboxTypes, LossInv, LossHasACause, Kept, InFlight, Replied

Send == [stage : {"idle", "valid", "append", "lookup", "push"}, content : Nat]

\* Each message is a content: the first message of it, and a second one carries
\* it only after a send of it did not return success.
ContentInv ==
    /\ content \in Seq(Nat) /\ Len(content) = sent
    /\ failed \subseteq broken /\ broken \subseteq 1 .. sent
    /\ \A m \in 1 .. sent : content[m] \in 1 .. sent
    /\ \A m, n \in 1 .. sent : m # n /\ content[m] = content[n] => content[m] \in broken

\* Where a send is: past validation, holding the open file of its own content,
\* or after the append of a message with its content returned.
AtSend(one, own, posted) ==
    /\ one.stage = "append" <=> own # NoAppend
    /\ own # NoAppend => content[own.msg] = one.content
    /\ one.stage \in {"append", "lookup", "push"} => one.content \in 1 .. sent
    /\ one.stage \in {"lookup", "push"} => \E m \in posted : content[m] = one.content

CourierInv ==
    /\ courier \in [Sender -> Send]
    /\ \A s \in Sender : AtSend(courier[s], sender[s], reported)

\* A request that was let through has not begun its drain.
AdmittedInv == \A d \in admitted : d \in Drainer /\ drainer[d] = Resting

\* What a revocation leaves: the requests it found, and pushes about messages
\* written by then.
CutOffInv ==
    revoked =>
        /\ LetThrough \subseteq underway
        /\ \A s \in Sender : courier[s].stage = "push" =>
            \E m \in reported \intersect earlier : content[m] = courier[s].content

\* The inductive invariant of the delivery.
DeliveryInv == MailboxInv /\ ContentInv /\ CourierInv /\ AdmittedInv /\ CutOffInv

\* Nothing is sent yet, and the device is paired.
LEMMA DeliveryInitially == DeliveryInit => DeliveryInv
<1> SUFFICES ASSUME DeliveryInit PROVE DeliveryInv
  OBVIOUS
<1>1. MailboxInv
  BY MailboxInitially DEF DeliveryInit
<1>2. sent = 0 /\ \A s \in Sender : sender[s] = NoAppend
  BY DEF DeliveryInit, Init
<1>3. ContentInv
  BY <1>2 DEF DeliveryInit, ContentInv
<1>4. CourierInv
  BY <1>2 DEF DeliveryInit, CourierInv, AtSend, NoSend, Send
<1>5. AdmittedInv /\ CutOffInv
  BY DEF DeliveryInit, AdmittedInv, CutOffInv
<1> QED
  BY <1>1, <1>3, <1>4, <1>5 DEF DeliveryInv

\* A send moves on with no new message: its own place decides.
LEMMA SendMoves ==
    ASSUME DeliveryInv, NEW s \in Sender, NEW one \in Send,
           courier' = [courier EXCEPT ![s] = one],
           UNCHANGED <<content, sent>>,
           failed' \subseteq broken', broken \subseteq broken', broken' \subseteq 1 .. sent,
           reported \subseteq reported',
           \A t \in Sender \ {s} : sender'[t] = sender[t],
           AtSend(one, sender'[s], reported')
    PROVE  ContentInv' /\ CourierInv'
<1> USE DEF DeliveryInv
<1>1. ContentInv'
  BY DEF ContentInv
<1>2. courier' \in [Sender -> Send] /\ courier'[s] = one
      /\ \A t \in Sender \ {s} : courier'[t] = courier[t]
  BY DEF CourierInv
<1>3. ASSUME NEW t \in Sender PROVE AtSend(courier[t], sender[t], reported)'
  <2>1. CASE t = s
    <3>1. AtSend(courier'[t], sender'[t], reported')
      BY <1>2, <2>1
    <3> QED
      BY <3>1 DEF AtSend
  <2>2. CASE t # s
    <3>1. AtSend(courier[t], sender[t], reported)
      BY DEF CourierInv
    <3>2. courier'[t] = courier[t] /\ sender'[t] = sender[t]
      BY <1>2, <2>2
    <3> QED
      BY <3>1, <3>2 DEF AtSend
  <2> QED
    BY <2>1, <2>2
<1> QED
  BY <1>1, <1>2, <1>3 DEF CourierInv

\* A step in which no send takes part.
LEMMA SendsRest ==
    ASSUME DeliveryInv, UNCHANGED <<courier, content, sent, failed, broken, sender, reported>>
    PROVE  ContentInv' /\ CourierInv'
BY DEF DeliveryInv, ContentInv, CourierInv, AtSend

\* A send moves, to a push only while the device is paired, and no drain does:
\* what it wrote or sends is no concern of a revocation before it.
LEMMA SendsCutOff ==
    ASSUME DeliveryInv, NEW s \in Sender, NEW one \in Send,
           courier' = [courier EXCEPT ![s] = one],
           revoked => one.stage # "push",
           \A m \in reported : content'[m] = content[m], reported \subseteq reported',
           UNCHANGED <<admitted, drainer, revoked, earlier, underway>>
    PROVE  CutOffInv'
<1>1. \A t \in Sender : courier'[t] = IF t = s THEN one ELSE courier[t]
  BY DEF DeliveryInv, CourierInv
<1>2. LetThrough' = LetThrough
  BY DEF LetThrough
<1> QED
  BY <1>1, <1>2 DEF DeliveryInv, CutOffInv

\* A drain moves and no send does: the request has been let through, and is
\* forgotten only when it is answered.
LEMMA DrainsCutOff ==
    ASSUME DeliveryInv, NEW d \in Drainer, d \in LetThrough,
           UNCHANGED <<courier, reported, content, revoked, earlier>>, admitted' \subseteq admitted,
           \A e \in Drainer \ {d} : drainer'[e] = drainer[e],
           \/ UNCHANGED underway
           \/ Answered(d) /\ d \notin admitted' /\ drainer'[d] = Resting
    PROVE  CutOffInv'
<1>1. LetThrough' \subseteq LetThrough
  BY DEF LetThrough
<1>2. d \notin admitted' /\ drainer'[d] = Resting => d \notin LetThrough'
  BY DEF LetThrough
<1>3. revoked => LetThrough \subseteq underway
  BY DEF DeliveryInv, CutOffInv
<1>4. revoked' => LetThrough' \subseteq underway'
  <2>1. CASE UNCHANGED underway
    BY <1>1, <1>3, <2>1
  <2>2. CASE Answered(d) /\ d \notin LetThrough'
    BY <1>1, <1>3, <2>2 DEF Answered
  <2> QED
    BY <1>2, <2>1, <2>2
<1> QED
  BY <1>4 DEF DeliveryInv, CutOffInv

\* What one send knows of itself.
LEMMA OneSend ==
    ASSUME DeliveryInv, NEW s \in Sender
    PROVE  /\ courier[s] \in Send /\ AtSend(courier[s], sender[s], reported)
           /\ sent \in Nat /\ reported \subseteq 1 .. sent
           /\ ContentInv /\ MailboxInv
BY FilesOfLines DEF DeliveryInv, CourierInv, MailboxInv, MailboxTypes, TypeOK

\* A target is validated only while the device is not revoked.
LEMMA ValidateKeeps ==
    ASSUME DeliveryInv, NEW s \in Sender, Validate(s)
    PROVE  DeliveryInv'
<1>1. PICK one : one = [courier[s] EXCEPT !.stage = "valid"]
  OBVIOUS
<1>2. one \in Send /\ one.stage = "valid" /\ sender[s] = NoAppend
  BY <1>1, OneSend DEF Validate, NoSend, Send, AtSend
<1>3. /\ courier' = [courier EXCEPT ![s] = one]
      /\ UNCHANGED <<vars, revoked, admitted, content, failed, broken, earlier, underway>>
  BY <1>1 DEF Validate
<1>4. MailboxInv'
  BY <1>3, OneSend, MailboxStep
<1>5. ContentInv' /\ CourierInv'
  <2>1. AtSend(one, sender'[s], reported')
    BY <1>2, <1>3 DEF AtSend, vars
  <2> QED
    BY <1>2, <1>3, <2>1, OneSend, SendMoves DEF vars, ContentInv
<1>6. AdmittedInv' /\ CutOffInv'
  BY <1>2, <1>3, SendsCutOff DEF DeliveryInv, AdmittedInv, vars
<1> QED
  BY <1>4, <1>5, <1>6 DEF DeliveryInv

\* An append begins: its content is new, or one whose last send failed.
LEMMA AppendBeginsKeeps ==
    ASSUME DeliveryInv, NEW s \in Sender, AppendBegins(s)
    PROVE  DeliveryInv'
<1>1. PICK c \in Contents :
          /\ courier' = [courier EXCEPT ![s] = [stage |-> "append", content |-> c]]
          /\ content' = Append(content, c)
          /\ failed' = failed \ {c}
  BY DEF AppendBegins
<1>2. /\ courier[s].stage \in {"idle", "valid"} /\ OpenFile(s)
      /\ UNCHANGED <<revoked, admitted, broken, earlier, underway>>
  BY DEF AppendBegins
<1>3. MailboxInv'
  BY <1>2, OneSend, OpenFileKeeps
<1>4. PICK f : sender' = [sender EXCEPT ![s] = [msg |-> sent + 1, file |-> f]]
  BY <1>2 DEF OpenFile
<1>5. /\ sent \in Nat /\ sent' = sent + 1 /\ UNCHANGED <<drainer, reported>>
      /\ sender'[s] = [msg |-> sent + 1, file |-> f]
      /\ \A t \in Sender \ {s} : sender'[t] = sender[t]
  BY <1>2, <1>4, OneSend DEF OpenFile, MailboxInv, MailboxTypes
<1>6. /\ content \in Seq(Nat) /\ Len(content) = sent
      /\ failed \subseteq broken /\ broken \subseteq 1 .. sent
      /\ \A m \in 1 .. sent : content[m] \in 1 .. sent
      /\ \A m, n \in 1 .. sent : m # n /\ content[m] = content[n] => content[m] \in broken
  BY OneSend DEF ContentInv
<1>7. /\ c \in 1 .. sent' /\ (c \in broken \/ c = sent + 1)
      /\ 1 .. sent \subseteq 1 .. sent' /\ sent + 1 \in 1 .. sent' /\ sent + 1 \notin 1 .. sent
      /\ \A m \in 1 .. sent' : m \in 1 .. sent \/ m = sent + 1
  BY <1>5, <1>6 DEF Contents
<1>8. /\ content' \in Seq(Nat) /\ Len(content') = sent'
      /\ \A m \in 1 .. sent : content'[m] = content[m]
      /\ content'[sent + 1] = c
  <2>1. c \in Nat
    BY <1>5, <1>7
  <2> QED
    BY <1>1, <1>5, <1>6, <2>1, AppendedSequence
<1>9. ContentInv'
  <2>1. \A m \in 1 .. sent' : content'[m] \in 1 .. sent'
    BY <1>6, <1>7, <1>8
  <2>2. ASSUME NEW m \in 1 .. sent', NEW n \in 1 .. sent', m # n, content'[m] = content'[n]
        PROVE  content'[m] \in broken
    <3>1. ASSUME NEW k \in 1 .. sent, content[k] = c PROVE c \in broken
      BY <1>6, <1>7, <3>1
    <3>2. CASE m \in 1 .. sent /\ n \in 1 .. sent
      BY <1>6, <1>8, <2>2, <3>2
    <3>3. CASE m \in 1 .. sent /\ n = sent + 1
      BY <1>8, <2>2, <3>1, <3>3
    <3>4. CASE m = sent + 1 /\ n \in 1 .. sent
      BY <1>8, <2>2, <3>1, <3>4
    <3> QED
      BY <1>7, <2>2, <3>2, <3>3, <3>4
  <2> QED
    BY <1>1, <1>2, <1>6, <1>7, <1>8, <2>1, <2>2 DEF ContentInv
<1>10. CourierInv'
  <2>1. [stage |-> "append", content |-> c] \in Send
    BY <1>5, <1>7 DEF Send
  <2>2. /\ courier' \in [Sender -> Send]
        /\ courier'[s] = [stage |-> "append", content |-> c]
        /\ \A t \in Sender \ {s} : courier'[t] = courier[t]
    BY <1>1, <2>1 DEF DeliveryInv, CourierInv
  <2>3. [msg |-> sent + 1, file |-> f] # NoAppend
    BY <1>5 DEF NoAppend
  <2>4. ASSUME NEW t \in Sender PROVE AtSend(courier[t], sender[t], reported)'
    <3>1. CASE t = s
      BY <1>5, <1>7, <1>8, <2>2, <2>3, <3>1 DEF AtSend
    <3>2. CASE t # s
      <4>1. AtSend(courier[t], sender[t], reported) /\ reported \subseteq 1 .. sent
        BY OneSend
      <4>2. sender[t] # NoAppend => sender[t].msg \in 1 .. sent
        BY DEF DeliveryInv, MailboxInv, PendingInv, Pending
      <4>3. courier'[t] = courier[t] /\ sender'[t] = sender[t]
        BY <1>5, <2>2, <3>2
      <4> QED
        BY <1>5, <1>7, <1>8, <4>1, <4>2, <4>3 DEF AtSend
    <3> QED
      BY <3>1, <3>2
  <2> QED
    BY <2>2, <2>4 DEF CourierInv
<1>11. AdmittedInv'
  BY <1>2, <1>5 DEF DeliveryInv, AdmittedInv
<1>12. CutOffInv'
  <2>1. PICK one : one = [stage |-> "append", content |-> c]
    OBVIOUS
  <2>2. one \in Send /\ one.stage = "append"
    BY <1>5, <1>7, <2>1 DEF Send
  <2>3. \A m \in reported : content'[m] = content[m]
    BY <1>8, OneSend
  <2> QED
    BY <1>1, <1>2, <1>5, <2>1, <2>2, <2>3, SendsCutOff
<1> QED
  BY <1>3, <1>9, <1>10, <1>11, <1>12 DEF DeliveryInv

\* A send moves on with the mailbox and the drains as they are.
LEMMA SendMovesAlone ==
    ASSUME DeliveryInv, NEW s \in Sender, NEW one \in Send, sender[s] = NoAppend,
           courier' = [courier EXCEPT ![s] = one],
           one.stage = "idle" \/ (one.stage = "push" /\ courier[s].stage = "lookup"
                                  /\ one.content = courier[s].content),
           revoked => one.stage = "idle",
           MailboxInv', UNCHANGED <<content, sent, drainer, sender, reported, revoked, admitted,
                                    earlier, underway>>,
           failed' \subseteq broken', broken \subseteq broken', broken' \subseteq 1 .. sent
    PROVE  DeliveryInv'
<1>1. ContentInv' /\ CourierInv'
  <2>1. AtSend(one, sender'[s], reported')
    BY OneSend DEF AtSend
  <2> QED
    BY <2>1, SendMoves
<1>2. AdmittedInv'
  BY DEF DeliveryInv, AdmittedInv
<1>3. CutOffInv'
  BY SendsCutOff
<1> QED
  BY <1>1, <1>2, <1>3 DEF DeliveryInv

\* The write of a send is over: it returned, or it raised.
LEMMA AppendEndsKeeps ==
    ASSUME DeliveryInv, NEW s \in Sender, AppendReturns(s) \/ AppendRaises(s)
    PROVE  DeliveryInv'
<1>1. /\ courier[s] \in Send /\ AtSend(courier[s], sender[s], reported)
      /\ sent \in Nat /\ reported \subseteq 1 .. sent
      /\ ContentInv /\ MailboxInv
  BY OneSend
<1>2. /\ sender[s] # NoAppend /\ sender' = [sender EXCEPT ![s] = NoAppend]
      /\ UNCHANGED <<drainer, sent, revoked, admitted, content, earlier, underway>>
      /\ WriteLine(s) \/ WriteFails(s)
  BY DEF AppendReturns, AppendRaises, WriteLine, WriteFails
<1>3. courier[s].stage = "append" /\ courier[s].content \in 1 .. sent
  BY <1>1, <1>2 DEF AtSend
<1>4. MailboxInv'
  BY <1>1, <1>2, MailboxStep DEF Next
<1>5. sender'[s] = NoAppend /\ \A t \in Sender \ {s} : sender'[t] = sender[t]
  BY <1>1, <1>2 DEF MailboxInv, MailboxTypes
<1>6. AdmittedInv'
  BY <1>2 DEF DeliveryInv, AdmittedInv
<1>7. CASE AppendReturns(s)
  <2>1. PICK one : one = [courier[s] EXCEPT !.stage = "lookup"]
    OBVIOUS
  <2>2. /\ one \in Send /\ one.stage = "lookup" /\ one.content = courier[s].content
    BY <1>1, <2>1 DEF Send
  <2>3. /\ courier' = [courier EXCEPT ![s] = one]
        /\ reported' = reported \union {sender[s].msg}
        /\ UNCHANGED <<failed, broken>>
    BY <1>7, <2>1 DEF AppendReturns, WriteLine
  <2>4. AtSend(one, sender'[s], reported')
    <3>1. content[sender[s].msg] = one.content
      BY <1>1, <1>2, <2>2 DEF AtSend
    <3>2. sender[s].msg \in reported'
      BY <2>3
    <3>3. \E m \in reported' : content[m] = one.content
      BY <3>1, <3>2
    <3>4. content' = content /\ sent' = sent
      BY <1>2
    <3> QED
      BY <1>3, <1>5, <2>2, <3>3 DEF AtSend
  <2>5. ContentInv' /\ CourierInv'
    BY <1>1, <1>2, <1>5, <2>2, <2>3, <2>4, SendMoves DEF ContentInv
  <2>6. CutOffInv'
    BY <1>2, <2>2, <2>3, SendsCutOff
  <2> QED
    BY <1>4, <1>6, <2>5, <2>6 DEF DeliveryInv
<1>8. CASE AppendRaises(s)
  <2>1. /\ courier' = [courier EXCEPT ![s] = NoSend]
        /\ failed' = failed \union {courier[s].content}
        /\ broken' = broken \union {courier[s].content}
        /\ reported' = reported
    BY <1>8 DEF AppendRaises, ReturnsError, Returns, WriteFails
  <2>2. NoSend \in Send /\ NoSend.stage = "idle"
    BY DEF NoSend, Send
  <2>3. AtSend(NoSend, sender'[s], reported')
    BY <1>5, <2>2 DEF AtSend
  <2>4. failed' \subseteq broken' /\ broken \subseteq broken' /\ broken' \subseteq 1 .. sent
    BY <1>1, <1>3, <2>1 DEF ContentInv
  <2>5. ContentInv' /\ CourierInv'
    BY <1>2, <1>5, <2>1, <2>2, <2>3, <2>4, SendMoves
  <2>6. CutOffInv'
    BY <1>2, <2>1, <2>2, SendsCutOff
  <2> QED
    BY <1>4, <1>6, <2>5, <2>6 DEF DeliveryInv
<1> QED
  BY <1>7, <1>8

\* The lookup of the push token, the push and a sender's death end a send, or
\* find a token while the device is paired.
LEMMA AfterAppendKeeps ==
    ASSUME DeliveryInv, NEW s \in Sender, LookUp(s) \/ Push(s) \/ SenderDies(s)
    PROVE  DeliveryInv'
<1>1. /\ courier[s] \in Send /\ AtSend(courier[s], sender[s], reported)
      /\ sent \in Nat /\ ContentInv /\ MailboxInv
  BY OneSend
<1>2. courier[s].stage \in {"lookup", "push"} /\ courier[s].content \in 1 .. sent
  BY <1>1 DEF LookUp, Push, SenderDies, AtSend
<1>3. sender[s] = NoAppend
  BY <1>1, <1>2 DEF AtSend
<1>4. NoSend \in Send /\ NoSend.stage = "idle"
  BY DEF NoSend, Send
<1>5. CASE /\ UNCHANGED vars /\ Returns(s)
           /\ UNCHANGED <<revoked, admitted, content, failed, broken, earlier, underway>>
  <2>1. MailboxInv'
    BY <1>1, <1>5, MailboxStep
  <2> QED
    BY <1>1, <1>3, <1>4, <1>5, <2>1, SendMovesAlone DEF Returns, vars, ContentInv
<1>6. CASE LookUp(s) /\ ~Returns(s)
  <2>1. PICK one : one = [courier[s] EXCEPT !.stage = "push"]
    OBVIOUS
  <2>2. /\ one \in Send /\ one.stage = "push" /\ one.content = courier[s].content
    BY <1>1, <2>1 DEF Send
  <2>3. /\ ~revoked /\ courier[s].stage = "lookup"
        /\ courier' = [courier EXCEPT ![s] = one]
        /\ UNCHANGED <<vars, revoked, admitted, content, failed, broken, earlier, underway>>
    BY <1>6, <2>1 DEF LookUp, MayPush
  <2>4. MailboxInv'
    BY <1>1, <2>3, MailboxStep
  <2> QED
    BY <1>1, <1>3, <2>2, <2>3, <2>4, SendMovesAlone DEF vars, ContentInv
<1>7. CASE SenderDies(s)
  <2>1. /\ Returns(s) /\ faults < MaxFaults /\ faults' = faults + 1
        /\ failed' = failed \union {courier[s].content}
        /\ broken' = broken \union {courier[s].content}
        /\ UNCHANGED <<path, files, sender, drainer, sent, reported, exposed, contended,
                       received, repeated, dropped, revoked, admitted, content, earlier,
                       underway>>
    BY <1>7 DEF SenderDies, ReturnsError
  <2>2. MailboxInv'
    <3>1. faults' \in 0 .. MaxFaults
      BY <1>1, <2>1, MailboxAssumption DEF MailboxInv, MailboxTypes, TypeOK
    <3> QED
      BY <1>1, <2>1, <3>1, MailboxRests
  <2>3. failed' \subseteq broken' /\ broken \subseteq broken' /\ broken' \subseteq 1 .. sent
    BY <1>1, <1>2, <2>1 DEF ContentInv
  <2> QED
    BY <1>3, <1>4, <2>1, <2>2, <2>3, SendMovesAlone DEF Returns
<1> QED
  BY <1>5, <1>6, <1>7 DEF LookUp, Push

\* A request that is let through, on a paired device.
LEMMA AuthenticateKeeps ==
    ASSUME DeliveryInv, NEW d \in Drainer, Authenticate(d)
    PROVE  DeliveryInv'
<1>1. /\ drainer[d] = Resting /\ ~revoked /\ admitted' = admitted \union {d}
      /\ UNCHANGED <<vars, revoked, courier, content, failed, broken, earlier, underway>>
  BY DEF Authenticate
<1>2. MailboxInv'
  BY <1>1, MailboxStep DEF DeliveryInv
<1>3. ContentInv' /\ CourierInv'
  BY <1>1, SendsRest DEF vars
<1>4. AdmittedInv' /\ CutOffInv'
  BY <1>1 DEF DeliveryInv, AdmittedInv, CutOffInv, vars
<1> QED
  BY <1>2, <1>3, <1>4 DEF DeliveryInv

\* An admitted request reads the mailbox, or answers that it is empty.
LEMMA DrainBeginsKeeps ==
    ASSUME DeliveryInv, NEW d \in Drainer, DrainBegins(d)
    PROVE  DeliveryInv'
<1>1. /\ d \in admitted /\ admitted' = admitted \ {d} /\ drainer[d] = Resting
      /\ UNCHANGED <<revoked, courier, content, failed, broken, earlier>>
  BY DEF DrainBegins, DeliveryInv, AdmittedInv
<1>2. /\ UNCHANGED <<sent, sender, reported>>
      /\ \A e \in Drainer \ {d} : drainer'[e] = drainer[e]
  BY DEF DrainBegins, ReadFile, vars, DeliveryInv, MailboxInv, MailboxTypes
<1>3. MailboxInv'
  <2>1. [Next]_vars
    BY DEF DrainBegins, Next
  <2> QED
    BY <2>1, MailboxStep DEF DeliveryInv
<1>4. ContentInv' /\ CourierInv'
  BY <1>1, <1>2, SendsRest
<1>5. AdmittedInv'
  BY <1>1, <1>2 DEF DeliveryInv, AdmittedInv
<1>6. CutOffInv'
  <2>1. d \in LetThrough
    BY <1>1 DEF LetThrough
  <2>2. UNCHANGED underway \/ (Answered(d) /\ d \notin admitted' /\ drainer'[d] = Resting)
    BY <1>1 DEF DrainBegins, vars
  <2> QED
    BY <1>1, <1>2, <2>1, <2>2, DrainsCutOff
<1> QED
  BY <1>3, <1>4, <1>5, <1>6 DEF DeliveryInv

\* A drain that has read goes on, and leaves when it is over.
LEMMA DrainGoesOnKeeps ==
    ASSUME DeliveryInv, NEW d \in Drainer, DrainGoesOn(d)
    PROVE  DeliveryInv'
<1>1. UNCHANGED <<revoked, courier, admitted, content, failed, broken, earlier>>
  BY DEF DrainGoesOn
<1>2. \/ UnlinkPath(d) /\ UNCHANGED underway
      \/ /\ UnlinkFails(d) \/ ResponseArrives(d) \/ ResponseLost(d)
         /\ drainer' = [drainer EXCEPT ![d] = Resting] /\ Answered(d)
  BY DEF DrainGoesOn, UnlinkFails, ResponseArrives, ResponseLost
<1>3. drainer[d] # Resting /\ d \notin admitted
  BY <1>2 DEF UnlinkPath, UnlinkFails, ResponseArrives, ResponseLost, Resting,
              DeliveryInv, AdmittedInv
<1>4. /\ UNCHANGED <<sent, sender, reported>>
      /\ \A e \in Drainer \ {d} : drainer'[e] = drainer[e]
  BY <1>2 DEF UnlinkPath, UnlinkFails, ResponseArrives, ResponseLost, DeliveryInv,
              MailboxInv, MailboxTypes
<1>5. MailboxInv'
  <2>1. [Next]_vars
    BY <1>2 DEF Next
  <2> QED
    BY <2>1, MailboxStep DEF DeliveryInv
<1>6. ContentInv' /\ CourierInv'
  BY <1>1, <1>4, SendsRest
<1>7. AdmittedInv'
  BY <1>1, <1>3, <1>4 DEF DeliveryInv, AdmittedInv
<1>8. CutOffInv'
  <2>1. d \in LetThrough
    BY <1>3 DEF LetThrough
  <2>2. UNCHANGED underway \/ (Answered(d) /\ d \notin admitted' /\ drainer'[d] = Resting)
    BY <1>1, <1>2, <1>3 DEF DeliveryInv, MailboxInv, MailboxTypes
  <2> QED
    BY <1>1, <1>4, <2>1, <2>2, DrainsCutOff
<1> QED
  BY <1>5, <1>6, <1>7, <1>8 DEF DeliveryInv

\* Every step of the delivery keeps its invariant.
LEMMA DeliveryStep == DeliveryInv /\ [DeliveryNext]_deliveryVars => DeliveryInv'
<1> SUFFICES ASSUME DeliveryInv, [DeliveryNext]_deliveryVars PROVE DeliveryInv'
  OBVIOUS
<1>1. ASSUME NEW s \in Sender, Validate(s) PROVE DeliveryInv'
  BY <1>1, ValidateKeeps
<1>2. ASSUME NEW s \in Sender, AppendBegins(s) PROVE DeliveryInv'
  BY <1>2, AppendBeginsKeeps
<1>3. ASSUME NEW s \in Sender, SendStep(s) PROVE DeliveryInv'
  BY <1>3, AppendEndsKeeps, AfterAppendKeeps DEF SendStep
<1>4. ASSUME NEW d \in Drainer, Authenticate(d) PROVE DeliveryInv'
  BY <1>4, AuthenticateKeeps
<1>5. ASSUME NEW d \in Drainer, DrainBegins(d) PROVE DeliveryInv'
  BY <1>5, DrainBeginsKeeps
<1>6. ASSUME NEW d \in Drainer, DrainGoesOn(d) PROVE DeliveryInv'
  BY <1>6, DrainGoesOnKeeps
<1>7. CASE RevokeDevice
  <2>1. UNCHANGED <<vars, courier, admitted, content, failed, broken>>
    BY <1>7 DEF RevokeDevice
  <2>2. MailboxInv'
    BY <2>1, MailboxStep DEF DeliveryInv
  <2>3. ContentInv' /\ CourierInv'
    BY <2>1, SendsRest DEF vars
  <2>4. AdmittedInv'
    BY <2>1 DEF DeliveryInv, AdmittedInv, vars
  <2>5. LetThrough' = LetThrough /\ underway' = LetThrough
    BY <1>7, <2>1 DEF RevokeDevice, LetThrough, vars
  <2>6. ASSUME NEW s \in Sender, courier[s].stage = "push"
        PROVE  \E m \in reported \intersect earlier' : content[m] = courier[s].content
    <3>1. PICK m \in reported : content[m] = courier[s].content
      BY <2>6, OneSend DEF AtSend
    <3>2. m \in 1 .. sent
      BY OneSend
    <3>3. m \notin Unwritten
      BY <3>1 DEF Unwritten, DeliveryInv, MailboxInv, PendingInv, Pending
    <3> QED
      BY <1>7, <3>1, <3>2, <3>3 DEF RevokeDevice
  <2>7. CutOffInv'
    BY <2>1, <2>5, <2>6 DEF CutOffInv, vars
  <2> QED
    BY <2>2, <2>3, <2>4, <2>7 DEF DeliveryInv
<1>8. CASE UNCHANGED deliveryVars
  <2>1. UNCHANGED <<vars, revoked, courier, admitted, content, failed, broken, earlier, underway>>
    BY <1>8 DEF deliveryVars
  <2>2. MailboxInv'
    BY <2>1, MailboxStep DEF DeliveryInv
  <2>3. ContentInv' /\ CourierInv'
    BY <2>1, SendsRest DEF vars
  <2>4. AdmittedInv' /\ CutOffInv'
    BY <2>1 DEF DeliveryInv, AdmittedInv, CutOffInv, LetThrough, vars
  <2> QED
    BY <2>2, <2>3, <2>4 DEF DeliveryInv
<1> QED
  BY <1>1, <1>2, <1>3, <1>4, <1>5, <1>6, <1>7, <1>8 DEF DeliveryNext

\* The invariants are true in every reachable state, for any number of senders,
\* requests, messages and faults.
THEOREM DeliveryInvariant == DeliverySpec => []DeliveryInv
<1>1. DeliveryInit => DeliveryInv
  BY DeliveryInitially
<1>2. DeliveryInv /\ [DeliveryNext]_deliveryVars => DeliveryInv'
  BY DeliveryStep
<1> QED
  BY <1>1, <1>2, PTL DEF DeliverySpec

\* Every variable of the mailbox keeps its type.
THEOREM MailboxTypesKept == DeliverySpec => []TypeOK
<1>1. DeliveryInv => TypeOK
  BY MailboxConsequences DEF DeliveryInv
<1> QED
  BY <1>1, DeliveryInvariant, PTL

\* A reported message is lost only to a drain its append overlapped, to a lost
\* response or to the torn line before it (append_message, drain_messages).
THEOREM LossIsExplained == DeliverySpec => []LossHasACause
<1>1. DeliveryInv => LossHasACause
  BY MailboxConsequences DEF DeliveryInv
<1> QED
  BY <1>1, DeliveryInvariant, PTL

\* Mail written after the revocation is not announced, and leaves the mailbox
\* only for a request let through before it (send, get_push_token, verify_session).
THEOREM RevocationCutsOff == DeliverySpec => []LateMailStaysUnread
<1>1. DeliveryInv => LateMailStaysUnread
  <2> SUFFICES ASSUME DeliveryInv, revoked, NEW d \in Drainer, d \notin underway
               PROVE  drainer[d].batch \subseteq earlier
    BY DEF DeliveryInv, CutOffInv, LateMailStaysUnread
  <2>1. d \notin LetThrough
    BY DEF DeliveryInv, CutOffInv
  <2>2. drainer[d].batch = {}
    BY <2>1 DEF LetThrough, Resting
  <2> QED
    BY <2>2
<1> QED
  BY <1>1, DeliveryInvariant, PTL

\* What a push announces is in the mailbox or on the phone, if no named cause
\* lost it: MobileAdapter.send pushes after the append returned.
THEOREM PushesAnnounceMail == DeliverySpec => []AnnouncedMailWaits
<1>1. DeliveryInv => AnnouncedMailWaits
  <2> SUFFICES ASSUME DeliveryInv, NEW s \in Sender, courier[s].stage = "push"
               PROVE  \E m \in reported :
                          /\ content[m] = courier[s].content
                          /\ Kept(m) \/ m \in exposed \/ m \in dropped \/ Glued(m)
    BY DEF AnnouncedMailWaits
  <2>1. PICK m \in reported : content[m] = courier[s].content
    BY DEF DeliveryInv, CourierInv, AtSend
  <2>2. Kept(m) \/ m \in exposed \/ m \in dropped \/ Glued(m)
    BY MailboxConsequences DEF DeliveryInv, LossHasACause
  <2> QED
    BY <2>1, <2>2
<1> QED
  BY <1>1, DeliveryInvariant, PTL

\* The phone gets a content twice only if two drains were between read and
\* unlink at once, or a send of it failed and the host sent it again.
THEOREM CopiesAreExplained == DeliverySpec => []CopiesHaveACause
<1>1. DeliveryInv => CopiesHaveACause
  <2> SUFFICES ASSUME DeliveryInv PROVE CopiesHaveACause
    OBVIOUS
  <2>1. received \subseteq 1 .. sent /\ repeated \subseteq contended
    BY DEF DeliveryInv, MailboxInv, MailboxTypes, TypeOK, CopyInv
  <2> QED
    BY <2>1 DEF CopiesHaveACause, DeliveryInv, ContentInv
<1> QED
  BY <1>1, DeliveryInvariant, PTL

=============================================================================
