--------------------------- MODULE Peering_proofs ---------------------------
(***************************************************************************)
(* Proofs about the peering, for any number of bindings, messages, starts, *)
(* stops, breaks and connection attempts.                                  *)
(***************************************************************************)
EXTENDS Peering, SequenceLemmas, FiniteSetTheorems

-----------------------------------------------------------------------------
(* The types *)

(* What an entry of the mailbox is. *)
LEMMA MailEntryIs ==
  ASSUME NEW e \in MailEntry
  PROVE  /\ e = Entry(e.op, e.arg)
         /\ e.op \in {"bind", "unbind"} => e.arg \in Keys
         /\ e.op = "publish" => e.arg \in 1 .. MaxForwards
         /\ e.op \in {"connection_open_ok", "channel_open_ok"} => e.arg \in Threads
         /\ e.op \in {"start", "stop", "bind", "unbind", "publish", "connection_open_ok",
                      "channel_open_ok"}
  BY DEF MailEntry, Entry

(* What an entry of an outbox is. *)
LEMMA OutEntryIs ==
  ASSUME NEW e \in OutEntry
  PROVE  /\ e = Entry(e.op, e.arg)
         /\ e.op \in {"bind", "unbind"} => e.arg \in Keys
         /\ e.op = "publish" => e.arg \in 1 .. MaxForwards
         /\ e.op \in {"channel_open", "declare", "close"} => e.arg = NoThread
         /\ e.op \in {"channel_open", "declare", "close", "bind", "unbind", "publish"}
  BY DEF OutEntry, Entry

(* The entries that are made. *)
LEMMA EntriesMade ==
  /\ \A o \in {"start", "stop"} : Entry(o, NoThread) \in MailEntry
  /\ \A o \in {"bind", "unbind"}, k \in Keys : Entry(o, k) \in MailEntry \cap OutEntry
  /\ \A c \in 1 .. MaxForwards : Entry("publish", c) \in MailEntry
  /\ \A c \in 1 .. MaxForwards : Entry("publish", c) \in OutEntry
  /\ \A o \in {"connection_open_ok", "channel_open_ok"}, n \in Threads : Entry(o, n) \in MailEntry
  /\ \A o \in {"channel_open", "declare", "close"} : Entry(o, NoThread) \in OutEntry
  /\ \A o, a : Entry(o, a).op = o /\ Entry(o, a).arg = a
<1>1. \A o \in {"start", "stop"} : Entry(o, NoThread) \in MailEntry
  BY DEF MailEntry
<1>2. \A o \in {"bind", "unbind"}, k \in Keys : Entry(o, k) \in MailEntry \cap OutEntry
  BY DEF MailEntry, OutEntry
<1>3. \A c \in 1 .. MaxForwards : Entry("publish", c) \in MailEntry
  BY DEF MailEntry
<1>7. \A c \in 1 .. MaxForwards : Entry("publish", c) \in OutEntry
  BY DEF OutEntry
<1>4. \A o \in {"connection_open_ok", "channel_open_ok"}, n \in Threads :
         Entry(o, n) \in MailEntry
  BY DEF MailEntry
<1>5. \A o \in {"channel_open", "declare", "close"} : Entry(o, NoThread) \in OutEntry
  BY DEF OutEntry
<1>6. \A o, a : Entry(o, a).op = o /\ Entry(o, a).arg = a
  BY DEF Entry
<1> QED BY <1>1, <1>2, <1>3, <1>4, <1>5, <1>6, <1>7

(* The numbers published in a sequence of entries. *)
LEMMA PublishedIs ==
  ASSUME NEW S, NEW s \in Seq(S)
  PROVE  \A c : c \in Published(s) <=> \E i \in 1 .. Len(s) : s[i].op = "publish" /\ s[i].arg = c
<1>1. DOMAIN s = 1 .. Len(s)
  OBVIOUS
<1> QED BY <1>1 DEF Published

(* The numbers published in an outbox are those of messages. *)
LEMMA PublishedType ==
  ASSUME NEW s \in Seq(OutEntry)
  PROVE  Published(s) \subseteq 1 .. MaxForwards
<1> SUFFICES ASSUME NEW c \in Published(s) PROVE c \in 1 .. MaxForwards
  OBVIOUS
<1>1. PICK i \in 1 .. Len(s) : s[i].op = "publish" /\ s[i].arg = c
  BY PublishedIs
<1>2. s[i] \in OutEntry
  OBVIOUS
<1> QED BY <1>1, <1>2, OutEntryIs

(* The parts of what is replayed. *)
ReplayBinds == [i \in DOMAIN bindings |-> Entry("bind", bindings[i])]
ReplayMessages == [i \in DOMAIN messages |-> Entry("publish", messages[i])]

(* What is replayed, by its indices. *)
LEMMA ReplayIs ==
  ASSUME TypeOK
  PROVE  /\ Replay \in Seq(OutEntry) /\ Len(Replay) = 1 + Len(bindings) + Len(messages)
         /\ Replay[1] = Entry("declare", NoThread)
         /\ \A i \in 1 .. Len(bindings) : Replay[1 + i] = Entry("bind", bindings[i])
         /\ \A i \in 1 .. Len(messages) :
               Replay[1 + Len(bindings) + i] = Entry("publish", messages[i])
<1> DEFINE d == <<Entry("declare", NoThread)>>
           b == ReplayBinds
           p == ReplayMessages
           q == d \o b
<1>1. bindings \in Seq(Keys) /\ messages \in Seq(1 .. MaxForwards)
  BY DEF TypeOK
<1>2. d \in Seq(OutEntry) /\ Len(d) = 1 /\ d[1] = Entry("declare", NoThread)
  BY EntriesMade
<1>3. /\ b \in Seq(OutEntry) /\ Len(b) = Len(bindings)
      /\ \A i \in 1 .. Len(bindings) : b[i] = Entry("bind", bindings[i])
  <2>1. \A i \in 1 .. Len(bindings) : Entry("bind", bindings[i]) \in OutEntry
    BY <1>1, EntriesMade
  <2>2. b = [i \in 1 .. Len(bindings) |-> Entry("bind", bindings[i])]
    BY <1>1 DEF ReplayBinds
  <2> QED BY <1>1, <2>1, <2>2
<1>4. /\ p \in Seq(OutEntry) /\ Len(p) = Len(messages)
      /\ \A i \in 1 .. Len(messages) : p[i] = Entry("publish", messages[i])
  <2>1. ASSUME NEW i \in 1 .. Len(messages) PROVE Entry("publish", messages[i]) \in OutEntry
    <3>1. messages[i] \in 1 .. MaxForwards
      BY <1>1, ElementIs
    <3> QED BY <3>1, EntriesMade
  <2>2. p = [i \in 1 .. Len(messages) |-> Entry("publish", messages[i])]
    BY <1>1 DEF ReplayMessages
  <2> QED BY <1>1, <2>1, <2>2
<1>5. Replay = q \o p
  BY DEF Replay, ReplayBinds, ReplayMessages
<1> HIDE DEF d, b, p
<1>6. /\ q \in Seq(OutEntry) /\ Len(q) = 1 + Len(bindings) /\ q[1] = Entry("declare", NoThread)
      /\ \A i \in 1 .. Len(bindings) : q[1 + i] = Entry("bind", bindings[i])
  <2>1. /\ q \in Seq(OutEntry) /\ Len(q) = Len(d) + Len(b)
        /\ \A i \in 1 .. Len(d) : q[i] = d[i]
        /\ \A i \in (Len(d) + 1) .. (Len(d) + Len(b)) : q[i] = b[i - Len(d)]
    <3>1. d \in Seq(OutEntry) /\ b \in Seq(OutEntry)
      BY <1>2, <1>3
    <3> QED BY <3>1, ConcatIs
  <2> HIDE DEF q
  <2>2. q[1] = Entry("declare", NoThread) /\ Len(q) = 1 + Len(bindings)
    BY <1>1, <1>2, <1>3, <2>1
  <2>3. ASSUME NEW i \in 1 .. Len(bindings) PROVE q[1 + i] = Entry("bind", bindings[i])
    <3>1. /\ 1 + i \in (Len(d) + 1) .. (Len(d) + Len(b)) /\ (1 + i) - Len(d) = i
      BY <1>1, <1>2, <1>3
    <3> QED BY <1>3, <2>1, <3>1
  <2> QED BY <2>1, <2>2, <2>3
<1> HIDE DEF q
<1>7. /\ q \o p \in Seq(OutEntry) /\ Len(q \o p) = Len(q) + Len(p)
      /\ \A i \in 1 .. Len(q) : (q \o p)[i] = q[i]
      /\ \A i \in (Len(q) + 1) .. (Len(q) + Len(p)) : (q \o p)[i] = p[i - Len(q)]
  <2>1. p \in Seq(OutEntry) /\ q \in Seq(OutEntry)
    BY <1>4, <1>6
  <2> QED BY <2>1, ConcatIs
<1>8. PICK r : r = q \o p
  OBVIOUS
<1>9. r[1] = Entry("declare", NoThread) /\ Len(r) = 1 + Len(bindings) + Len(messages)
  BY <1>1, <1>4, <1>6, <1>7, <1>8
<1>10. ASSUME NEW i \in 1 .. Len(bindings) PROVE r[1 + i] = Entry("bind", bindings[i])
  <2>1. 1 + i \in 1 .. Len(q)
    BY <1>1, <1>6
  <2> QED BY <1>6, <1>7, <1>8, <2>1
<1>11. ASSUME NEW i \in 1 .. Len(messages)
       PROVE  r[1 + Len(bindings) + i] = Entry("publish", messages[i])
  <2>1. /\ 1 + Len(bindings) + i \in (Len(q) + 1) .. (Len(q) + Len(p))
        /\ (1 + Len(bindings) + i) - Len(q) = i
    BY <1>1, <1>4, <1>6
  <2> QED BY <1>4, <1>7, <1>8, <2>1
<1> QED BY <1>5, <1>7, <1>8, <1>9, <1>10, <1>11

(* A push, to a thread that takes it and to one that does not. *)
LEMMA PushIs ==
  ASSUME TypeOK, NEW es \in Seq(OutEntry), NEW n \in Threads \cup {NoThread}, Push(n, es)
  PROVE  /\ outbox' \in [Threads -> Seq(OutEntry)] /\ lost' \subseteq 1 .. MaxForwards
         /\ \A m \in Threads : m # n => outbox'[m] = outbox[m]
         /\ n = NoThread \/ phase[n] = "zombie"
               => outbox' = outbox /\ lost' = lost \cup Published(es)
         /\ ~(n = NoThread \/ phase[n] = "zombie")
               => n \in Threads /\ outbox'[n] = outbox[n] \o es /\ lost' = lost
<1>1. outbox \in [Threads -> Seq(OutEntry)] /\ lost \subseteq 1 .. MaxForwards
  BY DEF TypeOK
<1>2. CASE n = NoThread \/ phase[n] = "zombie"
  <2>1. lost' = lost \cup Published(es) /\ outbox' = outbox
    BY <1>2 DEF Push
  <2> QED BY <1>1, <1>2, <2>1, PublishedType
<1>3. CASE ~(n = NoThread \/ phase[n] = "zombie")
  <2>1. outbox' = [outbox EXCEPT ![n] = @ \o es] /\ lost' = lost /\ n \in Threads
    BY <1>3 DEF Push
  <2>2. outbox[n] \o es \in Seq(OutEntry)
    BY <1>1, <2>1, ConcatIs
  <2> QED BY <1>1, <1>3, <2>1, <2>2
<1> QED BY <1>2, <1>3

(* The first method of the mailbox is taken. *)
LEMMA TakeIs ==
  ASSUME TypeOK, NEW o, Take(o)
  PROVE  /\ mailbox # <<>> /\ Head(mailbox) \in MailEntry /\ Head(mailbox).op = o
         /\ mailbox' = Tail(mailbox) /\ mailbox' \in Seq(MailEntry)
  BY DEF Take, TypeOK

(* The first entry of an outbox is sent. *)
LEMMA SentIs ==
  ASSUME TypeOK, NEW n \in Threads, Sent(n), outbox[n] # <<>>
  PROVE  /\ Head(outbox[n]) \in OutEntry /\ outbox' \in [Threads -> Seq(OutEntry)]
         /\ outbox'[n] = Tail(outbox[n])
         /\ \A m \in Threads : m # n => outbox'[m] = outbox[m]
<1>1. outbox \in [Threads -> Seq(OutEntry)]
  BY DEF TypeOK
<1>2. outbox' = [outbox EXCEPT ![n] = Tail(outbox[n])]
  BY DEF Sent
<1>3. outbox[n] \in Seq(OutEntry)
  BY <1>1
<1>4. Head(outbox[n]) \in OutEntry /\ Tail(outbox[n]) \in Seq(OutEntry)
  BY <1>3
<1> QED BY <1>1, <1>2, <1>4

(* What a post changes. *)
LEMMA PostIs ==
  ASSUME TypeOK, NEW o, NEW a, NEW c \in Call, Entry(o, a) \in MailEntry, Post(o, a), Called(c)
  PROVE  /\ mailbox' = Append(mailbox, Entry(o, a)) /\ mailbox' \in Seq(MailEntry)
         /\ calls' \in [Call -> Nat] /\ calls'[c] = calls[c] + 1
         /\ \A d \in Call : d # c => calls'[d] = calls[d]
<1>1. mailbox \in Seq(MailEntry) /\ calls \in [Call -> Nat]
  BY DEF TypeOK
<1>2. mailbox' = Append(mailbox, Entry(o, a)) /\ calls' = [calls EXCEPT ![c] = calls[c] + 1]
  BY DEF Post, Called
<1> QED BY <1>1, <1>2

(* The end of an agent thread. *)
LEMMA EndsIs ==
  ASSUME TypeOK, NEW n \in Threads, Ends(n)
  PROVE  /\ phase' \in [Threads -> Phase] /\ phase'[n] = "zombie"
         /\ outbox' \in [Threads -> Seq(OutEntry)] /\ outbox'[n] = <<>>
         /\ declared' \in [Threads -> BOOLEAN] /\ remote' \in [Threads -> SUBSET Keys]
         /\ lost' = lost \cup Published(outbox[n]) /\ lost' \subseteq 1 .. MaxForwards
         /\ \A m \in Threads : m # n => /\ phase'[m] = phase[m] /\ outbox'[m] = outbox[m]
                                        /\ declared'[m] = declared[m] /\ remote'[m] = remote[m]
<1>1. /\ phase \in [Threads -> Phase] /\ outbox \in [Threads -> Seq(OutEntry)]
      /\ declared \in [Threads -> BOOLEAN] /\ remote \in [Threads -> SUBSET Keys]
      /\ lost \subseteq 1 .. MaxForwards
  BY DEF TypeOK
<1>2. Published(outbox[n]) \subseteq 1 .. MaxForwards
  BY <1>1, PublishedType
<1>3. phase' = [phase EXCEPT ![n] = "zombie"] /\ outbox' = [outbox EXCEPT ![n] = <<>>]
  BY DEF Ends
<1>4. declared' = [declared EXCEPT ![n] = FALSE] /\ remote' = [remote EXCEPT ![n] = {}]
  BY DEF Ends
<1>5. "zombie" \in Phase /\ <<>> \in Seq(OutEntry)
  BY DEF Phase
<1>6. /\ phase' \in [Threads -> Phase] /\ phase'[n] = "zombie"
      /\ \A m \in Threads : m # n => phase'[m] = phase[m]
  BY <1>1, <1>3, <1>5
<1>7. /\ outbox' \in [Threads -> Seq(OutEntry)] /\ outbox'[n] = <<>>
      /\ \A m \in Threads : m # n => outbox'[m] = outbox[m]
  BY <1>1, <1>3, <1>5
<1>8. /\ declared' \in [Threads -> BOOLEAN]
      /\ \A m \in Threads : m # n => declared'[m] = declared[m]
  BY <1>1, <1>4
<1>9. /\ remote' \in [Threads -> SUBSET Keys]
      /\ \A m \in Threads : m # n => remote'[m] = remote[m]
  BY <1>1, <1>4
<1>10. lost' = lost \cup Published(outbox[n]) /\ lost' \subseteq 1 .. MaxForwards
  BY <1>1, <1>2 DEF Ends
<1> QED BY <1>6, <1>7, <1>8, <1>9, <1>10

(* An agent thread ends, or the remote server notices that it did. *)
Quits(n) == AgentCloses(n) \/ Break(n) \/ RemoteEnds(n)

(* What is on its way through an agent thread that ends stays there, or is dropped. *)
LEMMA QuitIs ==
  ASSUME TypeOK, NEW n \in Threads, Quits(n)
  PROVE  /\ phase' \in [Threads -> Phase] /\ phase'[n] = "zombie" /\ phase[n] # "none"
         /\ outbox' \in [Threads -> Seq(OutEntry)]
         /\ declared' \in [Threads -> BOOLEAN] /\ remote' \in [Threads -> SUBSET Keys]
         /\ lost' \subseteq 1 .. MaxForwards
         /\ \/ outbox' = outbox /\ lost' = lost
            \/ outbox'[n] = <<>> /\ lost' = lost \cup Published(outbox[n])
         /\ \A m \in Threads : m # n => /\ phase'[m] = phase[m] /\ outbox'[m] = outbox[m]
                                        /\ declared'[m] = declared[m] /\ remote'[m] = remote[m]
         /\ UNCHANGED <<peering, received, mailbox, stale, asked>>
         /\ calls' \in [Call -> Nat] /\ calls["break"] <= calls'["break"]
         /\ \A c \in Call : c # "break" => calls'[c] = calls[c]
<1>1. phase[n] # "none"
  BY DEF Quits, AgentCloses, Break, RemoteEnds, Alive
<1>2. /\ calls' \in [Call -> Nat] /\ calls["break"] <= calls'["break"]
      /\ \A c \in Call : c # "break" => calls'[c] = calls[c]
  <2>1. calls \in [Call -> Nat] /\ "break" \in Call
    BY DEF TypeOK, Call
  <2>2. calls' = calls \/ calls' = [calls EXCEPT !["break"] = calls["break"] + 1]
    BY DEF Quits, AgentCloses, Break, RemoteEnds, Called
  <2> QED BY <2>1, <2>2
<1>3. UNCHANGED <<peering, received, mailbox, stale, asked>>
  BY DEF Quits, AgentCloses, Break, RemoteEnds
<1>4. CASE Ends(n)
  BY <1>1, <1>2, <1>3, <1>4, EndsIs
<1>5. CASE ~Ends(n)
  <2>1. phase' = [phase EXCEPT ![n] = "zombie"] /\ UNCHANGED <<outbox, declared, remote, lost>>
    BY <1>5 DEF Quits, AgentCloses, Break, RemoteEnds
  <2>2. /\ phase \in [Threads -> Phase] /\ outbox \in [Threads -> Seq(OutEntry)]
        /\ declared \in [Threads -> BOOLEAN] /\ remote \in [Threads -> SUBSET Keys]
        /\ lost \subseteq 1 .. MaxForwards /\ "zombie" \in Phase
    BY DEF TypeOK, Phase
  <2> QED BY <1>1, <1>2, <1>3, <2>1, <2>2
<1> QED BY <1>4, <1>5

(* The steps of the caller keep the types. *)
LEMMA TypeCaller == TypeOK /\ Caller => TypeOK'
<1> SUFFICES ASSUME TypeOK, Caller PROVE TypeOK'
  OBVIOUS
<1>0. Call = {"start", "stop", "bind", "unbind", "forward", "break"}
  BY DEF Call
<1>1. CASE PostStart \/ PostStop
  <2>1. /\ mailbox' \in Seq(MailEntry) /\ calls' \in [Call -> Nat]
    <3>1. PICK o \in {"start", "stop"} : Post(o, NoThread) /\ Called(o)
      BY <1>1 DEF PostStart, PostStop
    <3>2. Entry(o, NoThread) \in MailEntry /\ o \in Call
      BY <1>0, EntriesMade
    <3> QED BY <3>1, <3>2, PostIs
  <2> QED BY <1>1, <2>1 DEF PostStart, PostStop, peering, agents, TypeOK
<1>2. CASE PostForward
  <2>1. calls["forward"] \in Nat /\ calls["forward"] < MaxForwards
    BY <1>0, <1>2 DEF PostForward, TypeOK
  <2>2. calls["forward"] + 1 \in 1 .. MaxForwards
    BY <2>1, PeeringAssumption
  <2>3. Entry("publish", calls["forward"] + 1) \in MailEntry
    BY <2>2, EntriesMade
  <2>4. mailbox' \in Seq(MailEntry) /\ calls' \in [Call -> Nat]
    BY <1>0, <1>2, <2>3, PostIs DEF PostForward
  <2> QED BY <1>2, <2>4 DEF PostForward, peering, agents, TypeOK
<1>3. ASSUME NEW k \in Keys, PostBind(k) \/ PostUnbind(k) PROVE TypeOK'
  <2>1. /\ mailbox' \in Seq(MailEntry) /\ calls' \in [Call -> Nat]
    <3>1. PICK o \in {"bind", "unbind"} : Post(o, k) /\ Called(o)
      BY <1>3 DEF PostBind, PostUnbind
    <3>2. Entry(o, k) \in MailEntry /\ o \in Call
      BY <1>0, EntriesMade
    <3> QED BY <3>1, <3>2, PostIs
  <2>2. asked' \subseteq Keys
    BY <1>3 DEF PostBind, PostUnbind, TypeOK
  <2> QED BY <1>3, <2>1, <2>2 DEF PostBind, PostUnbind, peering, agents, TypeOK
<1> QED BY <1>1, <1>2, <1>3 DEF Caller

(* Whether a binding is known. *)
LEMMA KnownIs == TypeOK => \A k : Known(k) <=> k \in ToSet(bindings)
  BY DEF Known, Contains, TypeOK, ToSet

(* The steps of the peering keep the types. *)
LEMMA TypeHandle == TypeOK /\ Handle => TypeOK'
<1> SUFFICES ASSUME TypeOK, Handle PROVE TypeOK'
  OBVIOUS
<1>0. thread \in Threads \cup {NoThread} /\ bindings \in Seq(Keys) /\ IsInjective(bindings)
  BY DEF TypeOK
<1>1. CASE HandleStart \/ HandleStop
  <2>1. mailbox' \in Seq(MailEntry)
    BY <1>1, TakeIs DEF HandleStart, HandleStop
  <2> QED BY <1>1, <2>1 DEF HandleStart, HandleStop, agents, TypeOK
<1>2. CASE HandleBind
  <2>0. mailbox' \in Seq(MailEntry) /\ Head(mailbox) \in MailEntry /\ Head(mailbox).op = "bind"
    BY <1>2, TakeIs DEF HandleBind
  <2>1. PICK k \in Keys : k = Head(mailbox).arg
    BY <2>0, MailEntryIs
  <2>2. outbox' \in [Threads -> Seq(OutEntry)] /\ lost' \subseteq 1 .. MaxForwards
    <3>1. CASE Push(thread, <<Entry("bind", k)>>)
      <4>1. <<Entry("bind", k)>> \in Seq(OutEntry)
        BY EntriesMade
      <4> QED BY <1>0, <3>1, <4>1, PushIs
    <3>2. CASE UNCHANGED <<outbox, lost>>
      BY <3>2 DEF TypeOK
    <3> QED BY <1>2, <2>1, <3>1, <3>2 DEF HandleBind, PushBind
  <2>3. bindings' \in Seq(Keys) /\ IsInjective(bindings')
    <3>1. CASE Known(k)
      BY <1>0, <1>2, <2>1, <3>1 DEF HandleBind
    <3>2. CASE ~Known(k)
      <4>1. bindings' = Append(bindings, k) /\ k \notin ToSet(bindings)
        BY <1>2, <2>1, <3>2, KnownIs DEF HandleBind
      <4> QED BY <1>0, <4>1, AppendSet
    <3> QED BY <3>1, <3>2
  <2> QED BY <1>2, <2>0, <2>2, <2>3 DEF HandleBind, TypeOK
<1>3. CASE HandleUnbind
  <2>0. mailbox' \in Seq(MailEntry) /\ Head(mailbox) \in MailEntry /\ Head(mailbox).op = "unbind"
    BY <1>3, TakeIs DEF HandleUnbind
  <2>1. PICK k \in Keys : k = Head(mailbox).arg
    BY <2>0, MailEntryIs
  <2>2. outbox' \in [Threads -> Seq(OutEntry)] /\ lost' \subseteq 1 .. MaxForwards
    <3>1. CASE Push(thread, <<Entry("unbind", k)>>)
      <4>1. <<Entry("unbind", k)>> \in Seq(OutEntry)
        BY EntriesMade
      <4> QED BY <1>0, <3>1, <4>1, PushIs
    <3>2. CASE UNCHANGED <<outbox, lost>>
      BY <3>2 DEF TypeOK
    <3> QED BY <1>3, <2>1, <3>1, <3>2 DEF HandleUnbind
  <2>3. bindings' \in Seq(Keys) /\ IsInjective(bindings')
    <3>1. bindings' = RemoveFirst(bindings, k)
      BY <1>3, <2>1 DEF HandleUnbind
    <3> QED BY <1>0, <3>1, RemoveFirstIs
  <2> QED BY <1>3, <2>0, <2>2, <2>3 DEF HandleUnbind, TypeOK
<1>4. CASE HandleForward
  <2>0. mailbox' \in Seq(MailEntry) /\ Head(mailbox) \in MailEntry /\ Head(mailbox).op = "publish"
    BY <1>4, TakeIs DEF HandleForward
  <2>1. PICK c \in 1 .. MaxForwards : c = Head(mailbox).arg
    BY <2>0, MailEntryIs
  <2>2. outbox' \in [Threads -> Seq(OutEntry)] /\ lost' \subseteq 1 .. MaxForwards
    <3>1. CASE Push(thread, <<Entry("publish", c)>>)
      <4>1. Entry("publish", c) \in OutEntry
        BY EntriesMade
      <4>2. <<Entry("publish", c)>> \in Seq(OutEntry)
        BY <4>1
      <4> QED BY <1>0, <3>1, <4>2, PushIs
    <3>2. CASE UNCHANGED <<outbox, lost>>
      BY <3>2 DEF TypeOK
    <3> QED BY <1>4, <2>1, <3>1, <3>2 DEF HandleForward, HoldOrPush
  <2>3. messages' \in Seq(1 .. MaxForwards)
    <3>1. messages \in Seq(1 .. MaxForwards)
      BY DEF TypeOK
    <3>2. messages' = messages \/ messages' = Append(messages, c)
      BY <1>4, <2>1 DEF HandleForward, HoldOrPush
    <3>3. Append(messages, c) \in Seq(1 .. MaxForwards)
      BY <3>1, AppendIs
    <3> QED BY <3>1, <3>2, <3>3
  <2> QED BY <1>4, <2>0, <2>2, <2>3 DEF HandleForward, TypeOK
<1>5. CASE HandleConnectionOpenOk
  <2>0. mailbox' \in Seq(MailEntry)
    BY <1>5, TakeIs DEF HandleConnectionOpenOk
  <2>1. <<Entry("channel_open", NoThread)>> \in Seq(OutEntry)
    BY EntriesMade
  <2>2. outbox' \in [Threads -> Seq(OutEntry)] /\ lost' \subseteq 1 .. MaxForwards
    BY <1>0, <1>5, <2>1, PushIs DEF HandleConnectionOpenOk
  <2>3. stale' \in BOOLEAN
    BY <1>5 DEF HandleConnectionOpenOk
  <2> QED BY <1>5, <2>0, <2>2, <2>3 DEF HandleConnectionOpenOk, peering, TypeOK
<1>6. CASE HandleChannelOpenOk
  <2>0. mailbox' \in Seq(MailEntry)
    BY <1>6, TakeIs DEF HandleChannelOpenOk
  <2>1. /\ outbox' \in [Threads -> Seq(OutEntry)] /\ lost' \subseteq 1 .. MaxForwards
        /\ messages' \in Seq(1 .. MaxForwards) /\ connected' \in BOOLEAN
    <3>1. CASE connected
      BY <1>6, <3>1 DEF HandleChannelOpenOk, TypeOK
    <3>2. CASE ~connected
      <4>1. Push(thread, Replay) /\ messages' = <<>> /\ connected' = TRUE
        BY <1>6, <3>2 DEF HandleChannelOpenOk
      <4>2. Replay \in Seq(OutEntry)
        BY ReplayIs
      <4> QED BY <1>0, <4>1, <4>2, PushIs
    <3> QED BY <3>1, <3>2
  <2>3. stale' \in BOOLEAN
    BY <1>6 DEF HandleChannelOpenOk
  <2> QED BY <1>6, <2>0, <2>1, <2>3 DEF HandleChannelOpenOk, TypeOK
<1> QED BY <1>1, <1>2, <1>3, <1>4, <1>5, <1>6 DEF Handle

(* The steps of the monitor keep the types. *)
LEMMA TypeMonitor == TypeOK /\ Monitor => TypeOK'
<1> SUFFICES ASSUME TypeOK, Monitor PROVE TypeOK'
  OBVIOUS
<1>0. thread \in Threads \cup {NoThread}
  BY DEF TypeOK
<1>1. CASE MonitorTerminate
  <2>1. <<Entry("close", NoThread)>> \in Seq(OutEntry)
    BY EntriesMade
  <2>2. outbox' \in [Threads -> Seq(OutEntry)] /\ lost' \subseteq 1 .. MaxForwards
    BY <1>0, <1>1, <2>1, PushIs DEF MonitorTerminate
  <2>3. thread' = NoThread /\ connected' = FALSE
    BY <1>1 DEF MonitorTerminate, Disconnected
  <2> QED BY <1>1, <2>2, <2>3 DEF MonitorTerminate, TypeOK
<1>2. CASE MonitorConnect
  <2>1. phase' \in [Threads -> Phase] /\ thread' \in Threads \cup {NoThread}
    BY <1>2 DEF MonitorConnect, TypeOK, Phase
  <2> QED BY <1>2, <2>1 DEF MonitorConnect, TypeOK
<1> QED BY <1>1, <1>2 DEF Monitor

(* The steps of an agent and of the remote server keep the types. *)
LEMMA TypeAgent ==
  ASSUME TypeOK, NEW n \in Threads, Agent(n) \/ Break(n) \/ RemoteEnds(n)
  PROVE  TypeOK'
<1>0. /\ phase \in [Threads -> Phase] /\ mailbox \in Seq(MailEntry)
      /\ outbox \in [Threads -> Seq(OutEntry)]
  BY DEF TypeOK
<1>1. CASE AgentOpens(n) \/ AgentChannelOpens(n)
  <2>1. phase' \in [Threads -> Phase]
    BY <1>0, <1>1 DEF AgentOpens, AgentChannelOpens, Phase
  <2>2. PICK o \in {"connection_open_ok", "channel_open_ok"} : mailbox' = Append(mailbox, Entry(o, n))
    BY <1>1 DEF AgentOpens, AgentChannelOpens
  <2>3. Entry(o, n) \in MailEntry
    BY EntriesMade
  <2>4. mailbox' \in Seq(MailEntry)
    BY <1>0, <2>2, <2>3
  <2> QED BY <1>1, <2>1, <2>4 DEF AgentOpens, AgentChannelOpens, peering, TypeOK
<1>2. CASE AgentActive(n) \/ AgentStuck(n)
  <2>1. phase' \in [Threads -> Phase]
    BY <1>0, <1>2 DEF AgentActive, AgentStuck, Phase
  <2> QED BY <1>2, <2>1 DEF AgentActive, AgentStuck, peering, TypeOK
<1>3. CASE Quits(n)
  <2>1. /\ phase' \in [Threads -> Phase] /\ outbox' \in [Threads -> Seq(OutEntry)]
        /\ declared' \in [Threads -> BOOLEAN] /\ remote' \in [Threads -> SUBSET Keys]
        /\ lost' \subseteq 1 .. MaxForwards /\ calls' \in [Call -> Nat]
        /\ UNCHANGED <<peering, received, mailbox, stale, asked>>
    BY <1>3, QuitIs
  <2> QED BY <2>1 DEF peering, TypeOK
<1>4. CASE AgentOpensChannel(n) \/ AgentDiscards(n)
  <2>0. outbox[n] # <<>> /\ Sent(n)
    BY <1>4 DEF AgentOpensChannel, AgentDiscards
  <2>1. outbox' \in [Threads -> Seq(OutEntry)] /\ Head(outbox[n]) \in OutEntry
    BY <2>0, SentIs
  <2>2. phase' \in [Threads -> Phase]
    BY <1>0, <1>4 DEF AgentOpensChannel, AgentDiscards, Phase
  <2>3. lost' \subseteq 1 .. MaxForwards
    <3>1. <<Head(outbox[n])>> \in Seq(OutEntry)
      BY <2>1
    <3>2. Published(<<Head(outbox[n])>>) \subseteq 1 .. MaxForwards
      BY <3>1, PublishedType
    <3> QED BY <1>4, <3>2 DEF AgentOpensChannel, AgentDiscards, TypeOK
  <2> QED BY <1>4, <2>1, <2>2, <2>3 DEF AgentOpensChannel, AgentDiscards, peering, TypeOK
<1>5. CASE RemoteHandles(n)
  <2>0. outbox[n] # <<>> /\ Sent(n)
    BY <1>5 DEF RemoteHandles
  <2>1. outbox' \in [Threads -> Seq(OutEntry)] /\ Head(outbox[n]) \in OutEntry
    BY <2>0, SentIs
  <2>2. PICK e : e = Head(outbox[n])
    OBVIOUS
  <2>3. (e.op \in {"bind", "unbind"} => e.arg \in Keys) /\ (e.op = "publish" => e.arg \in 1 .. MaxForwards)
    BY <2>1, <2>2, OutEntryIs
  <2>4. phase' \in [Threads -> Phase]
    BY <1>0, <1>5 DEF RemoteHandles, Phase
  <2>5. declared' \in [Threads -> BOOLEAN]
    BY <1>5 DEF RemoteHandles, TypeOK
  <2>6. remote' \in [Threads -> SUBSET Keys]
    <3>1. remote \in [Threads -> SUBSET Keys]
      BY DEF TypeOK
    <3>2. \/ remote' = remote
          \/ /\ e.op \in {"bind", "unbind"}
             /\ remote' = [remote EXCEPT ![n] = IF e.op = "bind" THEN @ \cup {e.arg} ELSE @ \ {e.arg}]
      BY <1>5, <2>2 DEF RemoteHandles
    <3>3. CASE e.op = "bind" /\ remote' = [remote EXCEPT ![n] = remote[n] \cup {e.arg}]
      <4>1. remote[n] \cup {e.arg} \in SUBSET Keys
        BY <2>3, <3>1, <3>3
      <4> QED BY <3>1, <3>3, <4>1
    <3>4. CASE remote' = [remote EXCEPT ![n] = remote[n] \ {e.arg}]
      <4>1. remote[n] \ {e.arg} \in SUBSET Keys
        BY <3>1
      <4> QED BY <3>1, <3>4, <4>1
    <3>5. CASE e.op \in {"bind", "unbind"} /\ remote' # remote
      <4>1. remote' = [remote EXCEPT ![n] = IF e.op = "bind" THEN @ \cup {e.arg} ELSE @ \ {e.arg}]
        BY <3>2, <3>5
      <4>2. CASE e.op = "bind"
        BY <3>3, <4>1, <4>2
      <4>3. CASE e.op # "bind"
        BY <3>4, <4>1, <4>3
      <4> QED BY <4>2, <4>3
    <3>6. CASE remote' = remote
      BY <3>1, <3>6
    <3> QED BY <3>2, <3>5, <3>6
  <2>7. received' \in Seq([id : 1 .. MaxForwards, by : Threads])
    <3>1. received \in Seq([id : 1 .. MaxForwards, by : Threads])
      BY DEF TypeOK
    <3>2. received' = received \/ (e.op = "publish" /\ received' = Append(received, [id |-> e.arg, by |-> n]))
      BY <1>5, <2>2 DEF RemoteHandles
    <3>3. CASE e.op = "publish" /\ received' = Append(received, [id |-> e.arg, by |-> n])
      <4>1. [id |-> e.arg, by |-> n] \in [id : 1 .. MaxForwards, by : Threads]
        BY <2>3, <3>3
      <4> QED BY <3>1, <3>3, <4>1
    <3> QED BY <3>1, <3>2, <3>3
  <2>8. UNCHANGED <<peering, mailbox, lost, stale, asked, calls>>
    BY <1>5 DEF RemoteHandles
  <2> QED BY <2>1, <2>4, <2>5, <2>6, <2>7, <2>8 DEF peering, TypeOK
<1> QED BY <1>1, <1>2, <1>3, <1>4, <1>5 DEF Agent, Quits

(* The types hold at first, and every step keeps them. *)
LEMMA TypeInit == Init => TypeOK
<1> SUFFICES ASSUME Init PROVE TypeOK
  OBVIOUS
<1>1. IsInjective(<<>>)
  BY DEF IsInjective
<1>2. thread \in Threads \cup {NoThread}
  BY DEF Init
<1>3. messages \in Seq(1 .. MaxForwards) /\ received \in Seq([id : 1 .. MaxForwards, by : Threads])
  BY DEF Init
<1>4. lost \subseteq 1 .. MaxForwards
  BY DEF Init
<1>5. phase \in [Threads -> Phase] /\ outbox \in [Threads -> Seq(OutEntry)]
  BY DEF Init, Phase
<1>6. declared \in [Threads -> BOOLEAN] /\ remote \in [Threads -> SUBSET Keys]
  BY DEF Init
<1>7. calls \in [Call -> Nat]
  BY DEF Init
<1>8. bindings \in Seq(Keys) /\ IsInjective(bindings) /\ mailbox \in Seq(MailEntry)
  BY <1>1 DEF Init
<1>9. {enabled, connected, timer, stale} \subseteq BOOLEAN /\ asked \subseteq Keys
  BY DEF Init
<1> QED BY <1>2, <1>3, <1>4, <1>5, <1>6, <1>7, <1>8, <1>9 DEF TypeOK

(* The types are kept. *)
LEMMA TypeNext == TypeOK /\ [Next]_vars => TypeOK'
<1> SUFFICES ASSUME TypeOK, [Next]_vars PROVE TypeOK'
  OBVIOUS
<1>1. CASE UNCHANGED vars
  BY <1>1 DEF vars, peering, agents, TypeOK
<1> QED BY <1>1, TypeCaller, TypeHandle, TypeMonitor, TypeAgent DEF Next

(***************************************************************************)
(* The fields of amq_peering, its method queue, the agent threads and the  *)
(* remote queue keep their types, and no binding is in the list twice.     *)
(***************************************************************************)
THEOREM TypeCorrect == Spec => []TypeOK
  BY TypeInit, TypeNext, PTL DEF Spec

-----------------------------------------------------------------------------
(* The messages: where they are, and in which order *)

Before(A, B) == \A a \in A, b \in B : a < b
Rising(s) ==
  \A i, j \in 1 .. Len(s) : i < j /\ s[i].op = "publish" /\ s[j].op = "publish" => s[i].arg < s[j].arg
Mail == Published(mailbox)
Held == ToSet(messages)
ReceivedBy(n) == {received[i].id : i \in {j \in DOMAIN received : received[j].by = n}}

\* What an agent thread sends, or has sent.
Sends(n) == ReceivedBy(n) \cup InTransit(n)

\* Messages are dropped, received or on their way before those held, and held
\* before those in the mailbox; on each connection the older ones arrive first, and
\* each connection has older ones than the next.
FlowOrder ==
  /\ Rising(mailbox)
  /\ \A i, j \in 1 .. Len(messages) : i < j => messages[i] < messages[j]
  /\ \A n \in Threads : Rising(outbox[n])
  /\ Before(Held, Mail) /\ Before(lost, Held) /\ Before(lost, Mail)
  /\ Before(Arrived, Held) /\ Before(Arrived, Mail)
  /\ \A n \in Threads : Before(InTransit(n), Held) /\ Before(InTransit(n), Mail)
  /\ \A n \in Threads : Before(ReceivedBy(n), InTransit(n))
  /\ \A m, n \in Threads : m < n => Before(Sends(m), Sends(n))
  /\ ReceivedInOrder
  /\ connected => messages = <<>>

\* No message is in two places, and each one is somewhere.
FlowPlace ==
  /\ lost \cap Arrived = {}
  /\ \A n \in Threads : InTransit(n) \cap lost = {} /\ InTransit(n) \cap Arrived = {}
  /\ \A m, n \in Threads : m # n => InTransit(m) \cap InTransit(n) = {}
  /\ \A i, j \in DOMAIN received : received[i].id = received[j].id => i = j
  /\ \A c \in 1 .. MaxForwards :
        c <= calls["forward"] <=> \/ c \in lost \/ c \in Arrived \/ c \in Held \/ c \in Mail
                                  \/ \E n \in Threads : c \in InTransit(n)

\* The current agent thread is the youngest, and one not yet created has sent nothing.
Latest ==
  /\ \A n \in Threads :
        phase[n] = "none" => n # thread /\ outbox[n] = <<>> /\ ReceivedBy(n) = {}
  /\ \A m, n \in Threads : m < n /\ (phase[m] = "none" \/ m = thread) => phase[n] = "none"

Forwarded == calls["forward"] <= MaxForwards

FlowInv == FlowOrder /\ FlowPlace /\ Latest /\ Forwarded

-----------------------------------------------------------------------------
(* The link: what the peering believes of its agent thread *)

OkOp == {"connection_open_ok", "channel_open_ok"}
LinkOp == {"declare", "bind", "unbind", "publish"}
Fresh(n) == outbox[n] = <<>> /\ ~declared[n] /\ remote[n] = {}

\* The mailbox holds no open-ok of an agent, or exactly one.
Silent(n) == \A i \in 1 .. Len(mailbox) : mailbox[i].op \in OkOp => mailbox[i].arg # n
Speaks(o, n) ==
  \E i \in 1 .. Len(mailbox) :
    /\ mailbox[i] = Entry(o, n)
    /\ \A j \in 1 .. Len(mailbox) : j # i /\ mailbox[j].op \in OkOp => mailbox[j].arg # n

\* Will k be bound at the remote server when all of s has been handled there?
Bound(k, s, R) ==
  \/ \E i \in 1 .. Len(s) : /\ s[i] = Entry("bind", k)
                            /\ \A j \in 1 .. Len(s) : i < j => s[j] # Entry("unbind", k)
  \/ k \in R /\ \A j \in 1 .. Len(s) : s[j] # Entry("unbind", k)

Running(n) ==
  /\ \A i \in 1 .. Len(outbox[n]) : outbox[n][i].op \in LinkOp
  /\ declared[n] \/ (outbox[n] # <<>> /\ Head(outbox[n]).op = "declare")
  /\ \A k \in Keys : Bound(k, outbox[n], remote[n]) <=> k \in ToSet(bindings)

\* How far the link has come.
Connecting(n) == phase[n] = "setup" /\ Silent(n) /\ Fresh(n)
Confirmed(n) ==
  phase[n] \in {"confirmed", "active"} /\ Speaks("connection_open_ok", n) /\ Fresh(n)
Told(n) ==
  /\ phase[n] \in {"confirmed", "active", "stuck"} /\ Silent(n)
  /\ outbox[n] = <<Entry("channel_open", NoThread)>> /\ ~declared[n] /\ remote[n] = {}
Opening(n) == phase[n] = "opening" /\ Silent(n) /\ Fresh(n)
Opened(n) == phase[n] = "open" /\ Speaks("channel_open_ok", n) /\ Fresh(n)
Stage(n) ==
  \/ ~connected /\ (Connecting(n) \/ Confirmed(n) \/ Told(n) \/ Opening(n) \/ Opened(n))
  \/ connected /\ phase[n] = "open" /\ Silent(n) /\ Running(n)
  \/ phase[n] = "zombie"

\* As long as there was no stop, there is none to come, and the peering that has an
\* agent thread is enabled.
NeverStopped ==
  calls["stop"] = 0 =>
    /\ \A i \in 1 .. Len(mailbox) : mailbox[i].op # "stop"
    /\ thread # NoThread => enabled

\* As long as nothing broke and nothing was stopped, there is one agent at most.
Calm ==
  calls["break"] = 0 /\ calls["stop"] = 0 =>
    /\ lost = {} /\ ~stale
    /\ \A n \in Threads : phase[n] # "zombie" /\ (n # thread => phase[n] = "none")
    /\ \A i \in 1 .. Len(mailbox) : mailbox[i].op \in OkOp => mailbox[i].arg = thread

\* An agent thread that was not created yet has no part in the link.
Unborn == \A n \in Threads : phase[n] = "none" => Fresh(n) /\ Silent(n) /\ n # thread

\* The peering's view of its agent thread is right, unless it has handled an open-ok
\* of another one.
InStage ==
  ~stale => /\ thread = NoThread => ~connected
            /\ thread # NoThread => Stage(thread)

LinkInv == Unborn /\ NeverStopped /\ Calm /\ InStage

(* What an entry publishes. *)
Pub1(e) == IF e.op = "publish" THEN {e.arg} ELSE {}

(* What a sequence publishes that one entry was taken from. *)
LEMMA PubTail ==
  ASSUME NEW S, NEW s \in Seq(S), s # <<>>
  PROVE  /\ Published(s) = Pub1(Head(s)) \cup Published(Tail(s))
         /\ Rising(s) => Rising(Tail(s)) /\ Before(Pub1(Head(s)), Published(Tail(s)))
<1>1. PICK t : t = Tail(s)
  OBVIOUS
<1>2. /\ Head(s) \in S /\ t \in Seq(S) /\ Head(s) = s[1] /\ Len(s) \in Nat /\ Len(s) >= 1
      /\ Len(t) = Len(s) - 1 /\ \A i \in 1 .. (Len(s) - 1) : t[i] = s[i + 1]
  BY <1>1, TailIs
<1>3. \A c : c \in Published(s) <=> \E i \in 1 .. Len(s) : s[i].op = "publish" /\ s[i].arg = c
  BY PublishedIs
<1>4. \A c : c \in Published(t) <=> \E i \in 1 .. Len(t) : t[i].op = "publish" /\ t[i].arg = c
  BY <1>2, PublishedIs
<1>5. \A c : c \in Pub1(Head(s)) <=> s[1].op = "publish" /\ s[1].arg = c
  BY <1>2 DEF Pub1
<1>6. ASSUME NEW c PROVE c \in Published(s) <=> c \in Pub1(Head(s)) \/ c \in Published(t)
  <2>1. ASSUME c \in Published(s) PROVE c \in Pub1(Head(s)) \/ c \in Published(t)
    <3>1. PICK i \in 1 .. Len(s) : s[i].op = "publish" /\ s[i].arg = c
      BY <1>3, <2>1
    <3>2. CASE i = 1
      BY <1>5, <3>1, <3>2
    <3>3. CASE i # 1
      <4>1. i - 1 \in 1 .. Len(t) /\ t[i - 1] = s[i]
        BY <1>2, <3>3
      <4> QED BY <1>4, <3>1, <4>1
    <3> QED BY <3>2, <3>3
  <2>2. ASSUME c \in Published(t) PROVE c \in Published(s)
    <3>1. PICK i \in 1 .. Len(t) : t[i].op = "publish" /\ t[i].arg = c
      BY <1>4, <2>2
    <3>2. i + 1 \in 1 .. Len(s) /\ s[i + 1] = t[i]
      BY <1>2
    <3> QED BY <1>3, <3>1, <3>2
  <2>3. ASSUME c \in Pub1(Head(s)) PROVE c \in Published(s)
    <3>1. 1 \in 1 .. Len(s)
      BY <1>2
    <3> QED BY <1>3, <1>5, <2>3, <3>1
  <2> QED BY <2>1, <2>2, <2>3
<1>7. ASSUME Rising(s) PROVE Rising(t) /\ Before(Pub1(Head(s)), Published(t))
  <2>1. ASSUME NEW i \in 1 .. Len(t), NEW j \in 1 .. Len(t), i < j, t[i].op = "publish",
               t[j].op = "publish"
        PROVE  t[i].arg < t[j].arg
    <3>1. i + 1 \in 1 .. Len(s) /\ j + 1 \in 1 .. Len(s) /\ i + 1 < j + 1
      BY <1>2, <2>1
    <3>2. t[i] = s[i + 1] /\ t[j] = s[j + 1]
      BY <1>2
    <3> QED BY <1>7, <2>1, <3>1, <3>2 DEF Rising
  <2>2. ASSUME NEW a \in Pub1(Head(s)), NEW b \in Published(t) PROVE a < b
    <3>1. s[1].op = "publish" /\ s[1].arg = a
      BY <1>5, <2>2
    <3>2. PICK i \in 1 .. Len(t) : t[i].op = "publish" /\ t[i].arg = b
      BY <1>4, <2>2
    <3>3. i + 1 \in 1 .. Len(s) /\ 1 \in 1 .. Len(s) /\ 1 < i + 1 /\ s[i + 1] = t[i]
      BY <1>2
    <3> QED BY <1>7, <3>1, <3>2, <3>3 DEF Rising
  <2> QED BY <2>1, <2>2 DEF Rising, Before
<1> QED BY <1>1, <1>6, <1>7

(* What two sequences publish together. *)
LEMMA PubConcat ==
  ASSUME NEW S, NEW a \in Seq(S), NEW b \in Seq(S)
  PROVE  /\ Published(a \o b) = Published(a) \cup Published(b)
         /\ Rising(a) /\ Rising(b) /\ Before(Published(a), Published(b)) => Rising(a \o b)
<1>1. PICK s : s = a \o b
  OBVIOUS
<1>2. /\ s \in Seq(S) /\ Len(s) = Len(a) + Len(b) /\ Len(a) \in Nat /\ Len(b) \in Nat
      /\ \A i \in 1 .. Len(a) : s[i] = a[i]
      /\ \A i \in (Len(a) + 1) .. (Len(a) + Len(b)) : s[i] = b[i - Len(a)]
  BY <1>1, ConcatIs
<1>3. \A c : c \in Published(s) <=> \E i \in 1 .. Len(s) : s[i].op = "publish" /\ s[i].arg = c
  BY <1>2, PublishedIs
<1>4. \A c : c \in Published(a) <=> \E i \in 1 .. Len(a) : a[i].op = "publish" /\ a[i].arg = c
  BY PublishedIs
<1>5. \A c : c \in Published(b) <=> \E i \in 1 .. Len(b) : b[i].op = "publish" /\ b[i].arg = c
  BY PublishedIs
<1>6. \A i \in 1 .. Len(s) : i \notin 1 .. Len(a) =>
         /\ i \in (Len(a) + 1) .. (Len(a) + Len(b)) /\ i - Len(a) \in 1 .. Len(b)
         /\ s[i] = b[i - Len(a)]
  BY <1>2
<1>7. ASSUME NEW c PROVE c \in Published(s) <=> c \in Published(a) \/ c \in Published(b)
  <2>1. ASSUME c \in Published(s) PROVE c \in Published(a) \/ c \in Published(b)
    <3>1. PICK i \in 1 .. Len(s) : s[i].op = "publish" /\ s[i].arg = c
      BY <1>3, <2>1
    <3>2. CASE i \in 1 .. Len(a)
      BY <1>2, <1>4, <3>1, <3>2
    <3>3. CASE i \notin 1 .. Len(a)
      BY <1>5, <1>6, <3>1, <3>3
    <3> QED BY <3>2, <3>3
  <2>2. ASSUME c \in Published(a) PROVE c \in Published(s)
    <3>1. PICK i \in 1 .. Len(a) : a[i].op = "publish" /\ a[i].arg = c
      BY <1>4, <2>2
    <3>2. i \in 1 .. Len(s) /\ s[i] = a[i]
      BY <1>2
    <3> QED BY <1>3, <3>1, <3>2
  <2>3. ASSUME c \in Published(b) PROVE c \in Published(s)
    <3>1. PICK i \in 1 .. Len(b) : b[i].op = "publish" /\ b[i].arg = c
      BY <1>5, <2>3
    <3>2. /\ i + Len(a) \in 1 .. Len(s) /\ i + Len(a) \in (Len(a) + 1) .. (Len(a) + Len(b))
          /\ (i + Len(a)) - Len(a) = i
      BY <1>2
    <3>3. s[i + Len(a)] = b[i]
      BY <1>2, <3>2
    <3> QED BY <1>3, <3>1, <3>2, <3>3
  <2> QED BY <2>1, <2>2, <2>3
<1>8. ASSUME Rising(a), Rising(b), Before(Published(a), Published(b)),
             NEW i \in 1 .. Len(s), NEW j \in 1 .. Len(s), i < j, s[i].op = "publish",
             s[j].op = "publish"
      PROVE  s[i].arg < s[j].arg
  <2>1. CASE i \in 1 .. Len(a) /\ j \in 1 .. Len(a)
    BY <1>2, <1>8, <2>1 DEF Rising
  <2>2. CASE i \in 1 .. Len(a) /\ j \notin 1 .. Len(a)
    <3>1. s[i].arg \in Published(a)
      BY <1>2, <1>4, <1>8, <2>2
    <3>2. s[j].arg \in Published(b)
      BY <1>5, <1>6, <1>8, <2>2
    <3> QED BY <1>8, <3>1, <3>2 DEF Before
  <2>3. CASE i \notin 1 .. Len(a) /\ j \notin 1 .. Len(a)
    <3>1. /\ i - Len(a) \in 1 .. Len(b) /\ j - Len(a) \in 1 .. Len(b)
          /\ i - Len(a) < j - Len(a)
      BY <1>2, <1>6, <1>8, <2>3
    <3>2. s[i] = b[i - Len(a)] /\ s[j] = b[j - Len(a)]
      BY <1>6, <2>3
    <3> QED BY <1>8, <3>1, <3>2 DEF Rising
  <2>4. i \notin 1 .. Len(a) => j \notin 1 .. Len(a)
    BY <1>2, <1>8
  <2> QED BY <2>1, <2>2, <2>3, <2>4
<1>9. Rising(a) /\ Rising(b) /\ Before(Published(a), Published(b)) => Rising(s)
  BY <1>8 DEF Rising
<1> QED BY <1>1, <1>7, <1>9

(* What a single entry publishes. *)
LEMMA PubOne ==
  ASSUME NEW e
  PROVE  Published(<<e>>) = Pub1(e) /\ Rising(<<e>>)
<1>1. PICK s : s = <<e>>
  OBVIOUS
<1>2. s \in Seq({e}) /\ Len(s) = 1 /\ s[1] = e
  BY <1>1
<1>3. \A c : c \in Published(s) <=> \E i \in 1 .. Len(s) : s[i].op = "publish" /\ s[i].arg = c
  BY <1>2, PublishedIs
<1>4. \A c : c \in Pub1(e) <=> e.op = "publish" /\ e.arg = c
  BY DEF Pub1
<1>5. Published(s) = Pub1(e)
  <2>1. ASSUME NEW c PROVE c \in Published(s) <=> e.op = "publish" /\ e.arg = c
    <3>1. 1 \in 1 .. Len(s) /\ \A i \in 1 .. Len(s) : s[i] = e
      BY <1>2
    <3> QED BY <1>3, <3>1
  <2> QED BY <1>4, <2>1
<1>6. Rising(s)
  BY <1>2 DEF Rising
<1> QED BY <1>1, <1>5, <1>6

(* What is published with one entry more. *)
LEMMA PubAppend ==
  ASSUME NEW S, NEW s \in Seq(S), NEW e \in S
  PROVE  /\ Published(Append(s, e)) = Published(s) \cup Pub1(e)
         /\ Rising(s) /\ Before(Published(s), Pub1(e)) => Rising(Append(s, e))
<1>1. Append(s, e) = s \o <<e>> /\ <<e>> \in Seq(S)
  OBVIOUS
<1>2. Published(<<e>>) = Pub1(e) /\ Rising(<<e>>)
  BY PubOne
<1>3. PICK b \in Seq(S) : b = <<e>>
  BY <1>1
<1>4. Published(b) = Pub1(e) /\ Rising(b) /\ Append(s, e) = s \o b
  BY <1>1, <1>2, <1>3
<1>5. /\ Published(s \o b) = Published(s) \cup Published(b)
      /\ Rising(s) /\ Rising(b) /\ Before(Published(s), Published(b)) => Rising(s \o b)
  BY PubConcat
<1> QED BY <1>4, <1>5

(* The messages replayed are those held, in their order. *)
LEMMA PubReplay ==
  ASSUME TypeOK, \A i, j \in 1 .. Len(messages) : i < j => messages[i] < messages[j]
  PROVE  Published(Replay) = Held /\ Rising(Replay)
<1>1. PICK r, b, m : r = Replay /\ b = Len(bindings) /\ m = Len(messages)
  OBVIOUS
<1>2. /\ r \in Seq(OutEntry) /\ Len(r) = 1 + b + m /\ r[1] = Entry("declare", NoThread)
      /\ \A i \in 1 .. b : r[1 + i] = Entry("bind", bindings[i])
      /\ \A i \in 1 .. m : r[1 + b + i] = Entry("publish", messages[i])
  BY <1>1, ReplayIs
<1>3. b \in Nat /\ m \in Nat /\ messages \in Seq(1 .. MaxForwards)
  BY <1>1 DEF TypeOK
<1>4. \A c : c \in Published(r) <=> \E i \in 1 .. Len(r) : r[i].op = "publish" /\ r[i].arg = c
  BY <1>2, PublishedIs
<1>5. \A c : c \in Held <=> \E i \in 1 .. m : messages[i] = c
  BY <1>1, <1>3, ToSetIs DEF Held
<1>6. \A i \in 1 .. m : r[1 + b + i].op = "publish" /\ r[1 + b + i].arg = messages[i]
  BY <1>2, EntriesMade
<1>7. ASSUME NEW i \in 1 .. Len(r), r[i].op = "publish"
      PROVE  i - (1 + b) \in 1 .. m /\ i = 1 + b + (i - (1 + b))
  <2>1. i # 1
    BY <1>2, <1>7, EntriesMade
  <2>2. ASSUME i \in 2 .. (1 + b) PROVE FALSE
    <3>1. i - 1 \in 1 .. b /\ i = 1 + (i - 1)
      BY <1>3, <2>2
    <3>2. r[i] = Entry("bind", bindings[i - 1])
      BY <1>2, <3>1
    <3> QED BY <1>7, <3>2, EntriesMade
  <2>3. i > 1 + b
    BY <1>2, <1>3, <2>1, <2>2
  <2> QED BY <1>2, <1>3, <2>3
<1>8. ASSUME NEW c PROVE c \in Published(r) <=> c \in Held
  <2>1. ASSUME c \in Published(r) PROVE c \in Held
    <3>1. PICK i \in 1 .. Len(r) : r[i].op = "publish" /\ r[i].arg = c
      BY <1>4, <2>1
    <3>2. PICK j : j = i - (1 + b)
      OBVIOUS
    <3>3. j \in 1 .. m /\ i = 1 + b + j
      BY <1>7, <3>1, <3>2
    <3>4. messages[j] = c
      BY <1>6, <3>1, <3>3
    <3> QED BY <1>5, <3>3, <3>4
  <2>2. ASSUME c \in Held PROVE c \in Published(r)
    <3>1. PICK i \in 1 .. m : messages[i] = c
      BY <1>5, <2>2
    <3>2. 1 + b + i \in 1 .. Len(r)
      BY <1>2, <1>3
    <3> QED BY <1>4, <1>6, <3>1, <3>2
  <2> QED BY <2>1, <2>2
<1>9. ASSUME NEW i \in 1 .. Len(r), NEW j \in 1 .. Len(r), i < j, r[i].op = "publish",
             r[j].op = "publish"
      PROVE  r[i].arg < r[j].arg
  <2>1. PICK x, y : x = i - (1 + b) /\ y = j - (1 + b)
    OBVIOUS
  <2>2. x \in 1 .. m /\ i = 1 + b + x
    BY <1>7, <1>9, <2>1
  <2>3. y \in 1 .. m /\ j = 1 + b + y
    BY <1>7, <1>9, <2>1
  <2>4. x < y
    BY <1>3, <1>9, <2>2, <2>3
  <2>5. r[i].arg = messages[x] /\ r[j].arg = messages[y]
    BY <1>6, <2>2, <2>3
  <2> QED BY <1>1, <2>2, <2>3, <2>4, <2>5
<1>10. Rising(r)
  BY <1>9 DEF Rising
<1> QED BY <1>1, <1>8, <1>10

(* The messages are numbered. *)
LEMMA Numbered ==
  ASSUME TypeOK
  PROVE  /\ lost \subseteq Nat /\ Arrived \subseteq 1 .. MaxForwards /\ Held \subseteq 1 .. MaxForwards
         /\ Mail \subseteq 1 .. MaxForwards /\ lost \subseteq 1 .. MaxForwards
         /\ \A n \in Threads : InTransit(n) \subseteq 1 .. MaxForwards
         /\ \A n \in Threads : ReceivedBy(n) \subseteq Arrived
<1>1. /\ messages \in Seq(1 .. MaxForwards) /\ mailbox \in Seq(MailEntry)
      /\ outbox \in [Threads -> Seq(OutEntry)] /\ lost \subseteq 1 .. MaxForwards
      /\ received \in Seq([id : 1 .. MaxForwards, by : Threads])
  BY DEF TypeOK
<1>2. Held \subseteq 1 .. MaxForwards
  BY <1>1, ToSetIs DEF Held
<1>3. ASSUME NEW c \in Mail PROVE c \in 1 .. MaxForwards
  <2>1. PICK i \in 1 .. Len(mailbox) : mailbox[i].op = "publish" /\ mailbox[i].arg = c
    BY <1>1, <1>3, PublishedIs DEF Mail
  <2>2. mailbox[i] \in MailEntry
    BY <1>1, ElementIs
  <2> QED BY <2>1, <2>2, MailEntryIs
<1>4. ASSUME NEW n \in Threads PROVE InTransit(n) \subseteq 1 .. MaxForwards
  BY <1>1, PublishedType DEF InTransit
<1>5. ASSUME NEW c \in Arrived PROVE c \in 1 .. MaxForwards
  <2>1. PICK i \in DOMAIN received : received[i].id = c
    BY <1>5 DEF Arrived
  <2>2. received[i] \in [id : 1 .. MaxForwards, by : Threads]
    <3>1. i \in 1 .. Len(received)
      BY <1>1
    <3> QED BY <1>1, <3>1, ElementIs
  <2> QED BY <2>1, <2>2
<1>6. ASSUME NEW n \in Threads PROVE ReceivedBy(n) \subseteq Arrived
  BY DEF ReceivedBy, Arrived
<1>7. lost \subseteq Nat
  BY <1>1
<1> QED BY <1>1, <1>2, <1>3, <1>4, <1>5, <1>6, <1>7

(* A step that moves no message. *)
LEMMA FlowKept ==
  ASSUME FlowOrder, FlowPlace, UNCHANGED <<messages, received, lost>>, Mail' = Mail,
         Rising(mailbox'), \A n \in Threads : InTransit(n)' = InTransit(n) /\ Rising(outbox'[n]),
         connected' => connected, calls'["forward"] = calls["forward"]
  PROVE  FlowOrder' /\ FlowPlace'
<1>1. /\ Held' = Held /\ Arrived' = Arrived
      /\ \A n \in Threads : ReceivedBy(n)' = ReceivedBy(n)
  BY DEF Held, Arrived, ReceivedBy
<1>2. ReceivedInOrder'
  BY DEF FlowOrder, ReceivedInOrder
<1>3. FlowOrder'
  <2>1. \A n \in Threads : Sends(n)' = Sends(n)
    BY <1>1 DEF Sends
  <2> QED BY <1>1, <1>2, <2>1 DEF FlowOrder
<1>4. FlowPlace'
  BY <1>1 DEF FlowPlace
<1> QED BY <1>3, <1>4

(* A message is forwarded: it goes to the end of the mailbox. *)
LEMMA FlowPosted ==
  ASSUME TypeOK, FlowOrder, FlowPlace, NEW c \in 1 .. MaxForwards, c = calls["forward"] + 1,
         UNCHANGED <<messages, received, lost, outbox, connected>>, Mail' = Mail \cup {c},
         Before(Mail, {c}) => Rising(mailbox'), calls'["forward"] = c
  PROVE  FlowOrder' /\ FlowPlace'
<1>0. calls["forward"] \in Nat
  BY DEF TypeOK, Call
<1>1. /\ Held' = Held /\ Arrived' = Arrived
      /\ \A n \in Threads : ReceivedBy(n)' = ReceivedBy(n) /\ InTransit(n)' = InTransit(n)
  BY DEF Held, Arrived, ReceivedBy, InTransit
<1>2. /\ \A d \in lost \cup Arrived \cup Held \cup Mail : d < c
      /\ \A n \in Threads : \A d \in InTransit(n) : d < c
  <2>1. \A d \in 1 .. MaxForwards : d <= calls["forward"] => d < c
    BY <1>0
  <2> QED BY <2>1, Numbered DEF FlowPlace
<1>3. ReceivedInOrder'
  BY DEF FlowOrder, ReceivedInOrder
<1>4. Rising(mailbox')
  BY <1>2 DEF Before
<1>5. FlowOrder'
  <2>1. Before(Held, Mail)' /\ Before(lost, Mail)' /\ Before(Arrived, Mail)'
    BY <1>1, <1>2 DEF FlowOrder, Before
  <2>2. \A n \in Threads : Before(InTransit(n), Mail)'
    BY <1>1, <1>2 DEF FlowOrder, Before
  <2>3. \A n \in Threads : Sends(n)' = Sends(n)
    BY <1>1 DEF Sends
  <2> QED BY <1>1, <1>3, <1>4, <2>1, <2>2, <2>3 DEF FlowOrder
<1>6. FlowPlace'
  <2>1. \A d \in 1 .. MaxForwards : d <= c <=> d = c \/ d <= calls["forward"]
    BY <1>0
  <2> QED BY <1>1, <2>1 DEF FlowPlace
<1> QED BY <1>5, <1>6

(* The oldest message of the mailbox is held. *)
LEMMA FlowHeld ==
  ASSUME TypeOK, FlowOrder, FlowPlace, NEW c \in 1 .. MaxForwards,
         UNCHANGED <<received, lost, outbox, connected, calls>>, ~connected,
         Mail = Mail' \cup {c}, Before({c}, Mail'), Rising(mailbox'),
         messages' = Append(messages, c)
  PROVE  FlowOrder' /\ FlowPlace'
<1>0. messages \in Seq(1 .. MaxForwards)
  BY DEF TypeOK
<1>1. /\ Arrived' = Arrived
      /\ \A n \in Threads : ReceivedBy(n)' = ReceivedBy(n) /\ InTransit(n)' = InTransit(n)
  BY DEF Arrived, ReceivedBy, InTransit
<1>2. Held' = Held \cup {c}
  <2>0. PICK S, e : messages \in Seq(S) /\ e \in S /\ e = c
    BY <1>0
  <2>1. ToSet(Append(messages, e)) = ToSet(messages) \cup {e}
    BY <2>0, AppendSet
  <2> QED BY <2>0, <2>1 DEF Held
<1>3. /\ \A d \in lost \cup Arrived \cup Held : d < c
      /\ \A n \in Threads : \A d \in InTransit(n) : d < c
  BY DEF FlowOrder, Before
<1>4. ReceivedInOrder'
  BY DEF FlowOrder, ReceivedInOrder
<1>5. ASSUME NEW i \in 1 .. Len(messages'), NEW j \in 1 .. Len(messages'), i < j
      PROVE  messages'[i] < messages'[j]
  <2>1. PICK ms : ms = messages'
    OBVIOUS
  <2>2. /\ Len(ms) = Len(messages) + 1 /\ ms[Len(messages) + 1] = c
        /\ \A k \in 1 .. Len(messages) : ms[k] = messages[k]
    BY <1>0, <2>1, AppendIs
  <2>3. Len(messages) \in Nat /\ i \in 1 .. Len(messages)
    BY <1>0, <1>5, <2>1, <2>2
  <2>4. CASE j = Len(messages) + 1
    <3>1. messages[i] \in Held
      BY <1>0, <2>3, ToSetIs DEF Held
    <3> QED BY <1>3, <2>1, <2>2, <2>3, <2>4, <3>1
  <2>5. CASE j # Len(messages) + 1
    <3>1. j \in 1 .. Len(messages)
      BY <1>5, <2>1, <2>2, <2>3, <2>5
    <3> QED BY <1>5, <2>1, <2>2, <2>3, <3>1 DEF FlowOrder
  <2> QED BY <2>4, <2>5
<1>6. FlowOrder'
  <2>1. /\ Before(Held, Mail)' /\ Before(lost, Held)' /\ Before(lost, Mail)'
        /\ Before(Arrived, Held)' /\ Before(Arrived, Mail)'
    BY <1>1, <1>2, <1>3 DEF FlowOrder, Before
  <2>2. \A n \in Threads : Before(InTransit(n), Held)' /\ Before(InTransit(n), Mail)'
    BY <1>1, <1>2, <1>3 DEF FlowOrder, Before
  <2>3. \A n \in Threads : Sends(n)' = Sends(n)
    BY <1>1 DEF Sends
  <2> QED BY <1>1, <1>4, <1>5, <2>1, <2>2, <2>3 DEF FlowOrder
<1>7. FlowPlace'
  BY <1>1, <1>2 DEF FlowPlace
<1> QED BY <1>6, <1>7

(* The oldest messages that have not been sent yet, X, are pushed to an agent thread, *)
(* or dropped because it has ended.                                                   *)
LEMMA FlowPushed ==
  ASSUME TypeOK, FlowOrder, FlowPlace, NEW X \in SUBSET (1 .. MaxForwards),
         UNCHANGED <<received, calls>>, messages' = <<>>,
         \A c : c \in Held \/ c \in Mail <=> c \in X \/ c \in Mail',
         Before(X, Mail'), Rising(mailbox'),
         \/ lost' = lost \cup X /\ outbox' = outbox
         \/ /\ lost' = lost
            /\ \E t \in Threads :
                  /\ InTransit(t)' = InTransit(t) \cup X
                  /\ Before(InTransit(t), X) => Rising(outbox'[t])
                  /\ \A n \in Threads : n # t => outbox'[n] = outbox[n]
                  /\ \A n \in Threads : t < n => Sends(n) = {}
  PROVE  FlowOrder' /\ FlowPlace'
<1>0. messages' \in Seq(1 .. MaxForwards) /\ Len(messages') = 0 /\ Held' = {}
  BY DEF Held, ToSet
<1>1. /\ Arrived' = Arrived
      /\ \A n \in Threads : ReceivedBy(n)' = ReceivedBy(n)
  BY DEF Arrived, ReceivedBy
<1>2. /\ Mail' \subseteq Held \cup Mail /\ X \subseteq Held \cup Mail
      /\ \A d \in lost \cup Arrived : \A c \in X : d < c
      /\ \A n \in Threads : \A d \in InTransit(n) : \A c \in X : d < c
  BY DEF FlowOrder, Before
<1>3. /\ \A d \in lost \cup Arrived : \A c \in Mail' : d < c
      /\ \A n \in Threads : \A d \in InTransit(n) : \A c \in Mail' : d < c
  BY <1>2 DEF FlowOrder, Before
<1>4. ReceivedInOrder'
  BY DEF FlowOrder, ReceivedInOrder
<1>5. \A i, j \in 1 .. Len(messages') : i < j => messages'[i] < messages'[j]
  BY <1>0
<1>6. \A n \in Threads : ReceivedBy(n) \subseteq Arrived
  BY Numbered
<1>7. \A c \in X : /\ c \notin lost /\ c \notin Arrived
                   /\ \A n \in Threads : c \notin InTransit(n)
  <2>1. \A c \in X : c \in Nat /\ ~(c < c)
    OBVIOUS
  <2> QED BY <1>2, <2>1
<1>8. CASE lost' = lost \cup X /\ outbox' = outbox
  <2>1. \A n \in Threads : InTransit(n)' = InTransit(n) /\ outbox'[n] = outbox[n]
    BY <1>8 DEF InTransit
  <2>2. FlowOrder'
    <3>1. /\ Before(Held, Mail)' /\ Before(lost, Held)' /\ Before(lost, Mail)'
          /\ Before(Arrived, Held)' /\ Before(Arrived, Mail)'
      BY <1>0, <1>1, <1>3, <1>8 DEF FlowOrder, Before
    <3>2. \A n \in Threads : Before(InTransit(n), Held)' /\ Before(InTransit(n), Mail)'
      BY <1>0, <1>3, <2>1 DEF Before
    <3>3. \A n \in Threads : Before(ReceivedBy(n), InTransit(n))'
      BY <1>1, <2>1 DEF FlowOrder
    <3>4. \A n \in Threads : Sends(n)' = Sends(n)
      BY <1>1, <2>1 DEF Sends
    <3> QED BY <1>1, <1>4, <1>5, <2>1, <3>1, <3>2, <3>3, <3>4 DEF FlowOrder
  <2>3. FlowPlace'
    <3>1. lost' \cap Arrived' = {}
      BY <1>1, <1>7, <1>8 DEF FlowPlace
    <3>2. \A n \in Threads : InTransit(n)' \cap lost' = {} /\ InTransit(n)' \cap Arrived' = {}
      <4> SUFFICES ASSUME NEW n \in Threads, NEW c \in InTransit(n)'
                   PROVE  c \notin lost' /\ c \notin Arrived'
        OBVIOUS
      <4>1. c \in InTransit(n) /\ c \notin lost /\ c \notin Arrived
        BY <2>1 DEF FlowPlace
      <4> QED BY <1>1, <1>7, <1>8, <4>1
    <3>3. \A m, n \in Threads : m # n => InTransit(m)' \cap InTransit(n)' = {}
      BY <2>1 DEF FlowPlace
    <3>4. \A i, j \in DOMAIN received' : received'[i].id = received'[j].id => i = j
      BY DEF FlowPlace
    <3>5. ASSUME NEW c \in 1 .. MaxForwards
          PROVE  c <= calls'["forward"] <=> \/ c \in lost' \/ c \in Arrived' \/ c \in Held' \/ c \in Mail'
                                            \/ \E n \in Threads : c \in InTransit(n)'
      BY <1>0, <1>1, <1>8, <2>1 DEF FlowPlace
    <3> QED BY <3>1, <3>2, <3>3, <3>4, <3>5 DEF FlowPlace
  <2> QED BY <2>2, <2>3
<1>9. CASE ~(lost' = lost \cup X /\ outbox' = outbox)
  <2>1. PICK t \in Threads : /\ InTransit(t)' = InTransit(t) \cup X
                             /\ Before(InTransit(t), X) => Rising(outbox'[t])
                             /\ \A n \in Threads : n # t => outbox'[n] = outbox[n]
                             /\ \A n \in Threads : t < n => Sends(n) = {}
    BY <1>9
  <2>2. \A n \in Threads : n # t => InTransit(n)' = InTransit(n)
    BY <2>1 DEF InTransit
  <2>3. lost' = lost
    BY <1>9
  <2>4. \A n \in Threads : InTransit(n)' \subseteq InTransit(n) \cup X
    BY <2>1, <2>2
  <2>5. FlowOrder'
    <3>1. /\ Before(Held, Mail)' /\ Before(lost, Held)' /\ Before(lost, Mail)'
          /\ Before(Arrived, Held)' /\ Before(Arrived, Mail)'
      BY <1>0, <1>1, <1>3, <2>3 DEF FlowOrder, Before
    <3>2. \A n \in Threads : Before(InTransit(n), Held)' /\ Before(InTransit(n), Mail)'
      BY <1>0, <1>3, <2>4 DEF Before
    <3>3. \A n \in Threads : Before(ReceivedBy(n), InTransit(n))'
      BY <1>1, <1>2, <1>6, <2>4 DEF FlowOrder, Before
    <3>4. ASSUME NEW m \in Threads, NEW n \in Threads, m < n PROVE Before(Sends(m), Sends(n))'
      <4>1. /\ Before(Sends(m), Sends(n)) /\ Sends(m)' \subseteq Sends(m) \cup X
            /\ Sends(m) \subseteq Arrived \cup InTransit(m)
        BY <1>1, <1>6, <2>4, <3>4 DEF FlowOrder, Sends
      <4>2. CASE n = t
        <5>1. Sends(m)' = Sends(m) /\ Sends(n)' = Sends(n) \cup X
          BY <1>1, <2>1, <2>2, <3>4, <4>2 DEF Sends, Threads
        <5> QED BY <1>2, <4>1, <5>1 DEF Before
      <4>3. CASE n # t
        <5>1. Sends(n)' = Sends(n)
          BY <1>1, <2>2, <4>3 DEF Sends
        <5>2. CASE m = t
          BY <2>1, <3>4, <5>1, <5>2 DEF Before
        <5>3. CASE m # t
          <6>1. Sends(m)' = Sends(m)
            BY <1>1, <2>2, <5>3 DEF Sends
          <6> QED BY <4>1, <5>1, <6>1 DEF Before
        <5> QED BY <5>2, <5>3
      <4> QED BY <4>2, <4>3
    <3>5. Rising(outbox'[t])
      BY <1>2, <2>1 DEF Before
    <3>6. \A n \in Threads : Rising(outbox'[n])
      BY <2>1, <3>5 DEF FlowOrder
    <3> QED BY <1>4, <1>5, <3>1, <3>2, <3>3, <3>4, <3>6 DEF FlowOrder
  <2>6. FlowPlace'
    <3>1. lost' \cap Arrived' = {}
      BY <1>1, <2>3 DEF FlowPlace
    <3>2. \A n \in Threads : InTransit(n)' \cap lost' = {} /\ InTransit(n)' \cap Arrived' = {}
      BY <1>1, <1>7, <2>3, <2>4 DEF FlowPlace
    <3>3. ASSUME NEW m \in Threads, NEW n \in Threads, m # n
          PROVE  InTransit(m)' \cap InTransit(n)' = {}
      <4>1. InTransit(m) \cap InTransit(n) = {}
        BY <3>3 DEF FlowPlace
      <4>2. \A l \in Threads : InTransit(l) \cap X = {}
        BY <1>7
      <4>3. CASE m = t
        BY <2>1, <2>2, <3>3, <4>1, <4>2, <4>3
      <4>4. CASE n = t
        BY <2>1, <2>2, <3>3, <4>1, <4>2, <4>4
      <4> QED BY <2>2, <4>1, <4>3, <4>4
    <3>4. \A i, j \in DOMAIN received' : received'[i].id = received'[j].id => i = j
      BY DEF FlowPlace
    <3>5. ASSUME NEW c \in 1 .. MaxForwards
          PROVE  c <= calls'["forward"] <=> \/ c \in lost' \/ c \in Arrived' \/ c \in Held' \/ c \in Mail'
                                            \/ \E n \in Threads : c \in InTransit(n)'
      <4>1. (\E n \in Threads : c \in InTransit(n)') <=> c \in X \/ \E n \in Threads : c \in InTransit(n)
        BY <2>1, <2>2
      <4> QED BY <1>0, <1>1, <2>3, <4>1 DEF FlowPlace
    <3> QED BY <3>1, <3>2, <3>3, <3>4, <3>5 DEF FlowPlace
  <2> QED BY <2>5, <2>6
<1> QED BY <1>8, <1>9

(* Messages X, on their way through an agent thread, are dropped. *)
LEMMA FlowDropped ==
  ASSUME TypeOK, FlowOrder, FlowPlace, NEW t \in Threads, NEW X,
         UNCHANGED <<received, messages, mailbox, connected>>,
         calls'["forward"] = calls["forward"], InTransit(t) = InTransit(t)' \cup X, InTransit(t)' \cap X = {}, Rising(outbox'[t]),
         lost' = lost \cup X, \A n \in Threads : n # t => outbox'[n] = outbox[n]
  PROVE  FlowOrder' /\ FlowPlace'
<1>1. /\ Arrived' = Arrived /\ Held' = Held /\ Mail' = Mail
      /\ \A n \in Threads : ReceivedBy(n)' = ReceivedBy(n)
  BY DEF Arrived, Held, Mail, ReceivedBy
<1>2. ReceivedInOrder'
  BY DEF FlowOrder, ReceivedInOrder
<1>3. \A n \in Threads : n # t => InTransit(n)' = InTransit(n)
  BY DEF InTransit
<1>4. \A n \in Threads : InTransit(n)' \subseteq InTransit(n) /\ InTransit(n)' \cap X = {}
  BY <1>3 DEF FlowPlace
<1>5. FlowOrder'
  <2>1. /\ Before(Held, Mail)' /\ Before(lost, Held)' /\ Before(lost, Mail)'
        /\ Before(Arrived, Held)' /\ Before(Arrived, Mail)'
    BY <1>1 DEF FlowOrder, Before
  <2>2. \A n \in Threads : Before(InTransit(n), Held)' /\ Before(InTransit(n), Mail)'
    BY <1>1, <1>4 DEF FlowOrder, Before
  <2>3. \A n \in Threads : Before(ReceivedBy(n), InTransit(n))'
    BY <1>1, <1>4 DEF FlowOrder, Before
  <2>4. ASSUME NEW m \in Threads, NEW n \in Threads, m < n PROVE Before(Sends(m), Sends(n))'
    <3>1. Sends(m)' \subseteq Sends(m) /\ Sends(n)' \subseteq Sends(n)
      BY <1>1, <1>4 DEF Sends
    <3> QED BY <2>4, <3>1 DEF FlowOrder, Before
  <2>5. \A n \in Threads : Rising(outbox'[n])
    BY DEF FlowOrder
  <2> QED BY <1>2, <2>1, <2>2, <2>3, <2>4, <2>5 DEF FlowOrder
<1>6. FlowPlace'
  <2>1. lost' \cap Arrived' = {}
    BY <1>1 DEF FlowPlace
  <2>2. \A n \in Threads : InTransit(n)' \cap lost' = {} /\ InTransit(n)' \cap Arrived' = {}
    BY <1>1, <1>4 DEF FlowPlace
  <2>3. \A m, n \in Threads : m # n => InTransit(m)' \cap InTransit(n)' = {}
    BY <1>4 DEF FlowPlace
  <2>4. \A i, j \in DOMAIN received' : received'[i].id = received'[j].id => i = j
    BY DEF FlowPlace
  <2>5. ASSUME NEW c \in 1 .. MaxForwards
        PROVE  c <= calls'["forward"] <=> \/ c \in lost' \/ c \in Arrived' \/ c \in Held' \/ c \in Mail'
                                          \/ \E n \in Threads : c \in InTransit(n)'
    <3>1. (\E n \in Threads : c \in InTransit(n)) <=> c \in X \/ \E n \in Threads : c \in InTransit(n)'
      BY <1>3
    <3> QED BY <1>1, <3>1 DEF FlowPlace
  <2> QED BY <2>1, <2>2, <2>3, <2>4, <2>5 DEF FlowPlace
<1> QED BY <1>5, <1>6

(* The remote server takes the oldest message of an agent thread. *)
LEMMA FlowReceived ==
  ASSUME TypeOK, FlowOrder, FlowPlace, NEW t \in Threads, NEW c \in 1 .. MaxForwards,
         UNCHANGED <<lost, messages, mailbox, connected, calls>>, outbox[t] # <<>>,
         received' = Append(received, [id |-> c, by |-> t]),
         InTransit(t) = InTransit(t)' \cup {c}, Before({c}, InTransit(t)'), Rising(outbox'[t]),
         \A n \in Threads : n # t => outbox'[n] = outbox[n]
  PROVE  FlowOrder' /\ FlowPlace'
<1>0. PICK R, z, r : /\ received \in Seq(R) /\ z \in R /\ z.id = c /\ z.by = t
                     /\ R = [id : 1 .. MaxForwards, by : Threads]
                     /\ r = received' /\ r = Append(received, z)
  <2>1. PICK z : z = [id |-> c, by |-> t]
    OBVIOUS
  <2>2. received \in Seq([id : 1 .. MaxForwards, by : Threads])
    BY DEF TypeOK
  <2>3. z \in [id : 1 .. MaxForwards, by : Threads] /\ z.id = c /\ z.by = t
    BY <2>1
  <2> QED BY <2>1, <2>2, <2>3
<1>1. /\ DOMAIN received = 1 .. Len(received) /\ DOMAIN r = 1 .. (Len(received) + 1)
      /\ Len(received) \in Nat /\ r[Len(received) + 1] = z
      /\ \A i \in 1 .. Len(received) : r[i] = received[i]
  <2>1. /\ r \in Seq(R) /\ Len(r) = Len(received) + 1 /\ r[Len(received) + 1] = z
        /\ \A i \in 1 .. Len(received) : r[i] = received[i]
    BY <1>0, AppendIs
  <2> QED BY <1>0, <2>1
<1>2. /\ Held' = Held /\ Mail' = Mail
  BY DEF Held, Mail
<1>3. \A i \in DOMAIN r : i \in 1 .. Len(received) \/ i = Len(received) + 1
  BY <1>1
<1>4. Arrived' = Arrived \cup {c}
  <2>1. ASSUME NEW x PROVE x \in Arrived' <=> x \in Arrived \/ x = c
    <3>1. x \in Arrived <=> \E i \in 1 .. Len(received) : received[i].id = x
      BY <1>1 DEF Arrived
    <3>2. x \in Arrived' <=> \E i \in DOMAIN r : r[i].id = x
      BY <1>0 DEF Arrived
    <3>3. Len(received) + 1 \in DOMAIN r /\ \A i \in 1 .. Len(received) : i \in DOMAIN r
      BY <1>1
    <3> QED BY <1>0, <1>1, <1>3, <3>1, <3>2, <3>3
  <2> QED BY <2>1
<1>5. \A n \in Threads : ReceivedBy(n)' \subseteq ReceivedBy(n) \cup (IF n = t THEN {c} ELSE {})
  <2> SUFFICES ASSUME NEW n \in Threads, NEW x \in ReceivedBy(n)'
               PROVE  x \in ReceivedBy(n) \/ (n = t /\ x = c)
    OBVIOUS
  <2>1. PICK i \in DOMAIN r : r[i].by = n /\ r[i].id = x
    BY <1>0 DEF ReceivedBy
  <2>2. CASE i \in 1 .. Len(received)
    BY <1>1, <2>1, <2>2 DEF ReceivedBy
  <2>3. CASE i = Len(received) + 1
    BY <1>0, <1>1, <2>1, <2>3
  <2> QED BY <1>3, <2>2, <2>3
<1>6. /\ \A n \in Threads : n # t => InTransit(n)' = InTransit(n)
      /\ c \in InTransit(t) /\ \A n \in Threads : InTransit(n)' \subseteq InTransit(n)
      /\ c \notin InTransit(t)'
  <2>1. \A n \in Threads : n # t => InTransit(n)' = InTransit(n)
    BY DEF InTransit
  <2>2. ~(c < c)
    OBVIOUS
  <2> QED BY <2>1, <2>2 DEF Before
<1>7. \A n \in Threads : Sends(n)' \subseteq Sends(n) /\ ReceivedBy(n)' \subseteq Sends(n)
  <2>1. \A n \in Threads : ReceivedBy(n)' \subseteq ReceivedBy(n) \cup InTransit(n)
    BY <1>5, <1>6
  <2> QED BY <1>6, <2>1 DEF Sends
<1>8. ReceivedInOrder'
  <2>0. ReceivedInOrder' <=> \A i, j \in DOMAIN r :
            r[i].by < r[j].by \/ (r[i].by = r[j].by /\ i < j) => r[i].id < r[j].id
    BY <1>0 DEF ReceivedInOrder
  <2>1. ASSUME NEW i \in DOMAIN r PROVE r[i].by \in Threads /\ r[i].id \in ReceivedBy(r[i].by)'
    <3>1. r \in Seq(R)
      BY <1>0
    <3>2. r[i] \in R
      BY <1>1, <3>1
    <3> QED BY <1>0, <3>2 DEF ReceivedBy
  <2>2. ASSUME NEW i \in DOMAIN r, NEW j \in DOMAIN r, r[i].by < r[j].by PROVE r[i].id < r[j].id
    <3>1. /\ r[i].by \in Threads /\ r[i].id \in Sends(r[i].by)
          /\ r[j].by \in Threads /\ r[j].id \in Sends(r[j].by)
      BY <1>7, <2>1
    <3> QED BY <2>2, <3>1 DEF FlowOrder, Before
  <2>3. ASSUME NEW i \in DOMAIN r, NEW j \in DOMAIN r, i < j, r[i].by = r[j].by
        PROVE  r[i].id < r[j].id
    <3>1. i \in 1 .. Len(received)
      BY <1>1, <2>3
    <3>2. CASE j \in 1 .. Len(received)
      <4>1. i \in DOMAIN received /\ j \in DOMAIN received /\ r[i] = received[i] /\ r[j] = received[j]
        BY <1>1, <3>1, <3>2
      <4> QED BY <2>3, <4>1 DEF FlowOrder, ReceivedInOrder
    <3>3. CASE j = Len(received) + 1
      <4>1. r[j].id = c /\ r[i].by = t
        BY <1>0, <1>1, <2>3, <3>3
      <4>2. r[i].id \in ReceivedBy(t)
        BY <1>1, <3>1, <4>1 DEF ReceivedBy
      <4> QED BY <1>6, <4>1, <4>2 DEF FlowOrder, Before
    <3> QED BY <1>3, <3>2, <3>3
  <2> QED BY <2>0, <2>2, <2>3
<1>9. FlowOrder'
  <2>1. /\ Before(Held, Mail)' /\ Before(lost, Held)' /\ Before(lost, Mail)'
        /\ Before(Arrived, Held)' /\ Before(Arrived, Mail)'
    BY <1>2, <1>4, <1>6 DEF FlowOrder, Before
  <2>2. \A n \in Threads : Before(InTransit(n), Held)' /\ Before(InTransit(n), Mail)'
    BY <1>2, <1>6 DEF FlowOrder, Before
  <2>3. \A n \in Threads : Before(ReceivedBy(n), InTransit(n))'
    BY <1>5, <1>6 DEF FlowOrder, Before
  <2>4. \A m, n \in Threads : m < n => Before(Sends(m), Sends(n))'
    BY <1>7 DEF FlowOrder, Before
  <2>5. \A n \in Threads : Rising(outbox'[n])
    BY DEF FlowOrder
  <2> QED BY <1>8, <2>1, <2>2, <2>3, <2>4, <2>5 DEF FlowOrder
<1>10. FlowPlace'
  <2>0. c \notin lost /\ c \notin Arrived
    BY <1>6 DEF FlowPlace
  <2>1. lost' \cap Arrived' = {}
    BY <1>4, <2>0 DEF FlowPlace
  <2>2. ASSUME NEW n \in Threads
        PROVE  InTransit(n)' \cap lost' = {} /\ InTransit(n)' \cap Arrived' = {}
    <3>1. InTransit(n) \cap lost = {} /\ InTransit(n) \cap Arrived = {}
      BY DEF FlowPlace
    <3>2. c \notin InTransit(n)'
      BY <1>6 DEF FlowPlace
    <3> QED BY <1>4, <1>6, <3>1, <3>2
  <2>3. \A m, n \in Threads : m # n => InTransit(m)' \cap InTransit(n)' = {}
    BY <1>6 DEF FlowPlace
  <2>4. ASSUME NEW i \in DOMAIN r, NEW j \in DOMAIN r, r[i].id = r[j].id PROVE i = j
    <3>1. ASSUME NEW k \in 1 .. Len(received) PROVE r[k].id # c
      BY <1>1, <2>0 DEF Arrived
    <3>2. CASE i \in 1 .. Len(received) /\ j \in 1 .. Len(received)
      BY <1>1, <2>4, <3>2 DEF FlowPlace
    <3> QED BY <1>0, <1>1, <1>3, <2>4, <3>1, <3>2
  <2>5. ASSUME NEW d \in 1 .. MaxForwards
        PROVE  d <= calls'["forward"] <=> \/ d \in lost' \/ d \in Arrived' \/ d \in Held' \/ d \in Mail'
                                          \/ \E n \in Threads : d \in InTransit(n)'
    <3>1. (\E n \in Threads : d \in InTransit(n)) <=> d = c \/ \E n \in Threads : d \in InTransit(n)'
      BY <1>6
    <3> QED BY <1>2, <1>4, <3>1 DEF FlowPlace
  <2> QED BY <1>0, <2>1, <2>2, <2>3, <2>4, <2>5 DEF FlowPlace
<1> QED BY <1>9, <1>10

(* A method is taken from the mailbox. *)
LEMMA MailTaken ==
  ASSUME TypeOK, FlowOrder, NEW o, Take(o)
  PROVE  /\ Mail = Pub1(Head(mailbox)) \cup Mail' /\ Rising(mailbox')
         /\ Before(Pub1(Head(mailbox)), Mail')
         /\ o # "publish" => Mail' = Mail
<1>1. /\ mailbox # <<>> /\ Head(mailbox).op = o /\ mailbox' = Tail(mailbox)
      /\ mailbox \in Seq(MailEntry)
  BY TakeIs DEF TypeOK
<1>2. /\ Published(mailbox) = Pub1(Head(mailbox)) \cup Published(Tail(mailbox))
      /\ Rising(mailbox) => /\ Rising(Tail(mailbox))
                            /\ Before(Pub1(Head(mailbox)), Published(Tail(mailbox)))
  BY <1>1, PubTail
<1>3. Mail = Published(mailbox) /\ Mail' = Published(Tail(mailbox)) /\ Rising(mailbox)
  BY <1>1 DEF Mail, FlowOrder
<1>4. o # "publish" => Pub1(Head(mailbox)) = {}
  BY <1>1 DEF Pub1
<1> QED BY <1>1, <1>2, <1>3, <1>4

(* A method that is no message is posted. *)
LEMMA MailPosted ==
  ASSUME TypeOK, FlowOrder, NEW e \in MailEntry, e.op # "publish", mailbox' = Append(mailbox, e)
  PROVE  Mail' = Mail /\ Rising(mailbox')
<1>1. mailbox \in Seq(MailEntry) /\ Rising(mailbox)
  BY DEF TypeOK, FlowOrder
<1>2. Pub1(e) = {}
  BY DEF Pub1
<1>3. Before(Published(mailbox), Pub1(e))
  BY <1>2 DEF Before
<1>4. Published(Append(mailbox, e)) = Published(mailbox) \cup Pub1(e) /\ Rising(Append(mailbox, e))
  BY <1>1, <1>3, PubAppend
<1> QED BY <1>2, <1>4 DEF Mail

(* Entries are pushed that are no messages. *)
LEMMA OutPushed ==
  ASSUME TypeOK, FlowOrder, NEW n \in Threads \cup {NoThread}, NEW e \in OutEntry,
         e.op # "publish", Push(n, <<e>>)
  PROVE  lost' = lost /\ \A m \in Threads : InTransit(m)' = InTransit(m) /\ Rising(outbox'[m])
<1>0. <<e>> \in Seq(OutEntry)
  OBVIOUS
<1>1. PICK es \in Seq(OutEntry) : es = <<e>>
  BY <1>0
<1>2. Published(es) = {} /\ Rising(es)
  BY <1>1, PubOne DEF Pub1
<1>3. /\ \A m \in Threads : m # n => outbox'[m] = outbox[m]
      /\ n = NoThread \/ phase[n] = "zombie"
            => outbox' = outbox /\ lost' = lost \cup Published(es)
      /\ ~(n = NoThread \/ phase[n] = "zombie")
            => n \in Threads /\ outbox'[n] = outbox[n] \o es /\ lost' = lost
  BY <1>1, PushIs
<1>4. ASSUME NEW m \in Threads, outbox'[m] = outbox[m]
      PROVE  InTransit(m)' = InTransit(m) /\ Rising(outbox'[m])
  BY <1>4 DEF InTransit, FlowOrder
<1>5. CASE n = NoThread \/ phase[n] = "zombie"
  BY <1>2, <1>3, <1>4, <1>5
<1>6. CASE ~(n = NoThread \/ phase[n] = "zombie")
  <2>1. n \in Threads /\ outbox'[n] = outbox[n] \o es /\ lost' = lost
    BY <1>3, <1>6
  <2>2. outbox[n] \in Seq(OutEntry) /\ Rising(outbox[n])
    BY <2>1 DEF TypeOK, FlowOrder
  <2>3. Before(Published(outbox[n]), Published(es))
    BY <1>2 DEF Before
  <2>4. Published(outbox[n] \o es) = Published(outbox[n]) \cup Published(es) /\ Rising(outbox[n] \o es)
    <3>1. PICK ob \in Seq(OutEntry) : ob = outbox[n]
      BY <2>2
    <3>2. /\ Published(ob \o es) = Published(ob) \cup Published(es)
          /\ Rising(ob) /\ Rising(es) /\ Before(Published(ob), Published(es)) => Rising(ob \o es)
      BY PubConcat
    <3> QED BY <1>2, <2>2, <2>3, <3>1, <3>2
  <2>5. InTransit(n)' = InTransit(n) /\ Rising(outbox'[n])
    BY <1>2, <2>1, <2>4 DEF InTransit
  <2> QED BY <1>3, <1>4, <2>1, <2>5
<1> QED BY <1>5, <1>6

(* The first entry of an outbox is sent. *)
LEMMA OutSent ==
  ASSUME TypeOK, FlowOrder, NEW n \in Threads, Sent(n), outbox[n] # <<>>
  PROVE  /\ InTransit(n) = Pub1(Head(outbox[n])) \cup InTransit(n)' /\ Rising(outbox'[n])
         /\ Before(Pub1(Head(outbox[n])), InTransit(n)')
         /\ \A m \in Threads : m # n => /\ outbox'[m] = outbox[m] /\ InTransit(m)' = InTransit(m)
                                        /\ Rising(outbox'[m])
<1>1. outbox[n] \in Seq(OutEntry) /\ Rising(outbox[n])
  BY DEF TypeOK, FlowOrder
<1>2. outbox'[n] = Tail(outbox[n]) /\ \A m \in Threads : m # n => outbox'[m] = outbox[m]
  BY SentIs
<1>3. /\ Published(outbox[n]) = Pub1(Head(outbox[n])) \cup Published(Tail(outbox[n]))
      /\ Rising(outbox[n]) => /\ Rising(Tail(outbox[n]))
                              /\ Before(Pub1(Head(outbox[n])), Published(Tail(outbox[n])))
  BY <1>1, PubTail
<1>4. \A m \in Threads : m # n => InTransit(m)' = InTransit(m) /\ Rising(outbox'[m])
  BY <1>2 DEF InTransit, FlowOrder
<1> QED BY <1>1, <1>2, <1>3, <1>4 DEF InTransit

(* The caller's steps keep the messages where they are, or post one more. *)
LEMMA FlowCaller ==
  ASSUME TypeOK, FlowOrder, FlowPlace, Caller
  PROVE  FlowOrder' /\ FlowPlace'
<1>0. Call = {"start", "stop", "bind", "unbind", "forward", "break"} /\ calls \in [Call -> Nat]
  BY DEF Call, TypeOK
<1>1. ASSUME NEW o \in {"start", "stop", "bind", "unbind"}, NEW a, Entry(o, a) \in MailEntry,
             Post(o, a), Called(o), UNCHANGED <<peering, agents, lost>>
      PROVE  FlowOrder' /\ FlowPlace'
  <2>1. /\ mailbox' = Append(mailbox, Entry(o, a)) /\ calls'[o] = calls[o] + 1
        /\ \A d \in Call : d # o => calls'[d] = calls[d]
    BY <1>0, <1>1, PostIs
  <2>2. calls'["forward"] = calls["forward"]
    BY <1>0, <2>1
  <2>3. Entry(o, a).op # "publish"
    BY EntriesMade
  <2>4. Mail' = Mail /\ Rising(mailbox')
    BY <1>1, <2>1, <2>3, MailPosted
  <2>5. UNCHANGED <<messages, received, lost>> /\ (connected' => connected)
    BY <1>1 DEF peering, agents
  <2>6. \A n \in Threads : InTransit(n)' = InTransit(n) /\ Rising(outbox'[n])
    BY <1>1 DEF agents, InTransit, FlowOrder
  <2> QED BY <2>2, <2>4, <2>5, <2>6, FlowKept
<1>2. CASE PostStart
  <2>1. Entry("start", NoThread) \in MailEntry
    BY EntriesMade
  <2> QED BY <1>1, <1>2, <2>1 DEF PostStart
<1>3. CASE PostStop
  <2>1. Entry("stop", NoThread) \in MailEntry
    BY EntriesMade
  <2> QED BY <1>1, <1>3, <2>1 DEF PostStop
<1>4. ASSUME NEW k \in Keys, PostBind(k) PROVE FlowOrder' /\ FlowPlace'
  <2>1. Entry("bind", k) \in MailEntry
    BY EntriesMade
  <2> QED BY <1>1, <1>4, <2>1 DEF PostBind
<1>5. ASSUME NEW k \in Keys, PostUnbind(k) PROVE FlowOrder' /\ FlowPlace'
  <2>1. Entry("unbind", k) \in MailEntry
    BY EntriesMade
  <2> QED BY <1>1, <1>5, <2>1 DEF PostUnbind
<1>6. CASE PostForward
  <2>1. calls["forward"] \in Nat /\ calls["forward"] < MaxForwards
    BY <1>0, <1>6 DEF PostForward
  <2>2. PICK c \in 1 .. MaxForwards : c = calls["forward"] + 1
    <3>1. calls["forward"] + 1 \in 1 .. MaxForwards
      BY <2>1, PeeringAssumption
    <3> QED BY <3>1
  <2>3. PICK e \in MailEntry : e = Entry("publish", c) /\ Pub1(e) = {c}
    BY EntriesMade DEF Pub1
  <2>4. mailbox' = Append(mailbox, e) /\ calls'["forward"] = c
    <3>1. Post("publish", c) /\ Called("forward") /\ "forward" \in Call /\ Entry("publish", c) \in MailEntry
      BY <1>0, <1>6, <2>2, <2>3 DEF PostForward
    <3>2. /\ mailbox' = Append(mailbox, Entry("publish", c)) /\ calls'["forward"] = calls["forward"] + 1
          /\ \A d \in Call : d # "forward" => calls'[d] = calls[d]
      BY <3>1, PostIs
    <3> QED BY <1>0, <2>2, <2>3, <3>2
  <2>5. /\ Published(Append(mailbox, e)) = Published(mailbox) \cup Pub1(e)
        /\ Rising(mailbox) /\ Before(Published(mailbox), Pub1(e)) => Rising(Append(mailbox, e))
    <3>1. mailbox \in Seq(MailEntry)
      BY DEF TypeOK
    <3> QED BY <3>1, PubAppend
  <2>6. Mail' = Mail \cup {c} /\ (Before(Mail, {c}) => Rising(mailbox'))
    BY <2>3, <2>4, <2>5 DEF Mail, FlowOrder
  <2>7. UNCHANGED <<messages, received, lost, outbox, connected>>
    BY <1>6 DEF PostForward, peering, agents
  <2> QED BY <2>2, <2>4, <2>6, <2>7, FlowPosted
<1> QED BY <1>2, <1>3, <1>4, <1>5, <1>6 DEF Caller

(* Entries with the messages X are pushed to the peering's agent thread. *)
LEMMA PushMessages ==
  ASSUME TypeOK, FlowOrder, Latest, NEW es \in Seq(OutEntry), Rising(es), Push(thread, es)
  PROVE  \/ lost' = lost \cup Published(es) /\ outbox' = outbox
         \/ /\ lost' = lost
            /\ \E t \in Threads :
                  /\ InTransit(t)' = InTransit(t) \cup Published(es)
                  /\ Before(InTransit(t), Published(es)) => Rising(outbox'[t])
                  /\ \A n \in Threads : n # t => outbox'[n] = outbox[n]
                  /\ \A n \in Threads : t < n => Sends(n) = {}
<1>1. thread \in Threads \cup {NoThread} /\ outbox \in [Threads -> Seq(OutEntry)]
  BY DEF TypeOK
<1>2. /\ \A m \in Threads : m # thread => outbox'[m] = outbox[m]
      /\ thread = NoThread \/ phase[thread] = "zombie"
            => outbox' = outbox /\ lost' = lost \cup Published(es)
      /\ ~(thread = NoThread \/ phase[thread] = "zombie")
            => thread \in Threads /\ outbox'[thread] = outbox[thread] \o es /\ lost' = lost
  BY <1>1, PushIs
<1>3. CASE ~(thread = NoThread \/ phase[thread] = "zombie")
  <2>1. PICK t \in Threads : t = thread
    BY <1>2, <1>3
  <2>2. outbox'[t] = outbox[t] \o es /\ outbox[t] \in Seq(OutEntry) /\ Rising(outbox[t])
    BY <1>1, <1>2, <1>3, <2>1 DEF FlowOrder
  <2>3. /\ Published(outbox[t] \o es) = Published(outbox[t]) \cup Published(es)
        /\ Rising(outbox[t]) /\ Rising(es) /\ Before(Published(outbox[t]), Published(es))
              => Rising(outbox[t] \o es)
    BY <2>2, PubConcat
  <2>4. /\ InTransit(t)' = InTransit(t) \cup Published(es)
        /\ Before(InTransit(t), Published(es)) => Rising(outbox'[t])
    BY <2>2, <2>3 DEF InTransit
  <2>5. ASSUME NEW n \in Threads, t < n PROVE Sends(n) = {}
    <3>1. phase[n] = "none"
      BY <2>1, <2>5 DEF Latest
    <3>2. outbox[n] = <<>> /\ ReceivedBy(n) = {}
      BY <3>1 DEF Latest
    <3> QED BY <3>2 DEF Sends, InTransit, Published
  <2> QED BY <1>2, <1>3, <2>1, <2>4, <2>5
<1> QED BY <1>2, <1>3

(* The handlers keep the messages where they are, hold the oldest or push the oldest. *)
LEMMA FlowHandle ==
  ASSUME TypeOK, FlowOrder, FlowPlace, Latest, Handle
  PROVE  FlowOrder' /\ FlowPlace'
<1>0. thread \in Threads \cup {NoThread} /\ messages \in Seq(1 .. MaxForwards)
  BY DEF TypeOK
<1>1. ASSUME NEW o, o # "publish", Take(o), UNCHANGED <<messages, received, lost, calls>>,
             connected' => connected,
             \A n \in Threads : InTransit(n)' = InTransit(n) /\ Rising(outbox'[n])
      PROVE  FlowOrder' /\ FlowPlace'
  <2>1. Mail' = Mail /\ Rising(mailbox')
    BY <1>1, MailTaken
  <2> QED BY <1>1, <2>1, FlowKept
<1>2. ASSUME outbox' = outbox PROVE \A n \in Threads : InTransit(n)' = InTransit(n) /\ Rising(outbox'[n])
  BY <1>2 DEF InTransit, FlowOrder
<1>3. CASE HandleStart
  BY <1>1, <1>2, <1>3 DEF HandleStart, agents
<1>4. CASE HandleStop
  BY <1>1, <1>2, <1>4 DEF HandleStop, agents
<1>5. ASSUME NEW o \in {"bind", "unbind"}, NEW k, k = Head(mailbox).arg, Take(o),
             UNCHANGED <<messages, received, calls, connected>>,
             Push(thread, <<Entry(o, k)>>) \/ UNCHANGED <<outbox, lost>>
      PROVE  FlowOrder' /\ FlowPlace'
  <2>1. Head(mailbox) \in MailEntry /\ Head(mailbox).op = o
    BY <1>5, TakeIs
  <2>2. k \in Keys
    BY <1>5, <2>1, MailEntryIs
  <2>3. PICK e \in OutEntry : e = Entry(o, k) /\ e.op # "publish"
    BY <2>2, EntriesMade
  <2>4. CASE Push(thread, <<e>>)
    <3>1. lost' = lost /\ \A m \in Threads : InTransit(m)' = InTransit(m) /\ Rising(outbox'[m])
      BY <1>0, <2>3, <2>4, OutPushed
    <3> QED BY <1>1, <1>5, <3>1
  <2>5. CASE UNCHANGED <<outbox, lost>>
    BY <1>1, <1>2, <1>5, <2>5
  <2> QED BY <1>5, <2>3, <2>4, <2>5
<1>6. CASE HandleBind
  <2>1. PICK k : k = Head(mailbox).arg
    OBVIOUS
  <2>2. /\ Take("bind") /\ UNCHANGED <<messages, received, calls, connected>>
        /\ Push(thread, <<Entry("bind", k)>>) \/ UNCHANGED <<outbox, lost>>
    BY <1>6, <2>1 DEF HandleBind, PushBind
  <2> QED BY <1>5, <2>1, <2>2
<1>7. CASE HandleUnbind
  <2>1. PICK k : k = Head(mailbox).arg
    OBVIOUS
  <2>2. /\ Take("unbind") /\ UNCHANGED <<messages, received, calls, connected>>
        /\ Push(thread, <<Entry("unbind", k)>>) \/ UNCHANGED <<outbox, lost>>
    BY <1>7, <2>1 DEF HandleUnbind
  <2> QED BY <1>5, <2>1, <2>2
<1>8. CASE HandleConnectionOpenOk
  <2>1. PICK e \in OutEntry : e = Entry("channel_open", NoThread) /\ e.op # "publish"
    BY EntriesMade
  <2>2. Push(thread, <<e>>)
    BY <1>8, <2>1 DEF HandleConnectionOpenOk
  <2>3. lost' = lost /\ \A m \in Threads : InTransit(m)' = InTransit(m) /\ Rising(outbox'[m])
    BY <1>0, <2>1, <2>2, OutPushed
  <2>4. Take("connection_open_ok") /\ UNCHANGED <<messages, received, calls, connected>>
    BY <1>8 DEF HandleConnectionOpenOk, peering
  <2> QED BY <1>1, <2>3, <2>4
<1>9. CASE HandleForward
  <2>1. Take("publish") /\ UNCHANGED <<received, calls, connected>>
    BY <1>9 DEF HandleForward
  <2>2. Head(mailbox) \in MailEntry /\ Head(mailbox).op = "publish"
    BY <2>1, TakeIs
  <2>3. PICK c \in 1 .. MaxForwards : c = Head(mailbox).arg
    BY <2>2, MailEntryIs
  <2>4. Pub1(Head(mailbox)) = {c}
    BY <2>2, <2>3 DEF Pub1
  <2>5. Mail = {c} \cup Mail' /\ Rising(mailbox') /\ Before({c}, Mail')
    BY <2>1, <2>4, MailTaken
  <2>6. CASE connected
    <3>1. messages = <<>> /\ messages' = messages /\ Push(thread, <<Entry("publish", c)>>)
      BY <1>9, <2>3, <2>6 DEF HandleForward, HoldOrPush, FlowOrder
    <3>2. PICK e \in OutEntry : e = Entry("publish", c)
      BY EntriesMade
    <3>3. Pub1(e) = {c}
      BY <3>2, EntriesMade DEF Pub1
    <3>4. <<e>> \in Seq(OutEntry)
      OBVIOUS
    <3>5. PICK es \in Seq(OutEntry) : es = <<e>>
      BY <3>4
    <3>6. Published(es) = {c} /\ Rising(es) /\ Push(thread, es)
      BY <3>1, <3>2, <3>3, <3>5, PubOne
    <3>7. \/ lost' = lost \cup {c} /\ outbox' = outbox
          \/ /\ lost' = lost
             /\ \E t \in Threads :
                  /\ InTransit(t)' = InTransit(t) \cup {c}
                  /\ Before(InTransit(t), {c}) => Rising(outbox'[t])
                  /\ \A n \in Threads : n # t => outbox'[n] = outbox[n]
                  /\ \A n \in Threads : t < n => Sends(n) = {}
      BY <3>6, PushMessages
    <3>8. Held = {}
      BY <3>1 DEF Held, ToSet
    <3>9. PICK X \in SUBSET (1 .. MaxForwards) : X = {c}
      OBVIOUS
    <3>10. \A d : d \in Held \/ d \in Mail <=> d \in X \/ d \in Mail'
      BY <2>5, <3>8, <3>9
    <3>11. messages' = <<>> /\ UNCHANGED <<received, calls>>
      BY <2>1, <3>1
    <3> QED BY <2>5, <3>7, <3>9, <3>10, <3>11, FlowPushed
  <2>7. CASE ~connected
    <3>1. messages' = Append(messages, c) /\ UNCHANGED <<outbox, lost>>
      BY <1>9, <2>3, <2>7 DEF HandleForward, HoldOrPush
    <3>2. UNCHANGED <<received, lost, outbox, connected, calls>>
      BY <2>1, <3>1
    <3>3. Mail = Mail' \cup {c}
      BY <2>5
    <3> QED BY <2>5, <2>7, <3>1, <3>2, <3>3, FlowHeld
  <2> QED BY <2>6, <2>7
<1>10. CASE HandleChannelOpenOk
  <2>1. Take("channel_open_ok") /\ UNCHANGED <<received, calls>>
    BY <1>10 DEF HandleChannelOpenOk
  <2>2. CASE connected
    BY <1>1, <1>2, <1>10, <2>1, <2>2 DEF HandleChannelOpenOk
  <2>3. CASE ~connected
    <3>1. messages' = <<>> /\ Push(thread, Replay)
      BY <1>10, <2>3 DEF HandleChannelOpenOk
    <3>2. Replay \in Seq(OutEntry) /\ Published(Replay) = Held /\ Rising(Replay)
      <4>1. \A i, j \in 1 .. Len(messages) : i < j => messages[i] < messages[j]
        BY DEF FlowOrder
      <4> QED BY <4>1, ReplayIs, PubReplay
    <3>3. PICK X \in SUBSET (1 .. MaxForwards) : X = Held
      BY Numbered
    <3>4. \/ lost' = lost \cup X /\ outbox' = outbox
          \/ /\ lost' = lost
             /\ \E t \in Threads :
                  /\ InTransit(t)' = InTransit(t) \cup X
                  /\ Before(InTransit(t), X) => Rising(outbox'[t])
                  /\ \A n \in Threads : n # t => outbox'[n] = outbox[n]
                  /\ \A n \in Threads : t < n => Sends(n) = {}
      BY <3>1, <3>2, <3>3, PushMessages
    <3>5. Mail' = Mail /\ Rising(mailbox')
      BY <2>1, MailTaken
    <3>6. Before(X, Mail') /\ \A d : d \in Held \/ d \in Mail <=> d \in X \/ d \in Mail'
      BY <3>3, <3>5 DEF FlowOrder
    <3> QED BY <2>1, <3>1, <3>4, <3>5, <3>6, FlowPushed
  <2> QED BY <2>2, <2>3
<1> QED BY <1>3, <1>4, <1>6, <1>7, <1>8, <1>9, <1>10 DEF Handle

(* The monitor moves no message. *)
LEMMA FlowMonitor ==
  ASSUME TypeOK, FlowOrder, FlowPlace, Monitor
  PROVE  FlowOrder' /\ FlowPlace'
<1>1. Mail' = Mail /\ Rising(mailbox') /\ UNCHANGED <<messages, received, calls>>
  BY DEF Monitor, MonitorTerminate, MonitorConnect, Mail, FlowOrder
<1>2. connected' => connected
  BY DEF Monitor, MonitorTerminate, MonitorConnect, Disconnected
<1>3. lost' = lost /\ \A n \in Threads : InTransit(n)' = InTransit(n) /\ Rising(outbox'[n])
  <2>1. CASE MonitorTerminate
    <3>1. PICK e \in OutEntry : e = Entry("close", NoThread) /\ e.op # "publish"
      BY EntriesMade
    <3>2. Push(thread, <<e>>) /\ thread \in Threads \cup {NoThread}
      BY <2>1, <3>1 DEF MonitorTerminate, TypeOK
    <3> QED BY <3>1, <3>2, OutPushed
  <2>2. CASE MonitorConnect
    BY <2>2 DEF MonitorConnect, InTransit, FlowOrder
  <2> QED BY <2>1, <2>2 DEF Monitor
<1> QED BY <1>1, <1>2, <1>3, FlowKept

(* An agent drops messages, or passes the oldest of its own on to the remote server. *)
LEMMA FlowAgent ==
  ASSUME TypeOK, FlowOrder, FlowPlace, NEW n \in Threads,
         Agent(n) \/ Break(n) \/ RemoteEnds(n)
  PROVE  FlowOrder' /\ FlowPlace'
<1>1. ASSUME UNCHANGED <<messages, received, lost, connected, calls>>, Mail' = Mail, Rising(mailbox'),
             \A m \in Threads : InTransit(m)' = InTransit(m) /\ Rising(outbox'[m])
      PROVE  FlowOrder' /\ FlowPlace'
  BY <1>1, FlowKept
<1>2. ASSUME outbox' = outbox PROVE \A m \in Threads : InTransit(m)' = InTransit(m) /\ Rising(outbox'[m])
  BY <1>2 DEF InTransit, FlowOrder
<1>3. ASSUME mailbox' = mailbox PROVE Mail' = Mail /\ Rising(mailbox')
  BY <1>3 DEF Mail, FlowOrder
<1>4. CASE AgentOpens(n) \/ AgentChannelOpens(n)
  <2>1. PICK o \in {"connection_open_ok", "channel_open_ok"} : mailbox' = Append(mailbox, Entry(o, n))
    BY <1>4 DEF AgentOpens, AgentChannelOpens
  <2>2. PICK e \in MailEntry : e = Entry(o, n) /\ e.op # "publish"
    BY EntriesMade
  <2>3. Mail' = Mail /\ Rising(mailbox')
    BY <2>1, <2>2, MailPosted
  <2>4. UNCHANGED <<messages, received, lost, connected, calls>> /\ outbox' = outbox
    BY <1>4 DEF AgentOpens, AgentChannelOpens, peering
  <2> QED BY <1>1, <1>2, <2>3, <2>4
<1>5. CASE AgentActive(n) \/ AgentStuck(n)
  BY <1>1, <1>2, <1>3, <1>5 DEF AgentActive, AgentStuck, peering
<1>6. CASE Quits(n)
  <2>1. /\ UNCHANGED <<received, messages, mailbox, connected>> /\ calls'["forward"] = calls["forward"]
        /\ \A m \in Threads : m # n => outbox'[m] = outbox[m]
        /\ \/ outbox' = outbox /\ lost' = lost
           \/ outbox'[n] = <<>> /\ lost' = lost \cup Published(outbox[n])
    BY <1>6, QuitIs DEF peering, Call
  <2>2. CASE outbox' = outbox /\ lost' = lost
    BY <1>2, <1>3, <2>1, <2>2, FlowKept
  <2>3. CASE outbox'[n] = <<>> /\ lost' = lost \cup Published(outbox[n])
    <3>1. InTransit(n)' = {} /\ Rising(outbox'[n])
      BY <2>3 DEF InTransit, Published, Rising
    <3>2. PICK X : X = InTransit(n)
      OBVIOUS
    <3>3. lost' = lost \cup X /\ InTransit(n) = InTransit(n)' \cup X /\ InTransit(n)' \cap X = {}
      BY <2>3, <3>1, <3>2 DEF InTransit
    <3> QED BY <2>1, <3>1, <3>3, FlowDropped
  <2> QED BY <2>1, <2>2, <2>3
<1>7. CASE AgentOpensChannel(n)
  <2>1. Sent(n) /\ outbox[n] # <<>> /\ Head(outbox[n]).op = "channel_open"
    BY <1>7 DEF AgentOpensChannel
  <2>2. Pub1(Head(outbox[n])) = {}
    BY <2>1 DEF Pub1
  <2>3. \A m \in Threads : InTransit(m)' = InTransit(m) /\ Rising(outbox'[m])
    BY <2>1, <2>2, OutSent
  <2>4. UNCHANGED <<messages, received, lost, connected, calls>> /\ mailbox' = mailbox
    BY <1>7 DEF AgentOpensChannel, peering
  <2> QED BY <1>1, <1>3, <2>3, <2>4
<1>8. CASE AgentDiscards(n)
  <2>1. Sent(n) /\ outbox[n] # <<>> /\ lost' = lost \cup Published(<<Head(outbox[n])>>)
    BY <1>8 DEF AgentDiscards
  <2>2. PICK X : X = Pub1(Head(outbox[n]))
    OBVIOUS
  <2>3. lost' = lost \cup X
    BY <2>1, <2>2, PubOne
  <2>4. /\ InTransit(n) = X \cup InTransit(n)' /\ Rising(outbox'[n]) /\ Before(X, InTransit(n)')
        /\ \A m \in Threads : m # n => outbox'[m] = outbox[m]
    BY <2>1, <2>2, OutSent
  <2>5. InTransit(n)' \cap X = {}
    <3>1. \A c \in X : ~(c < c)
      BY <2>4, Numbered
    <3> QED BY <2>4, <3>1 DEF Before
  <2>6. UNCHANGED <<received, messages, mailbox, connected, calls>>
    BY <1>8 DEF AgentDiscards, peering
  <2>7. InTransit(n) = InTransit(n)' \cup X
    BY <2>4
  <2> QED BY <2>3, <2>4, <2>5, <2>6, <2>7, FlowDropped
<1>9. CASE RemoteHandles(n)
  <2>1. /\ Sent(n) /\ outbox[n] # <<>>
        /\ UNCHANGED <<messages, lost, connected, calls>> /\ mailbox' = mailbox
    BY <1>9 DEF RemoteHandles, peering
  <2>2. PICK e \in OutEntry : e = Head(outbox[n])
    BY <2>1, SentIs
  <2>3. /\ InTransit(n) = Pub1(e) \cup InTransit(n)' /\ Rising(outbox'[n])
        /\ Before(Pub1(e), InTransit(n)')
        /\ \A m \in Threads : m # n => /\ outbox'[m] = outbox[m] /\ InTransit(m)' = InTransit(m)
                                       /\ Rising(outbox'[m])
    BY <2>1, <2>2, OutSent
  <2>4. CASE e.op # "publish"
    <3>1. Pub1(e) = {}
      BY <2>4 DEF Pub1
    <3>2. received' = received
      BY <1>9, <2>2, <2>4 DEF RemoteHandles
    <3>3. \A m \in Threads : InTransit(m)' = InTransit(m) /\ Rising(outbox'[m])
      BY <2>3, <3>1
    <3> QED BY <1>1, <1>3, <2>1, <3>2, <3>3
  <2>5. CASE e.op = "publish"
    <3>1. PICK c \in 1 .. MaxForwards : c = e.arg
      BY <2>5, OutEntryIs
    <3>2. Pub1(e) = {c}
      BY <2>5, <3>1 DEF Pub1
    <3>3. received' = Append(received, [id |-> c, by |-> n])
      BY <1>9, <2>2, <2>5, <3>1 DEF RemoteHandles
    <3>4. InTransit(n) = InTransit(n)' \cup {c} /\ Before({c}, InTransit(n)')
      BY <2>3, <3>2
    <3>5. UNCHANGED <<lost, messages, mailbox, connected, calls>>
      BY <2>1
    <3> QED BY <2>1, <2>3, <3>3, <3>4, <3>5, FlowReceived
  <2> QED BY <2>4, <2>5
<1> QED BY <1>4, <1>5, <1>6, <1>7, <1>8, <1>9 DEF Agent, Quits

(* What the mailbox holds, after a method was taken or posted. *)
LEMMA MailAfter ==
  ASSUME TypeOK, NEW W, \A i \in 1 .. Len(mailbox) : mailbox[i] \in W,
         \/ mailbox # <<>> /\ mailbox' = Tail(mailbox)
         \/ mailbox' = mailbox
         \/ \E e \in MailEntry : mailbox' = Append(mailbox, e) /\ e \in W
  PROVE  \A i \in 1 .. Len(mailbox') : mailbox'[i] \in W
<1>1. mailbox \in Seq(MailEntry)
  BY DEF TypeOK
<1>2. PICK m : m = mailbox'
  OBVIOUS
<1>3. CASE mailbox # <<>> /\ mailbox' = Tail(mailbox)
  <2>1. /\ Len(m) = Len(mailbox) - 1 /\ Len(mailbox) \in Nat
        /\ \A i \in 1 .. (Len(mailbox) - 1) : m[i] = mailbox[i + 1]
    BY <1>1, <1>2, <1>3, TailIs
  <2>2. ASSUME NEW i \in 1 .. Len(m) PROVE m[i] \in W
    <3>1. i + 1 \in 1 .. Len(mailbox) /\ m[i] = mailbox[i + 1]
      BY <2>1
    <3> QED BY <3>1
  <2> QED BY <1>2, <2>2
<1>4. CASE mailbox' = mailbox
  BY <1>4
<1>5. ASSUME NEW e \in MailEntry, mailbox' = Append(mailbox, e), e \in W
      PROVE  \A i \in 1 .. Len(m) : m[i] \in W
  <2>1. /\ Len(m) = Len(mailbox) + 1 /\ Len(mailbox) \in Nat /\ m[Len(mailbox) + 1] = e
        /\ \A i \in 1 .. Len(mailbox) : m[i] = mailbox[i]
    BY <1>1, <1>2, <1>5, AppendIs
  <2>2. ASSUME NEW i \in 1 .. Len(m) PROVE m[i] \in W
    <3>1. i \in 1 .. Len(mailbox) \/ i = Len(mailbox) + 1
      BY <2>1
    <3>2. CASE i \in 1 .. Len(mailbox)
      BY <2>1, <3>2
    <3>3. CASE i = Len(mailbox) + 1
      BY <1>5, <2>1, <3>3
    <3> QED BY <3>1, <3>2, <3>3
  <2> QED BY <2>2
<1> QED BY <1>2, <1>3, <1>4, <1>5

(* What every step does to the mailbox. *)
LEMMA MailMoves ==
  ASSUME TypeOK, Next
  PROVE  \/ mailbox # <<>> /\ mailbox' = Tail(mailbox) /\ Handle
         \/ mailbox' = mailbox
         \/ \E e \in MailEntry :
              /\ mailbox' = Append(mailbox, e)
              /\ \/ e.op \notin OkOp /\ UNCHANGED <<peering, agents, lost, stale>> /\ calls'["break"] = calls["break"]
                    /\ calls'["stop"] = IF e.op = "stop" THEN calls["stop"] + 1 ELSE calls["stop"]
                 \/ \E n \in Threads : /\ e = Entry("connection_open_ok", n) /\ AgentOpens(n)
                 \/ \E n \in Threads : /\ e = Entry("channel_open_ok", n) /\ AgentChannelOpens(n)
<1>0. Call = {"start", "stop", "bind", "unbind", "forward", "break"} /\ calls \in [Call -> Nat]
  BY DEF Call, TypeOK
<1>1. ASSUME NEW o \in {"start", "stop", "bind", "unbind", "publish"}, NEW a, NEW c \in Call,
             Entry(o, a) \in MailEntry, Post(o, a), Called(c), c = "stop" <=> o = "stop",
             c # "break", UNCHANGED <<peering, agents, lost, stale>>
      PROVE  \E e \in MailEntry :
               /\ mailbox' = Append(mailbox, e) /\ e.op \notin OkOp /\ UNCHANGED <<peering, agents, lost, stale>>
               /\ calls'["break"] = calls["break"]
               /\ calls'["stop"] = IF e.op = "stop" THEN calls["stop"] + 1 ELSE calls["stop"]
  <2>1. PICK e \in MailEntry : e = Entry(o, a) /\ e.op = o
    BY <1>1, EntriesMade
  <2>2. /\ mailbox' = Append(mailbox, Entry(o, a)) /\ calls'[c] = calls[c] + 1
        /\ \A d \in Call : d # c => calls'[d] = calls[d]
    BY <1>1, PostIs
  <2>3. e.op \notin OkOp
    BY <2>1 DEF OkOp
  <2>4. calls'["break"] = calls["break"]
    BY <1>0, <1>1, <2>2
  <2>5. calls'["stop"] = IF e.op = "stop" THEN calls["stop"] + 1 ELSE calls["stop"]
    BY <1>0, <1>1, <2>1, <2>2
  <2> QED BY <1>1, <2>1, <2>2, <2>3, <2>4, <2>5
<1>2. CASE PostStart
  <2>1. Entry("start", NoThread) \in MailEntry /\ "start" \in Call
    BY <1>0, EntriesMade
  <2> QED BY <1>1, <1>2, <2>1 DEF PostStart
<1>3. CASE PostStop
  <2>1. Entry("stop", NoThread) \in MailEntry /\ "stop" \in Call
    BY <1>0, EntriesMade
  <2> QED BY <1>1, <1>3, <2>1 DEF PostStop
<1>4. ASSUME NEW k \in Keys, PostBind(k)
      PROVE  \E e \in MailEntry :
               /\ mailbox' = Append(mailbox, e) /\ e.op \notin OkOp /\ UNCHANGED <<peering, agents, lost, stale>>
               /\ calls'["break"] = calls["break"]
               /\ calls'["stop"] = IF e.op = "stop" THEN calls["stop"] + 1 ELSE calls["stop"]
  <2>1. Entry("bind", k) \in MailEntry /\ "bind" \in Call
    BY <1>0, EntriesMade
  <2> QED BY <1>1, <1>4, <2>1 DEF PostBind
<1>5. ASSUME NEW k \in Keys, PostUnbind(k)
      PROVE  \E e \in MailEntry :
               /\ mailbox' = Append(mailbox, e) /\ e.op \notin OkOp /\ UNCHANGED <<peering, agents, lost, stale>>
               /\ calls'["break"] = calls["break"]
               /\ calls'["stop"] = IF e.op = "stop" THEN calls["stop"] + 1 ELSE calls["stop"]
  <2>1. Entry("unbind", k) \in MailEntry /\ "unbind" \in Call
    BY <1>0, EntriesMade
  <2> QED BY <1>1, <1>5, <2>1 DEF PostUnbind
<1>6. CASE PostForward
  <2>1. PICK c \in 1 .. MaxForwards : c = calls["forward"] + 1
    <3>1. calls["forward"] \in Nat /\ calls["forward"] < MaxForwards
      BY <1>0, <1>6 DEF PostForward
    <3>2. calls["forward"] + 1 \in 1 .. MaxForwards
      BY <3>1, PeeringAssumption
    <3> QED BY <3>2
  <2>2. Entry("publish", c) \in MailEntry /\ "forward" \in Call
    BY <1>0, EntriesMade
  <2> QED BY <1>1, <1>6, <2>1, <2>2 DEF PostForward
<1>7. CASE Caller
  BY <1>2, <1>3, <1>4, <1>5, <1>6, <1>7 DEF Caller
<1>8. ASSUME Handle PROVE mailbox # <<>> /\ mailbox' = Tail(mailbox)
  BY <1>8 DEF Handle, HandleStart, HandleStop, HandleBind, HandleUnbind, HandleForward,
              HandleConnectionOpenOk, HandleChannelOpenOk, Take
<1>9. ASSUME Monitor PROVE mailbox' = mailbox
  BY <1>9 DEF Monitor, MonitorTerminate, MonitorConnect
<1>10. ASSUME NEW n \in Threads, AgentOpens(n)
       PROVE  \E e \in MailEntry : mailbox' = Append(mailbox, e) /\ e = Entry("connection_open_ok", n)
  BY <1>10, EntriesMade DEF AgentOpens
<1>11. ASSUME NEW n \in Threads, AgentChannelOpens(n)
       PROVE  \E e \in MailEntry : mailbox' = Append(mailbox, e) /\ e = Entry("channel_open_ok", n)
  BY <1>11, EntriesMade DEF AgentChannelOpens
<1>12. ASSUME NEW n \in Threads, Agent(n) \/ Break(n) \/ RemoteEnds(n), ~AgentOpens(n),
              ~AgentChannelOpens(n)
       PROVE  mailbox' = mailbox
  BY <1>12 DEF Agent, Break, RemoteEnds, AgentActive, AgentStuck, AgentCloses, AgentOpensChannel, AgentDiscards,
               RemoteHandles
<1>13. CASE \E n \in Threads : Agent(n) \/ Break(n) \/ RemoteEnds(n)
  BY <1>10, <1>11, <1>12, <1>13
<1> QED BY <1>7, <1>8, <1>9, <1>13 DEF Next

(* What a step of the peering pushes goes to its current agent thread. *)
LEMMA HandlePushes ==
  ASSUME TypeOK, Handle
  PROVE  /\ UNCHANGED <<phase, declared, remote, received, thread, calls>>
         /\ outbox' = outbox \/ \E es \in Seq(OutEntry) : Push(thread, es)
<1>1. CASE HandleStart \/ HandleStop
  BY <1>1 DEF HandleStart, HandleStop, agents
<1>2. ASSUME NEW o \in {"bind", "unbind"}, Take(o),
             Push(thread, <<Entry(o, Head(mailbox).arg)>>) \/ outbox' = outbox
      PROVE  outbox' = outbox \/ \E es \in Seq(OutEntry) : Push(thread, es)
  <2>1. Head(mailbox) \in MailEntry /\ Head(mailbox).op = o
    BY <1>2, TakeIs
  <2>2. PICK k \in Keys : k = Head(mailbox).arg
    BY <2>1, MailEntryIs
  <2>3. Entry(o, k) \in OutEntry
    BY EntriesMade
  <2>4. <<Entry(o, k)>> \in Seq(OutEntry)
    BY <2>3
  <2> QED BY <1>2, <2>2, <2>4
<1>3. CASE HandleBind
  <2>1. Take("bind") /\ (Push(thread, <<Entry("bind", Head(mailbox).arg)>>) \/ outbox' = outbox)
    BY <1>3 DEF HandleBind, PushBind
  <2> QED BY <1>2, <1>3, <2>1 DEF HandleBind
<1>4. CASE HandleUnbind
  <2>1. Take("unbind") /\ (Push(thread, <<Entry("unbind", Head(mailbox).arg)>>) \/ outbox' = outbox)
    BY <1>4 DEF HandleUnbind
  <2> QED BY <1>2, <1>4, <2>1 DEF HandleUnbind
<1>5. CASE HandleForward
  <2>1. Take("publish") /\ (Push(thread, <<Entry("publish", Head(mailbox).arg)>>) \/ outbox' = outbox)
    BY <1>5 DEF HandleForward, HoldOrPush
  <2>2. Head(mailbox) \in MailEntry /\ Head(mailbox).op = "publish"
    BY <2>1, TakeIs
  <2>3. PICK c \in 1 .. MaxForwards : c = Head(mailbox).arg
    BY <2>2, MailEntryIs
  <2>4. Entry("publish", c) \in OutEntry
    BY EntriesMade
  <2>5. <<Entry("publish", c)>> \in Seq(OutEntry)
    BY <2>4
  <2> QED BY <1>5, <2>1, <2>3, <2>5 DEF HandleForward
<1>6. CASE HandleConnectionOpenOk
  <2>1. <<Entry("channel_open", NoThread)>> \in Seq(OutEntry)
    BY EntriesMade
  <2> QED BY <1>6, <2>1 DEF HandleConnectionOpenOk, peering
<1>7. CASE HandleChannelOpenOk
  BY <1>7, ReplayIs DEF HandleChannelOpenOk
<1> QED BY <1>1, <1>3, <1>4, <1>5, <1>6, <1>7 DEF Handle

(* A step gives nothing to send to another agent thread than the current one. *)
LEMMA OutMoves ==
  ASSUME TypeOK, Next, NEW m \in Threads, m # thread, outbox[m] = <<>>
  PROVE  outbox'[m] = <<>>
<1>0. thread \in Threads \cup {NoThread} /\ outbox \in [Threads -> Seq(OutEntry)]
  BY DEF TypeOK
<1>1. ASSUME NEW es \in Seq(OutEntry), Push(thread, es) PROVE outbox'[m] = <<>>
  BY <1>0, <1>1, PushIs
<1>2. CASE Caller
  BY <1>2 DEF Caller, PostStart, PostStop, PostForward, PostBind, PostUnbind, agents
<1>3. CASE Handle
  BY <1>1, <1>3, HandlePushes
<1>4. CASE MonitorTerminate
  <2>1. <<Entry("close", NoThread)>> \in Seq(OutEntry)
    BY EntriesMade
  <2> QED BY <1>1, <1>4, <2>1 DEF MonitorTerminate
<1>5. CASE MonitorConnect
  BY <1>5 DEF MonitorConnect
<1>6. ASSUME NEW n \in Threads, AgentOpens(n) \/ AgentActive(n) \/ AgentChannelOpens(n) \/ AgentStuck(n)
      PROVE  outbox'[m] = <<>>
  BY <1>6 DEF AgentOpens, AgentActive, AgentChannelOpens, AgentStuck
<1>7. ASSUME NEW n \in Threads, Quits(n) PROVE outbox'[m] = <<>>
  <2>1. /\ outbox' = outbox \/ outbox'[n] = <<>>
        /\ \A l \in Threads : l # n => outbox'[l] = outbox[l]
    BY <1>7, QuitIs
  <2> QED BY <2>1
<1>8. ASSUME NEW n \in Threads, AgentOpensChannel(n) \/ AgentDiscards(n) \/ RemoteHandles(n)
      PROVE  outbox'[m] = <<>>
  <2>1. outbox[n] # <<>> /\ Sent(n)
    BY <1>8 DEF AgentOpensChannel, AgentDiscards, RemoteHandles
  <2>2. \A l \in Threads : l # n => outbox'[l] = outbox[l]
    BY <2>1, SentIs
  <2> QED BY <2>1, <2>2
<1> QED BY <1>2, <1>3, <1>4, <1>5, <1>6, <1>7, <1>8 DEF Next, Monitor, Agent, Quits

(* No method of agent n comes into the mailbox, and none is taken from it. *)
Quiet(n) ==
  \/ mailbox # <<>> /\ mailbox' = Tail(mailbox) /\ ~(Head(mailbox).op \in OkOp /\ Head(mailbox).arg = n)
  \/ mailbox' = mailbox
  \/ \E e \in MailEntry : mailbox' = Append(mailbox, e) /\ ~(e.op \in OkOp /\ e.arg = n)

(* What a step of agent n leaves alone. *)
LEMMA AgentFrame ==
  ASSUME TypeOK, NEW n \in Threads, Agent(n) \/ Break(n) \/ RemoteEnds(n)
  PROVE  /\ UNCHANGED <<peering, stale>> /\ phase[n] # "none" /\ phase'[n] # "none"
         /\ \A m \in Threads : m # n => /\ phase'[m] = phase[m] /\ outbox'[m] = outbox[m]
                                        /\ declared'[m] = declared[m] /\ remote'[m] = remote[m]
                                        /\ Quiet(m)
<1>0. /\ phase \in [Threads -> Phase] /\ declared \in [Threads -> BOOLEAN]
      /\ remote \in [Threads -> SUBSET Keys] /\ outbox \in [Threads -> Seq(OutEntry)]
  BY DEF TypeOK
<1>1. CASE AgentOpens(n) \/ AgentChannelOpens(n)
  <2>1. PICK o \in {"connection_open_ok", "channel_open_ok"} : mailbox' = Append(mailbox, Entry(o, n))
    BY <1>1 DEF AgentOpens, AgentChannelOpens
  <2>2. PICK e \in MailEntry : e = Entry(o, n) /\ e.arg = n
    BY EntriesMade
  <2>3. \A m \in Threads : m # n => Quiet(m)
    BY <2>1, <2>2 DEF Quiet
  <2>4. phase[n] # "none" /\ phase'[n] # "none" /\ \A m \in Threads : m # n => phase'[m] = phase[m]
    BY <1>0, <1>1 DEF AgentOpens, AgentChannelOpens
  <2>5. UNCHANGED <<peering, stale, outbox, declared, remote>>
    BY <1>1 DEF AgentOpens, AgentChannelOpens
  <2> QED BY <2>3, <2>4, <2>5
<1>2. ASSUME mailbox' = mailbox PROVE \A m \in Threads : Quiet(m)
  BY <1>2 DEF Quiet
<1>3. CASE AgentActive(n) \/ AgentStuck(n)
  <2>1. phase[n] # "none" /\ phase'[n] # "none" /\ \A m \in Threads : m # n => phase'[m] = phase[m]
    BY <1>0, <1>3 DEF AgentActive, AgentStuck
  <2>2. UNCHANGED <<peering, stale, outbox, declared, remote, mailbox>>
    BY <1>3 DEF AgentActive, AgentStuck
  <2> QED BY <1>2, <2>1, <2>2
<1>4. CASE Quits(n)
  <2>1. /\ UNCHANGED <<peering, stale, mailbox>> /\ phase[n] # "none" /\ phase'[n] # "none"
        /\ \A m \in Threads : m # n => /\ phase'[m] = phase[m] /\ outbox'[m] = outbox[m]
                                       /\ declared'[m] = declared[m] /\ remote'[m] = remote[m]
    BY <1>4, QuitIs
  <2> QED BY <1>2, <2>1
<1>5. CASE AgentOpensChannel(n) \/ AgentDiscards(n)
  <2>1. Sent(n) /\ outbox[n] # <<>> /\ UNCHANGED <<peering, stale, declared, remote, mailbox>>
    BY <1>5 DEF AgentOpensChannel, AgentDiscards
  <2>2. phase[n] # "none" /\ phase'[n] # "none" /\ \A m \in Threads : m # n => phase'[m] = phase[m]
    BY <1>0, <1>5 DEF AgentOpensChannel, AgentDiscards
  <2>3. \A m \in Threads : m # n => outbox'[m] = outbox[m]
    BY <2>1, SentIs
  <2> QED BY <1>2, <2>1, <2>2, <2>3
<1>6. CASE RemoteHandles(n)
  <2>1. Sent(n) /\ outbox[n] # <<>> /\ UNCHANGED <<peering, stale, mailbox>>
    BY <1>6 DEF RemoteHandles
  <2>2. phase[n] # "none" /\ phase'[n] # "none" /\ \A m \in Threads : m # n => phase'[m] = phase[m]
    BY <1>0, <1>6 DEF RemoteHandles
  <2>3. \A m \in Threads : m # n => outbox'[m] = outbox[m]
    BY <2>1, SentIs
  <2>4. \A m \in Threads : m # n => declared'[m] = declared[m]
    BY <1>0, <1>6 DEF RemoteHandles
  <2>5. \A m \in Threads : m # n => remote'[m] = remote[m]
    BY <1>0, <1>6 DEF RemoteHandles
  <2> QED BY <1>2, <2>1, <2>2, <2>3, <2>4, <2>5
<1> QED BY <1>1, <1>3, <1>4, <1>5, <1>6 DEF Agent, Quits

(* The current agent thread stays the youngest. *)
LEMMA LatestNext ==
  ASSUME TypeOK, Latest, Next
  PROVE  Latest'
<1>0. /\ phase \in [Threads -> Phase] /\ thread \in Threads \cup {NoThread} /\ NoThread \notin Threads
      /\ Threads \subseteq Nat
  BY DEF TypeOK, Threads, NoThread
<1>1. ASSUME thread' = thread, received' = received,
             \A n \in Threads : phase'[n] = "none" <=> phase[n] = "none"
      PROVE  Latest'
  <2>1. \A n \in Threads : phase[n] = "none" => outbox'[n] = <<>> /\ ReceivedBy(n)' = {}
    BY <1>1, OutMoves DEF Latest, ReceivedBy
  <2> QED BY <1>1, <2>1 DEF Latest
<1>2. CASE Caller
  BY <1>1, <1>2 DEF Caller, PostStart, PostStop, PostForward, PostBind, PostUnbind, peering, agents
<1>3. CASE Handle
  BY <1>1, <1>3, HandlePushes
<1>4. CASE MonitorTerminate
  <2>1. thread' = NoThread /\ UNCHANGED <<phase, received>>
    BY <1>4 DEF MonitorTerminate
  <2>2. \A n \in Threads : phase[n] = "none" => outbox'[n] = <<>> /\ ReceivedBy(n)' = {}
    BY <2>1, OutMoves DEF Latest, ReceivedBy
  <2> QED BY <1>0, <2>1, <2>2 DEF Latest
<1>5. CASE MonitorConnect
  <2>1. PICK t \in Threads : /\ phase[t] = "none" /\ \A l \in 1 .. (t - 1) : phase[l] # "none"
                             /\ phase' = [phase EXCEPT ![t] = "setup"] /\ thread' = t
    BY <1>5 DEF MonitorConnect
  <2>2. UNCHANGED <<outbox, received>>
    BY <1>5 DEF MonitorConnect
  <2>3. phase'[t] # "none" /\ \A n \in Threads : n # t => phase'[n] = phase[n]
    BY <1>0, <2>1
  <2>4. ASSUME NEW n \in Threads, phase'[n] = "none"
        PROVE  n # thread' /\ outbox'[n] = <<>> /\ ReceivedBy(n)' = {}
    BY <2>1, <2>2, <2>3, <2>4 DEF Latest, ReceivedBy
  <2>5. ASSUME NEW m \in Threads, NEW n \in Threads, m < n, phase'[m] = "none" \/ m = thread'
        PROVE  phase'[n] = "none"
    <3>1. phase[m] = "none"
      BY <2>1, <2>3, <2>5
    <3>2. phase[n] = "none"
      BY <2>5, <3>1 DEF Latest
    <3>3. n # t
      <4>1. m \in 1 .. (n - 1)
        BY <2>5 DEF Threads
      <4> QED BY <2>1, <3>1, <4>1
    <3> QED BY <2>3, <3>2, <3>3
  <2> QED BY <2>4, <2>5 DEF Latest
<1>6. ASSUME NEW n \in Threads, Agent(n) \/ Break(n) \/ RemoteEnds(n)
      PROVE  Latest'
  <2>1. /\ thread' = thread /\ phase[n] # "none" /\ phase'[n] # "none"
        /\ \A m \in Threads : m # n => phase'[m] = phase[m]
    BY <1>6, AgentFrame DEF peering
  <2>2. CASE received' = received
    BY <1>1, <2>1, <2>2
  <2>3. CASE received' # received
    <3>1. RemoteHandles(n)
      BY <1>6, <2>3 DEF Agent, AgentOpens, AgentActive, AgentChannelOpens, AgentStuck, AgentCloses,
                        AgentOpensChannel, AgentDiscards, Break, RemoteEnds
    <3>2. PICK z : received' = Append(received, z) /\ z.by = n
      BY <2>3, <3>1 DEF RemoteHandles
    <3>3. PICK r : r = received'
      OBVIOUS
    <3>4. /\ DOMAIN received = 1 .. Len(received) /\ Len(received) \in Nat
          /\ DOMAIN r = 1 .. (Len(received) + 1) /\ r[Len(received) + 1] = z
          /\ \A i \in 1 .. Len(received) : r[i] = received[i]
      BY <3>2, <3>3 DEF TypeOK
    <3>5. ASSUME NEW m \in Threads, m # n PROVE ReceivedBy(m)' \subseteq ReceivedBy(m)
      <4> SUFFICES ASSUME NEW x \in ReceivedBy(m)' PROVE x \in ReceivedBy(m)
        OBVIOUS
      <4>1. PICK i \in DOMAIN r : r[i].by = m /\ r[i].id = x
        BY <3>3 DEF ReceivedBy
      <4>2. i # Len(received) + 1
        BY <3>2, <3>4, <3>5, <4>1
      <4>3. i \in 1 .. Len(received) /\ received[i] = r[i]
        BY <3>4, <4>2
      <4> QED BY <3>4, <4>1, <4>3 DEF ReceivedBy
    <3>6. \A m \in Threads : phase[m] = "none" => outbox'[m] = <<>> /\ ReceivedBy(m)' = {}
      BY <2>1, <3>5, OutMoves DEF Latest
    <3> QED BY <2>1, <3>6 DEF Latest
  <2> QED BY <2>2, <2>3
<1> QED BY <1>2, <1>3, <1>4, <1>5, <1>6 DEF Next, Monitor

(* The count of stops never falls. *)
LEMMA CallsGrow ==
  ASSUME TypeOK, Next
  PROVE  /\ calls'["stop"] = 0 => calls["stop"] = 0
         /\ calls'["break"] = 0 => calls["break"] = 0
<1>0. calls \in [Call -> Nat] /\ "stop" \in Call /\ "break" \in Call
  BY DEF TypeOK, Call
<1>1. calls' = calls \/ \E c \in Call : calls' = [calls EXCEPT ![c] = calls[c] + 1]
  <2>0. Call = {"start", "stop", "bind", "unbind", "forward", "break"}
    BY DEF Call
  <2>1. CASE Caller
    BY <2>0, <2>1 DEF Caller, PostStart, PostStop, PostForward, PostBind, PostUnbind, Called
  <2>2. CASE Handle
    BY <2>2, HandlePushes
  <2>3. CASE Monitor
    BY <2>3 DEF Monitor, MonitorTerminate, MonitorConnect
  <2>4. ASSUME NEW n \in Threads, Break(n)
        PROVE  \E c \in Call : calls' = [calls EXCEPT ![c] = calls[c] + 1]
    BY <1>0, <2>4 DEF Break, Called
  <2>6. ASSUME NEW n \in Threads, RemoteEnds(n) PROVE calls' = calls
    BY <2>6 DEF RemoteEnds
  <2>5. ASSUME NEW n \in Threads, Agent(n) PROVE calls' = calls
    BY <2>5 DEF Agent, AgentOpens, AgentActive, AgentChannelOpens, AgentStuck, AgentCloses,
                AgentOpensChannel, AgentDiscards, RemoteHandles
  <2> QED BY <2>1, <2>2, <2>3, <2>4, <2>5, <2>6 DEF Next
<1> QED BY <1>0, <1>1

(* As long as there was no stop, there is none to come. *)
LEMMA StoppedNext ==
  ASSUME TypeOK, NeverStopped, Next
  PROVE  NeverStopped'
<1>3. SUFFICES ASSUME calls'["stop"] = 0 PROVE NeverStopped'
  BY DEF NeverStopped
<1>4. /\ calls["stop"] = 0 /\ \A i \in 1 .. Len(mailbox) : mailbox[i].op # "stop"
      /\ thread # NoThread => enabled
  BY <1>3, CallsGrow DEF NeverStopped
<1>5. ASSUME NEW i \in 1 .. Len(mailbox') PROVE mailbox'[i].op # "stop"
  <2>0. mailbox \in Seq(MailEntry)
    BY DEF TypeOK
  <2>1. PICK W : W = {e \in MailEntry : e.op # "stop"}
    OBVIOUS
  <2>2. \A j \in 1 .. Len(mailbox) : mailbox[j] \in W
    BY <1>4, <2>0, <2>1, ElementIs
  <2>3. \/ mailbox # <<>> /\ mailbox' = Tail(mailbox)
        \/ mailbox' = mailbox
        \/ \E e \in MailEntry : mailbox' = Append(mailbox, e) /\ e \in W
    <3>1. ASSUME NEW e \in MailEntry, e.op = "stop",
                 calls'["stop"] = IF e.op = "stop" THEN calls["stop"] + 1 ELSE calls["stop"]
          PROVE  FALSE
      BY <1>3, <1>4, <3>1
    <3>2. ASSUME NEW n \in Threads, NEW o \in {"connection_open_ok", "channel_open_ok"}
          PROVE  Entry(o, n).op # "stop"
      BY EntriesMade
    <3> QED BY <2>1, <3>1, <3>2, MailMoves
  <2>4. \A j \in 1 .. Len(mailbox') : mailbox'[j] \in W
    BY <2>2, <2>3, MailAfter
  <2> QED BY <2>1, <2>4
<1>6. thread' # NoThread => enabled'
  <2>1. CASE Caller
    BY <1>4, <2>1 DEF Caller, PostStart, PostStop, PostForward, PostBind, PostUnbind, peering
  <2>2. CASE HandleStop
    <3>1. mailbox # <<>> /\ Head(mailbox).op = "stop" /\ mailbox \in Seq(MailEntry)
      BY <2>2 DEF HandleStop, Take, TypeOK
    <3>2. Head(mailbox) = mailbox[1] /\ 1 \in 1 .. Len(mailbox)
      BY <3>1
    <3> QED BY <1>4, <3>1, <3>2
  <2>3. CASE Handle /\ ~HandleStop
    BY <1>4, <2>3 DEF Handle, HandleStart, HandleBind, HandleUnbind, HandleForward,
                     HandleConnectionOpenOk, HandleChannelOpenOk, peering
  <2>4. CASE Monitor
    BY <1>4, <2>4 DEF Monitor, MonitorTerminate, MonitorConnect, MayConnect
  <2>5. ASSUME NEW n \in Threads, Agent(n) \/ Break(n) \/ RemoteEnds(n)
        PROVE  UNCHANGED <<thread, enabled>>
    BY <2>5 DEF RemoteEnds, Agent, AgentOpens, AgentActive, AgentChannelOpens, AgentStuck, AgentCloses,
                AgentOpensChannel, AgentDiscards, RemoteHandles, Break, peering
  <2> QED BY <1>4, <2>1, <2>2, <2>3, <2>4, <2>5 DEF Next
<1> QED BY <1>5, <1>6 DEF NeverStopped

(* No more messages are forwarded than there are. *)
LEMMA ForwardedNext ==
  ASSUME TypeOK, Forwarded, Next
  PROVE  Forwarded'
<1>0. calls \in [Call -> Nat] /\ Call = {"start", "stop", "bind", "unbind", "forward", "break"}
  BY DEF TypeOK, Call
<1>1. CASE PostForward
  BY <1>0, <1>1, PeeringAssumption DEF PostForward, Called, Forwarded
<1>2. ASSUME Caller, ~PostForward PROVE calls'["forward"] = calls["forward"]
  BY <1>0, <1>2 DEF Caller, PostStart, PostStop, PostBind, PostUnbind, Called
<1>3. ASSUME Handle PROVE calls' = calls
  BY <1>3, HandlePushes
<1>4. ASSUME Monitor PROVE calls' = calls
  BY <1>4 DEF Monitor, MonitorTerminate, MonitorConnect
<1>5. ASSUME NEW n \in Threads, Agent(n) PROVE calls' = calls
  BY <1>5 DEF Agent, AgentOpens, AgentActive, AgentChannelOpens, AgentStuck, AgentCloses,
              AgentOpensChannel, AgentDiscards, RemoteHandles
<1>6. ASSUME NEW n \in Threads, Break(n) \/ RemoteEnds(n) PROVE calls'["forward"] = calls["forward"]
  BY <1>0, <1>6 DEF Break, RemoteEnds, Called
<1> QED BY <1>1, <1>2, <1>3, <1>4, <1>5, <1>6 DEF Next, Forwarded

(* At first there is no message. *)
LEMMA FlowInit == Init => FlowInv
<1> SUFFICES ASSUME Init PROVE FlowInv
  OBVIOUS
<1>1. /\ mailbox = <<>> /\ messages = <<>> /\ received = <<>> /\ lost = {} /\ thread = NoThread
      /\ \A n \in Threads : outbox[n] = <<>>
      /\ calls["forward"] = 0
  BY DEF Init, Call
<1>2. /\ Mail = {} /\ Held = {} /\ Arrived = {}
      /\ \A n \in Threads : /\ InTransit(n) = {} /\ ReceivedBy(n) = {} /\ Sends(n) = {}
                             /\ Rising(outbox[n])
  BY <1>1 DEF Mail, Held, Arrived, InTransit, ReceivedBy, Sends, Published, Rising, ToSet
<1>3. Rising(mailbox) /\ ReceivedInOrder
  BY <1>1 DEF Rising, ReceivedInOrder
<1>4. FlowOrder
  BY <1>1, <1>2, <1>3 DEF FlowOrder, Before
<1>5. FlowPlace
  <2>1. \A c \in 1 .. MaxForwards : ~(c <= calls["forward"])
    BY <1>1
  <2>2. \A i, j \in DOMAIN received : received[i].id = received[j].id => i = j
    BY <1>1
  <2> QED BY <1>1, <1>2, <2>1, <2>2 DEF FlowPlace
<1>6. Latest
  <2>1. \A n \in Threads : phase[n] = "none" /\ n # thread
    BY DEF Init, Threads, NoThread
  <2> QED BY <1>1, <1>2, <2>1 DEF Latest
<1>7. Forwarded
  BY <1>1, PeeringAssumption DEF Forwarded
<1> QED BY <1>4, <1>5, <1>6, <1>7 DEF FlowInv

(* Every step keeps the messages in order and in one place. *)
LEMMA FlowNext == TypeOK /\ FlowInv /\ [Next]_vars => FlowInv'
<1> SUFFICES ASSUME TypeOK, FlowInv, [Next]_vars PROVE FlowInv'
  OBVIOUS
<1>0. FlowOrder /\ FlowPlace /\ Latest /\ Forwarded
  BY DEF FlowInv
<1>1. CASE Next
  <2>1. Latest'
    BY <1>0, <1>1, LatestNext
  <2>2. FlowOrder' /\ FlowPlace'
    BY <1>0, <1>1, FlowCaller, FlowHandle, FlowMonitor, FlowAgent DEF Next
  <2>3. Forwarded'
    BY <1>0, <1>1, ForwardedNext
  <2> QED BY <2>1, <2>2, <2>3 DEF FlowInv
<1>2. CASE UNCHANGED vars
  <2>1. /\ UNCHANGED <<messages, received, lost>> /\ Mail' = Mail /\ Rising(mailbox')
        /\ \A n \in Threads : InTransit(n)' = InTransit(n) /\ Rising(outbox'[n])
        /\ connected' => connected
        /\ calls' = calls
    BY <1>0, <1>2 DEF vars, peering, agents, Mail, InTransit, FlowOrder
  <2>2. FlowOrder' /\ FlowPlace'
    BY <1>0, <2>1, FlowKept
  <2>3. Latest' /\ Forwarded'
    BY <1>0, <1>2 DEF vars, peering, agents, Latest, ReceivedBy, Forwarded
  <2> QED BY <2>2, <2>3 DEF FlowInv
<1> QED BY <1>1, <1>2

(***************************************************************************)
(* The remote server receives the messages of one connection in the order  *)
(* they were forwarded, across the switch from held to sent; and whatever  *)
(* comes over a connection was forwarded before all that comes over a      *)
(* later one, although it may arrive after it (amq_peering.icl, forward    *)
(* and s_initialise_peering).                                              *)
(***************************************************************************)
THEOREM OrderKept == Spec => []ReceivedInOrder
<1>1. Init => TypeOK /\ FlowInv
  BY TypeInit, FlowInit
<1>2. TypeOK /\ FlowInv /\ [Next]_vars => (TypeOK /\ FlowInv)'
  BY TypeNext, FlowNext
<1>3. TypeOK /\ FlowInv => ReceivedInOrder
  BY DEF FlowInv, FlowOrder
<1> QED BY <1>1, <1>2, <1>3, PTL DEF Spec

(* The places of one message. *)
HeldAt(c) == {<<"held", i>> : i \in {j \in DOMAIN messages : messages[j] = c}}
ReceivedAt(c) == {<<"received", i>> : i \in {j \in DOMAIN received : received[j].id = c}}
MailAt(c) == {<<"mailbox", i>> : i \in {j \in DOMAIN mailbox : mailbox[j] = Entry("publish", c)}}
SentAt(c) == {<<n, i>> : n \in {m \in Threads : c \in InTransit(m)}, i \in {0}}
LostAt(c) == {<<"lost", i>> : i \in {j \in {0} : c \in lost}}

(* Each set of places has at most one element, and is empty if the message is not there. *)
LEMMA PlacesAre ==
  ASSUME TypeOK, FlowInv, NEW c \in 1 .. MaxForwards
  PROVE  /\ IF c \in Held THEN \E x : HeldAt(c) = {x} ELSE HeldAt(c) = {}
         /\ IF c \in Arrived THEN \E x : ReceivedAt(c) = {x} ELSE ReceivedAt(c) = {}
         /\ IF c \in Mail THEN \E x : MailAt(c) = {x} ELSE MailAt(c) = {}
         /\ IF \E n \in Threads : c \in InTransit(n) THEN \E x : SentAt(c) = {x} ELSE SentAt(c) = {}
         /\ IF c \in lost THEN \E x : LostAt(c) = {x} ELSE LostAt(c) = {}
<1>0. /\ messages \in Seq(1 .. MaxForwards) /\ mailbox \in Seq(MailEntry)
      /\ received \in Seq([id : 1 .. MaxForwards, by : Threads]) /\ FlowOrder /\ FlowPlace
  BY DEF TypeOK, FlowInv
<1>1. IF c \in Held THEN \E x : HeldAt(c) = {x} ELSE HeldAt(c) = {}
  <2>1. DOMAIN messages = 1 .. Len(messages) /\ \A i \in 1 .. Len(messages) : messages[i] \in Nat
    <3>1. \A i \in 1 .. Len(messages) : messages[i] \in 1 .. MaxForwards
      BY <1>0, ElementIs
    <3>2. DOMAIN messages = 1 .. Len(messages)
      BY <1>0
    <3>3. \A x \in 1 .. MaxForwards : x \in Nat
      OBVIOUS
    <3> QED BY <3>1, <3>2, <3>3
  <2>2. c \in Held <=> \E i \in 1 .. Len(messages) : messages[i] = c
    BY <1>0, <2>1 DEF Held, ToSet
  <2>3. ASSUME NEW i \in 1 .. Len(messages), NEW j \in 1 .. Len(messages), messages[i] = c,
               messages[j] = c
        PROVE  i = j
    <3>1. ~(i < j) /\ ~(j < i)
      BY <1>0, <2>1, <2>3 DEF FlowOrder
    <3> QED BY <3>1
  <2>4. ASSUME NEW i \in 1 .. Len(messages), messages[i] = c PROVE HeldAt(c) = {<<"held", i>>}
    <3>1. {j \in DOMAIN messages : messages[j] = c} = {i}
      BY <2>1, <2>3, <2>4
    <3> QED BY <3>1 DEF HeldAt
  <2>5. ASSUME c \notin Held PROVE HeldAt(c) = {}
    BY <2>1, <2>2, <2>5 DEF HeldAt
  <2> QED BY <2>2, <2>4, <2>5
<1>2. IF c \in Arrived THEN \E x : ReceivedAt(c) = {x} ELSE ReceivedAt(c) = {}
  <2>1. ASSUME NEW i \in DOMAIN received, received[i].id = c PROVE ReceivedAt(c) = {<<"received", i>>}
    <3>1. {j \in DOMAIN received : received[j].id = c} = {i}
      BY <1>0, <2>1 DEF FlowPlace
    <3> QED BY <3>1 DEF ReceivedAt
  <2>2. ASSUME c \notin Arrived PROVE ReceivedAt(c) = {}
    BY <2>2 DEF ReceivedAt, Arrived
  <2> QED BY <2>1, <2>2 DEF Arrived
<1>3. IF c \in Mail THEN \E x : MailAt(c) = {x} ELSE MailAt(c) = {}
  <2>1. DOMAIN mailbox = 1 .. Len(mailbox)
    BY <1>0
  <2>2. \A i \in 1 .. Len(mailbox) :
           mailbox[i] = Entry("publish", c) <=> mailbox[i].op = "publish" /\ mailbox[i].arg = c
    <3> SUFFICES ASSUME NEW i \in 1 .. Len(mailbox)
                 PROVE  mailbox[i] = Entry("publish", c) <=> mailbox[i].op = "publish" /\ mailbox[i].arg = c
      OBVIOUS
    <3>1. PICK e \in MailEntry : e = mailbox[i]
      BY <1>0, ElementIs
    <3> QED BY <3>1, MailEntryIs, EntriesMade
  <2>3. c \in Mail <=> \E i \in 1 .. Len(mailbox) : mailbox[i] = Entry("publish", c)
    BY <1>0, <2>2, PublishedIs DEF Mail
  <2>4. ASSUME NEW i \in 1 .. Len(mailbox), NEW j \in 1 .. Len(mailbox),
               mailbox[i] = Entry("publish", c), mailbox[j] = Entry("publish", c)
        PROVE  i = j
    <3>1. ~(i < j) /\ ~(j < i)
      BY <1>0, <2>2, <2>4 DEF FlowOrder, Rising
    <3> QED BY <3>1
  <2>5. ASSUME NEW i \in 1 .. Len(mailbox), mailbox[i] = Entry("publish", c)
        PROVE  MailAt(c) = {<<"mailbox", i>>}
    <3>1. {j \in DOMAIN mailbox : mailbox[j] = Entry("publish", c)} = {i}
      BY <2>1, <2>4, <2>5
    <3> QED BY <3>1 DEF MailAt
  <2>6. ASSUME c \notin Mail PROVE MailAt(c) = {}
    BY <2>1, <2>3, <2>6 DEF MailAt
  <2> QED BY <2>3, <2>5, <2>6
<1>4. IF \E n \in Threads : c \in InTransit(n) THEN \E x : SentAt(c) = {x} ELSE SentAt(c) = {}
  <2>1. ASSUME NEW n \in Threads, c \in InTransit(n) PROVE SentAt(c) = {<<n, 0>>}
    <3>1. {m \in Threads : c \in InTransit(m)} = {n}
      BY <1>0, <2>1 DEF FlowPlace
    <3> QED BY <3>1 DEF SentAt
  <2>2. ASSUME ~ \E n \in Threads : c \in InTransit(n) PROVE SentAt(c) = {}
    BY <2>2 DEF SentAt
  <2> QED BY <2>1, <2>2
<1>5. IF c \in lost THEN \E x : LostAt(c) = {x} ELSE LostAt(c) = {}
  <2>1. ASSUME c \in lost PROVE LostAt(c) = {<<"lost", 0>>}
    <3>1. {j \in {0} : c \in lost} = {0}
      BY <2>1
    <3> QED BY <3>1 DEF LostAt
  <2>2. ASSUME c \notin lost PROVE LostAt(c) = {}
    BY <2>2 DEF LostAt
  <2> QED BY <2>1, <2>2
<1> QED BY <1>1, <1>2, <1>3, <1>4, <1>5

(***************************************************************************)
(* Every message forwarded is in exactly one place: in the mailbox, held,  *)
(* on its way through one agent thread, received once, or dropped          *)
(* (amq_peering.icl, forward, s_initialise_peering and the pushes to an    *)
(* agent thread that may have ended).                                      *)
(***************************************************************************)
THEOREM OnePlaceEach == Spec => []OnePlace
<1>1. Init => TypeOK /\ FlowInv
  BY TypeInit, FlowInit
<1>2. TypeOK /\ FlowInv /\ [Next]_vars => (TypeOK /\ FlowInv)'
  BY TypeNext, FlowNext
<1>3. TypeOK /\ FlowInv => OnePlace
  <2> SUFFICES ASSUME TypeOK, FlowInv PROVE OnePlace
    OBVIOUS
  <2>0. calls["forward"] \in Nat
    BY DEF TypeOK, Call
  <2>1. ASSUME NEW c \in 1 .. MaxForwards, c <= calls["forward"]
        PROVE  Cardinality(HeldAt(c) \cup ReceivedAt(c) \cup MailAt(c) \cup SentAt(c) \cup LostAt(c)) = 1
    <3>1. \/ c \in lost \/ c \in Arrived \/ c \in Held \/ c \in Mail
          \/ \E n \in Threads : c \in InTransit(n)
      BY <2>1 DEF FlowInv, FlowPlace
    <3>2. ~(c < c)
      OBVIOUS
    <3>3. /\ c \in lost => c \notin Arrived \cup Held \cup Mail /\ \A n \in Threads : c \notin InTransit(n)
          /\ c \in Arrived => c \notin Held \cup Mail /\ \A n \in Threads : c \notin InTransit(n)
          /\ c \in Held => c \notin Mail /\ \A n \in Threads : c \notin InTransit(n)
          /\ c \in Mail => \A n \in Threads : c \notin InTransit(n)
      BY <3>2 DEF FlowInv, FlowPlace, FlowOrder, Before
    <3>4. \E x : HeldAt(c) \cup ReceivedAt(c) \cup MailAt(c) \cup SentAt(c) \cup LostAt(c) = {x}
      <4>1. /\ IF c \in Held THEN \E x : HeldAt(c) = {x} ELSE HeldAt(c) = {}
            /\ IF c \in Arrived THEN \E x : ReceivedAt(c) = {x} ELSE ReceivedAt(c) = {}
            /\ IF c \in Mail THEN \E x : MailAt(c) = {x} ELSE MailAt(c) = {}
            /\ IF \E n \in Threads : c \in InTransit(n) THEN \E x : SentAt(c) = {x} ELSE SentAt(c) = {}
            /\ IF c \in lost THEN \E x : LostAt(c) = {x} ELSE LostAt(c) = {}
        BY PlacesAre
      <4>2. CASE c \in lost
        BY <3>3, <4>1, <4>2
      <4>3. CASE c \in Arrived
        BY <3>3, <4>1, <4>3
      <4>4. CASE c \in Held
        BY <3>3, <4>1, <4>4
      <4>5. CASE c \in Mail
        BY <3>3, <4>1, <4>5
      <4>6. CASE \E n \in Threads : c \in InTransit(n)
        BY <3>3, <4>1, <4>6
      <4> QED BY <3>1, <4>2, <4>3, <4>4, <4>5, <4>6
    <3> QED BY <3>4, FS_Singleton
  <2>2. \A c \in 1 .. calls["forward"] : c \in 1 .. MaxForwards /\ c <= calls["forward"]
    BY <2>0, PeeringAssumption DEF FlowInv, Forwarded
  <2> QED BY <2>1, <2>2 DEF OnePlace, HeldAt, ReceivedAt, MailAt, SentAt, LostAt
<1> QED BY <1>1, <1>2, <1>3, PTL DEF Spec

-----------------------------------------------------------------------------
(* What is bound at the remote server *)

(* The remote bindings after one entry more. *)
AfterEntry(e, R) ==
  IF e.op = "bind" THEN R \cup {e.arg} ELSE IF e.op = "unbind" THEN R \ {e.arg} ELSE R

(* An entry for a binding, by its fields. *)
LEMMA EntryIs ==
  ASSUME NEW e \in OutEntry, NEW o, NEW a
  PROVE  e = Entry(o, a) <=> e.op = o /\ e.arg = a
  BY OutEntryIs, EntriesMade

(* Handling the first entry leaves what will be bound as it is. *)
LEMMA BoundTail ==
  ASSUME NEW s \in Seq(OutEntry), s # <<>>, NEW k, NEW R
  PROVE  Bound(k, s, R) <=> Bound(k, Tail(s), AfterEntry(Head(s), R))
<1>1. PICK t, e, A : t = Tail(s) /\ e = Head(s) /\ A = AfterEntry(e, R)
  OBVIOUS
<1>2. /\ e \in OutEntry /\ t \in Seq(OutEntry) /\ e = s[1] /\ Len(s) \in Nat /\ Len(s) >= 1
      /\ Len(t) = Len(s) - 1 /\ \A i \in 1 .. (Len(s) - 1) : t[i] = s[i + 1]
  BY <1>1, TailIs
<1>3. \A i \in 1 .. Len(t) : i + 1 \in 1 .. Len(s) /\ t[i] = s[i + 1]
  BY <1>2
<1>4. \A i \in 1 .. Len(s) : i # 1 => i - 1 \in 1 .. Len(t) /\ t[i - 1] = s[i]
  BY <1>2
<1>5. 1 \in 1 .. Len(s)
  BY <1>2
<1>6. /\ e = Entry("bind", k) <=> e.op = "bind" /\ e.arg = k
      /\ e = Entry("unbind", k) <=> e.op = "unbind" /\ e.arg = k
  BY <1>2, EntryIs
<1>7. /\ e = Entry("bind", k) => k \in A /\ e # Entry("unbind", k)
      /\ e = Entry("unbind", k) => k \notin A
      /\ e # Entry("bind", k) /\ e # Entry("unbind", k) => (k \in A <=> k \in R)
  BY <1>1, <1>6 DEF AfterEntry
<1>8. ASSUME Bound(k, s, R) PROVE Bound(k, t, A)
  <2>1. ASSUME NEW i \in 1 .. Len(s), s[i] = Entry("bind", k),
               \A j \in 1 .. Len(s) : i < j => s[j] # Entry("unbind", k)
        PROVE  Bound(k, t, A)
    <3>1. CASE i = 1
      <4>1. \A j \in 1 .. Len(t) : t[j] # Entry("unbind", k)
        <5> SUFFICES ASSUME NEW j \in 1 .. Len(t) PROVE t[j] # Entry("unbind", k)
          OBVIOUS
        <5>1. i < j + 1
          BY <1>2, <3>1
        <5> QED BY <1>3, <2>1, <5>1
      <4> QED BY <1>2, <1>7, <2>1, <3>1, <4>1 DEF Bound
    <3>2. CASE i # 1
      <4>1. i - 1 \in 1 .. Len(t) /\ t[i - 1] = Entry("bind", k)
        BY <1>4, <2>1, <3>2
      <4>2. ASSUME NEW j \in 1 .. Len(t), i - 1 < j PROVE t[j] # Entry("unbind", k)
        <5>1. i < j + 1
          BY <1>2, <4>2
        <5> QED BY <1>3, <2>1, <5>1
      <4> QED BY <4>1, <4>2 DEF Bound
    <3> QED BY <3>1, <3>2
  <2>2. ASSUME k \in R, \A j \in 1 .. Len(s) : s[j] # Entry("unbind", k) PROVE Bound(k, t, A)
    <3>1. k \in A
      BY <1>2, <1>5, <1>7, <2>2
    <3>2. \A j \in 1 .. Len(t) : t[j] # Entry("unbind", k)
      BY <1>3, <2>2
    <3> QED BY <3>1, <3>2 DEF Bound
  <2> QED BY <1>8, <2>1, <2>2 DEF Bound
<1>9. ASSUME Bound(k, t, A) PROVE Bound(k, s, R)
  <2>1. ASSUME NEW i \in 1 .. Len(t), t[i] = Entry("bind", k),
               \A j \in 1 .. Len(t) : i < j => t[j] # Entry("unbind", k)
        PROVE  Bound(k, s, R)
    <3>1. i + 1 \in 1 .. Len(s) /\ s[i + 1] = Entry("bind", k)
      BY <1>3, <2>1
    <3>2. ASSUME NEW j \in 1 .. Len(s), i + 1 < j PROVE s[j] # Entry("unbind", k)
      <4>1. j # 1 /\ i < j - 1
        BY <1>2, <3>2
      <4> QED BY <1>4, <2>1, <4>1
    <3> QED BY <3>1, <3>2 DEF Bound
  <2>2. ASSUME k \in A, \A j \in 1 .. Len(t) : t[j] # Entry("unbind", k) PROVE Bound(k, s, R)
    <3>1. \A j \in 1 .. Len(s) : j # 1 => s[j] # Entry("unbind", k)
      BY <1>4, <2>2
    <3>2. CASE e = Entry("bind", k)
      <4>1. \A j \in 1 .. Len(s) : 1 < j => s[j] # Entry("unbind", k)
        BY <1>2, <3>1
      <4> QED BY <1>2, <1>5, <3>2, <4>1 DEF Bound
    <3>3. CASE e # Entry("bind", k)
      <4>1. e # Entry("unbind", k) /\ k \in R
        BY <1>7, <2>2, <3>3
      <4>2. \A j \in 1 .. Len(s) : s[j] # Entry("unbind", k)
        BY <1>2, <3>1, <4>1
      <4> QED BY <4>1, <4>2 DEF Bound
    <3> QED BY <3>2, <3>3
  <2> QED BY <1>9, <2>1, <2>2 DEF Bound
<1> QED BY <1>1, <1>8, <1>9

(* One entry more to send. *)
LEMMA BoundAppend ==
  ASSUME NEW s \in Seq(OutEntry), NEW e \in OutEntry, NEW k, NEW R
  PROVE  /\ e = Entry("bind", k) => Bound(k, s \o <<e>>, R)
         /\ e = Entry("unbind", k) => ~Bound(k, s \o <<e>>, R)
         /\ e # Entry("bind", k) /\ e # Entry("unbind", k) => (Bound(k, s \o <<e>>, R) <=> Bound(k, s, R))
<1>1. PICK t : t = s \o <<e>>
  OBVIOUS
<1>2. /\ Len(s) \in Nat /\ Len(t) = Len(s) + 1 /\ t[Len(s) + 1] = e
      /\ \A i \in 1 .. Len(s) : t[i] = s[i]
  <2>1. t = Append(s, e)
    BY <1>1
  <2> QED BY <2>1, AppendIs
<1>3. \A i \in 1 .. Len(t) : i \in 1 .. Len(s) \/ i = Len(s) + 1
  BY <1>2
<1>4. Len(s) + 1 \in 1 .. Len(t) /\ \A i \in 1 .. Len(s) : i \in 1 .. Len(t) /\ i < Len(s) + 1
  BY <1>2
<1>5. Entry("bind", k) # Entry("unbind", k)
  BY EntriesMade
<1>6. ASSUME e = Entry("bind", k) PROVE Bound(k, t, R)
  <2>1. \A j \in 1 .. Len(t) : Len(s) + 1 < j => t[j] # Entry("unbind", k)
    BY <1>2
  <2> QED BY <1>2, <1>4, <1>6, <2>1 DEF Bound
<1>7. ASSUME e = Entry("unbind", k) PROVE ~Bound(k, t, R)
  <2>1. ASSUME NEW i \in 1 .. Len(t), t[i] = Entry("bind", k) PROVE i < Len(s) + 1
    BY <1>2, <1>3, <1>4, <1>5, <1>7, <2>1
  <2> QED BY <1>2, <1>4, <1>7, <2>1 DEF Bound
<1>8. ASSUME e # Entry("bind", k), e # Entry("unbind", k) PROVE Bound(k, t, R) <=> Bound(k, s, R)
  <2>1. ASSUME Bound(k, t, R) PROVE Bound(k, s, R)
    <3>1. ASSUME NEW i \in 1 .. Len(t), t[i] = Entry("bind", k),
                 \A j \in 1 .. Len(t) : i < j => t[j] # Entry("unbind", k)
          PROVE  Bound(k, s, R)
      <4>1. i \in 1 .. Len(s) /\ s[i] = Entry("bind", k)
        BY <1>2, <1>3, <1>8, <3>1
      <4>2. \A j \in 1 .. Len(s) : i < j => s[j] # Entry("unbind", k)
        BY <1>2, <1>4, <3>1
      <4> QED BY <4>1, <4>2 DEF Bound
    <3>2. ASSUME k \in R, \A j \in 1 .. Len(t) : t[j] # Entry("unbind", k) PROVE Bound(k, s, R)
      <4>1. \A j \in 1 .. Len(s) : s[j] # Entry("unbind", k)
        BY <1>2, <1>4, <3>2
      <4> QED BY <3>2, <4>1 DEF Bound
    <3> QED BY <2>1, <3>1, <3>2 DEF Bound
  <2>2. ASSUME Bound(k, s, R) PROVE Bound(k, t, R)
    <3>1. ASSUME NEW i \in 1 .. Len(s), s[i] = Entry("bind", k),
                 \A j \in 1 .. Len(s) : i < j => s[j] # Entry("unbind", k)
          PROVE  Bound(k, t, R)
      <4>1. i \in 1 .. Len(t) /\ t[i] = Entry("bind", k)
        BY <1>2, <1>4, <3>1
      <4>2. \A j \in 1 .. Len(t) : i < j => t[j] # Entry("unbind", k)
        BY <1>2, <1>3, <1>8, <3>1
      <4> QED BY <4>1, <4>2 DEF Bound
    <3>2. ASSUME k \in R, \A j \in 1 .. Len(s) : s[j] # Entry("unbind", k) PROVE Bound(k, t, R)
      <4>1. \A j \in 1 .. Len(t) : t[j] # Entry("unbind", k)
        BY <1>2, <1>3, <1>8, <3>2
      <4> QED BY <3>2, <4>1 DEF Bound
    <3> QED BY <2>2, <3>1, <3>2 DEF Bound
  <2> QED BY <2>1, <2>2
<1> QED BY <1>1, <1>6, <1>7, <1>8

(* What is replayed binds what the list says. *)
LEMMA BoundReplay ==
  ASSUME TypeOK
  PROVE  /\ \A k : Bound(k, Replay, {}) <=> k \in ToSet(bindings)
         /\ \A i \in 1 .. Len(Replay) : Replay[i].op \in LinkOp
         /\ Replay # <<>> /\ Head(Replay).op = "declare"
<1>1. PICK r, b, m : r = Replay /\ b = Len(bindings) /\ m = Len(messages)
  OBVIOUS
<1>2. /\ r \in Seq(OutEntry) /\ Len(r) = 1 + b + m /\ r[1] = Entry("declare", NoThread)
      /\ \A i \in 1 .. b : r[1 + i] = Entry("bind", bindings[i])
      /\ \A i \in 1 .. m : r[1 + b + i] = Entry("publish", messages[i])
  BY <1>1, ReplayIs
<1>3. b \in Nat /\ m \in Nat /\ bindings \in Seq(Keys)
  BY <1>1 DEF TypeOK
<1>4. ASSUME NEW i \in 1 .. Len(r)
      PROVE  \/ i = 1 /\ r[i] = Entry("declare", NoThread)
             \/ \E j \in 1 .. b : r[i] = Entry("bind", bindings[j])
             \/ \E j \in 1 .. m : r[i] = Entry("publish", messages[j])
  <2>1. CASE i = 1
    BY <1>2, <2>1
  <2>2. CASE i \in 2 .. (1 + b)
    <3>1. i - 1 \in 1 .. b /\ i = 1 + (i - 1)
      BY <1>3, <2>2
    <3> QED BY <1>2, <3>1
  <2>3. CASE i > 1 + b
    <3>1. PICK j : j = i - (1 + b)
      OBVIOUS
    <3>2. j \in 1 .. m /\ i = 1 + b + j
      BY <1>2, <1>3, <2>3, <3>1
    <3> QED BY <1>2, <3>2
  <2> QED BY <1>2, <1>3, <2>1, <2>2, <2>3
<1>5. \A i \in 1 .. Len(r) : r[i].op \in {"declare", "bind", "publish"}
  BY <1>4, EntriesMade
<1>6. \A i \in 1 .. Len(r) : \A k : r[i] # Entry("unbind", k)
  BY <1>5, EntriesMade
<1>7. ASSUME NEW k PROVE Bound(k, r, {}) <=> k \in ToSet(bindings)
  <2>1. ASSUME Bound(k, r, {}) PROVE k \in ToSet(bindings)
    <3>1. PICK i \in 1 .. Len(r) : r[i] = Entry("bind", k)
      BY <2>1 DEF Bound
    <3>2. r[i].op = "bind" /\ r[i].arg = k
      BY <3>1, EntriesMade
    <3>3. PICK j \in 1 .. b : r[i] = Entry("bind", bindings[j])
      BY <1>4, <3>2, EntriesMade
    <3>4. bindings[j] = k
      BY <3>2, <3>3, EntriesMade
    <3> QED BY <1>1, <1>3, <3>4, ToSetIs
  <2>2. ASSUME k \in ToSet(bindings) PROVE Bound(k, r, {})
    <3>1. PICK j \in 1 .. b : bindings[j] = k
      BY <1>1, <1>3, <2>2, ToSetIs
    <3>2. 1 + j \in 1 .. Len(r) /\ r[1 + j] = Entry("bind", k)
      BY <1>2, <1>3, <3>1
    <3> QED BY <1>6, <3>2 DEF Bound
  <2> QED BY <2>1, <2>2
<1>8. r # <<>> /\ Head(r).op = "declare"
  <2>1. r # <<>> /\ Head(r) = r[1]
    BY <1>2, <1>3
  <2> QED BY <1>2, <2>1, EntriesMade
<1> QED BY <1>1, <1>5, <1>7, <1>8 DEF LinkOp

-----------------------------------------------------------------------------
(* The open-oks in the mailbox *)

(* An agent that is silent stays so. *)
LEMMA SilentKept ==
  ASSUME TypeOK, NEW n, Silent(n),
         \/ mailbox # <<>> /\ mailbox' = Tail(mailbox)
         \/ mailbox' = mailbox
         \/ \E e \in MailEntry : mailbox' = Append(mailbox, e) /\ ~(e.op \in OkOp /\ e.arg = n)
  PROVE  Silent(n)'
<1>1. PICK W : W = {e \in MailEntry : ~(e.op \in OkOp /\ e.arg = n)}
  OBVIOUS
<1>2. mailbox \in Seq(MailEntry)
  BY DEF TypeOK
<1>3. \A i \in 1 .. Len(mailbox) : mailbox[i] \in W
  BY <1>1, <1>2, ElementIs DEF Silent
<1>4. \A i \in 1 .. Len(mailbox') : mailbox'[i] \in W
  BY <1>1, <1>3, MailAfter
<1> QED BY <1>1, <1>4 DEF Silent

(* The open-ok of an agent stays in the mailbox until it is taken. *)
LEMMA SpeaksKept ==
  ASSUME TypeOK, NEW n, NEW o, o \in OkOp, Speaks(o, n), Quiet(n)
  PROVE  Speaks(o, n)'
<1>0. mailbox \in Seq(MailEntry)
  BY DEF TypeOK
<1>1. PICK i \in 1 .. Len(mailbox) :
         /\ mailbox[i] = Entry(o, n)
         /\ \A j \in 1 .. Len(mailbox) : j # i /\ mailbox[j].op \in OkOp => mailbox[j].arg # n
  BY DEF Speaks
<1>2. PICK m : m = mailbox'
  OBVIOUS
<1>3. Entry(o, n).op = o /\ Entry(o, n).arg = n
  BY EntriesMade
<1>4. CASE mailbox # <<>> /\ mailbox' = Tail(mailbox) /\ ~(Head(mailbox).op \in OkOp /\ Head(mailbox).arg = n)
  <2>1. /\ Head(mailbox) = mailbox[1] /\ Len(mailbox) \in Nat /\ Len(m) = Len(mailbox) - 1
        /\ \A j \in 1 .. (Len(mailbox) - 1) : m[j] = mailbox[j + 1]
    BY <1>0, <1>2, <1>4, TailIs
  <2>2. i # 1
    BY <1>1, <1>3, <1>4, <2>1
  <2>3. i - 1 \in 1 .. Len(m) /\ m[i - 1] = Entry(o, n)
    BY <1>1, <2>1, <2>2
  <2>4. ASSUME NEW j \in 1 .. Len(m), j # i - 1, m[j].op \in OkOp PROVE m[j].arg # n
    <3>1. j + 1 \in 1 .. Len(mailbox) /\ j + 1 # i /\ m[j] = mailbox[j + 1]
      BY <2>1, <2>4
    <3> QED BY <1>1, <2>4, <3>1
  <2> QED BY <1>2, <2>3, <2>4 DEF Speaks
<1>5. CASE mailbox' = mailbox
  BY <1>5 DEF Speaks
<1>6. ASSUME NEW e \in MailEntry, mailbox' = Append(mailbox, e), ~(e.op \in OkOp /\ e.arg = n)
      PROVE  Speaks(o, n)'
  <2>1. /\ Len(m) = Len(mailbox) + 1 /\ Len(mailbox) \in Nat /\ m[Len(mailbox) + 1] = e
        /\ \A j \in 1 .. Len(mailbox) : m[j] = mailbox[j]
    BY <1>0, <1>2, <1>6, AppendIs
  <2>2. i \in 1 .. Len(m) /\ m[i] = Entry(o, n)
    BY <1>1, <2>1
  <2>3. ASSUME NEW j \in 1 .. Len(m), j # i, m[j].op \in OkOp PROVE m[j].arg # n
    <3>1. j \in 1 .. Len(mailbox) \/ j = Len(mailbox) + 1
      BY <2>1
    <3> QED BY <1>1, <1>6, <2>1, <2>3, <3>1
  <2> QED BY <1>2, <2>2, <2>3 DEF Speaks
<1> QED BY <1>4, <1>5, <1>6 DEF Quiet

(* An agent that was silent posts an open-ok. *)
LEMMA SpeaksUp ==
  ASSUME TypeOK, NEW n \in Threads, NEW o, o \in OkOp, Silent(n), mailbox' = Append(mailbox, Entry(o, n))
  PROVE  Speaks(o, n)'
<1>0. mailbox \in Seq(MailEntry)
  BY DEF TypeOK
<1>1. PICK e \in MailEntry : e = Entry(o, n)
  BY EntriesMade DEF OkOp
<1>2. PICK m : m = mailbox'
  OBVIOUS
<1>3. /\ Len(m) = Len(mailbox) + 1 /\ Len(mailbox) \in Nat /\ m[Len(mailbox) + 1] = e
      /\ \A j \in 1 .. Len(mailbox) : m[j] = mailbox[j]
  BY <1>0, <1>1, <1>2, AppendIs
<1>4. Len(mailbox) + 1 \in 1 .. Len(m)
  BY <1>3
<1>5. ASSUME NEW j \in 1 .. Len(m), j # Len(mailbox) + 1, m[j].op \in OkOp PROVE m[j].arg # n
  <2>1. j \in 1 .. Len(mailbox)
    BY <1>3, <1>5
  <2> QED BY <1>3, <1>5, <2>1 DEF Silent
<1> QED BY <1>1, <1>2, <1>3, <1>4, <1>5 DEF Speaks

(* The open-ok of an agent is taken. *)
LEMMA SpeaksTaken ==
  ASSUME TypeOK, NEW n, NEW o, o \in OkOp, Take(o), Head(mailbox).arg = n
  PROVE  /\ ~Silent(n)
         /\ \A p \in OkOp : Speaks(p, n) => p = o /\ Silent(n)'
<1>0. /\ mailbox \in Seq(MailEntry) /\ mailbox # <<>> /\ Head(mailbox).op = o
      /\ mailbox' = Tail(mailbox)
  BY TakeIs DEF TypeOK
<1>1. PICK m : m = mailbox'
  OBVIOUS
<1>2. /\ Head(mailbox) = mailbox[1] /\ Len(mailbox) \in Nat /\ Len(mailbox) >= 1
      /\ Len(m) = Len(mailbox) - 1 /\ \A j \in 1 .. (Len(mailbox) - 1) : m[j] = mailbox[j + 1]
  BY <1>0, <1>1, TailIs
<1>3. 1 \in 1 .. Len(mailbox) /\ mailbox[1].op = o /\ mailbox[1].arg = n
  BY <1>0, <1>2
<1>4. ~Silent(n)
  BY <1>3 DEF Silent
<1>5. ASSUME NEW p \in OkOp, Speaks(p, n) PROVE p = o /\ Silent(n)'
  <2>1. PICK i \in 1 .. Len(mailbox) :
           /\ mailbox[i] = Entry(p, n)
           /\ \A j \in 1 .. Len(mailbox) : j # i /\ mailbox[j].op \in OkOp => mailbox[j].arg # n
    BY <1>5 DEF Speaks
  <2>2. i = 1
    BY <1>3, <2>1
  <2>3. p = o
    BY <1>3, <2>1, <2>2, EntriesMade
  <2>4. ASSUME NEW j \in 1 .. Len(m), m[j].op \in OkOp PROVE m[j].arg # n
    <3>1. j + 1 \in 1 .. Len(mailbox) /\ j + 1 # i /\ m[j] = mailbox[j + 1]
      BY <1>2, <2>2
    <3> QED BY <2>1, <2>4, <3>1
  <2> QED BY <1>1, <2>3, <2>4 DEF Silent
<1> QED BY <1>4, <1>5

(* The link of agent n, when a step does not touch it. *)
LEMMA StageAway ==
  ASSUME TypeOK, NEW n \in Threads, Stage(n), Quiet(n), connected' = connected,
         phase'[n] = phase[n], outbox'[n] = outbox[n], declared'[n] = declared[n],
         remote'[n] = remote[n], connected /\ phase[n] # "zombie" => bindings' = bindings
  PROVE  Stage(n)'
<1>1. Silent(n) => Silent(n)'
  BY SilentKept DEF Quiet
<1>2. \A o \in OkOp : Speaks(o, n) => Speaks(o, n)'
  BY SpeaksKept
<1>3. "connection_open_ok" \in OkOp /\ "channel_open_ok" \in OkOp
  BY DEF OkOp
<1>4. Fresh(n) => Fresh(n)'
  BY DEF Fresh
<1>5. CASE phase[n] = "zombie"
  BY <1>5 DEF Stage
<1>6. CASE connected /\ phase[n] = "open" /\ Silent(n) /\ Running(n)
  <2>1. Running(n)'
    BY <1>6 DEF Running
  <2> QED BY <1>1, <1>6, <2>1 DEF Stage
<1>7. CASE ~connected /\ (Connecting(n) \/ Confirmed(n) \/ Told(n) \/ Opening(n) \/ Opened(n))
  <2>1. Connecting(n) => Connecting(n)'
    BY <1>1, <1>4 DEF Connecting
  <2>2. Confirmed(n) => Confirmed(n)'
    BY <1>2, <1>3, <1>4 DEF Confirmed
  <2>3. Told(n) => Told(n)'
    BY <1>1 DEF Told
  <2>4. Opening(n) => Opening(n)'
    BY <1>1, <1>4 DEF Opening
  <2>5. Opened(n) => Opened(n)'
    BY <1>2, <1>3, <1>4 DEF Opened
  <2> QED BY <1>7, <2>1, <2>2, <2>3, <2>4, <2>5 DEF Stage
<1> QED BY <1>5, <1>6, <1>7 DEF Stage

(* One more method is pushed to an agent whose link is up. *)
LEMMA RunningPush ==
  ASSUME TypeOK, NEW t \in Threads, Running(t), NEW e \in OutEntry, e.op \in LinkOp,
         outbox'[t] = outbox[t] \o <<e>>, declared'[t] = declared[t], remote'[t] = remote[t],
         \A k \in Keys : /\ e = Entry("bind", k) => k \in ToSet(bindings')
                         /\ e = Entry("unbind", k) => k \notin ToSet(bindings')
                         /\ e # Entry("bind", k) /\ e # Entry("unbind", k)
                               => (k \in ToSet(bindings') <=> k \in ToSet(bindings))
  PROVE  Running(t)'
<1>1. PICK s, r : s = outbox[t] /\ r = outbox'[t] /\ s \in Seq(OutEntry) /\ r = s \o <<e>>
  BY DEF TypeOK
<1>2. /\ Len(s) \in Nat /\ Len(r) = Len(s) + 1 /\ r[Len(s) + 1] = e /\ r \in Seq(OutEntry)
      /\ \A i \in 1 .. Len(s) : r[i] = s[i]
  <2>1. r = Append(s, e)
    BY <1>1
  <2> QED BY <1>1, <2>1, AppendIs
<1>3. \A i \in 1 .. Len(r) : r[i].op \in LinkOp
  <2>1. \A i \in 1 .. Len(r) : i \in 1 .. Len(s) \/ i = Len(s) + 1
    BY <1>2
  <2> QED BY <1>1, <1>2, <2>1 DEF Running
<1>4. declared'[t] \/ (r # <<>> /\ Head(r).op = "declare")
  <2>1. CASE declared[t]
    BY <2>1
  <2>2. CASE ~declared[t]
    <3>1. s # <<>> /\ Head(s).op = "declare"
      BY <1>1, <2>2 DEF Running
    <3>2. Head(s) = s[1] /\ Len(s) >= 1
      BY <1>1, <3>1
    <3>3. r # <<>> /\ Head(r) = r[1] /\ r[1] = s[1]
      BY <1>2, <3>2
    <3> QED BY <3>1, <3>2, <3>3
  <2> QED BY <2>1, <2>2
<1>5. ASSUME NEW k \in Keys PROVE Bound(k, r, remote'[t]) <=> k \in ToSet(bindings')
  <2>1. Bound(k, s, remote[t]) <=> k \in ToSet(bindings)
    BY <1>1 DEF Running
  <2>2. PICK R : R = remote[t]
    OBVIOUS
  <2>3. /\ e = Entry("bind", k) => Bound(k, r, R)
        /\ e = Entry("unbind", k) => ~Bound(k, r, R)
        /\ e # Entry("bind", k) /\ e # Entry("unbind", k) => (Bound(k, r, R) <=> Bound(k, s, R))
    BY <1>1, BoundAppend
  <2> QED BY <2>1, <2>2, <2>3
<1> QED BY <1>1, <1>3, <1>4, <1>5 DEF Running

(* The link of the current agent, when the peering handles a method. *)
LEMMA StageHandle ==
  ASSUME TypeOK, Handle, ~stale', NEW t \in Threads, t = thread, Stage(t)
  PROVE  Stage(t)'
<1>0. /\ bindings \in Seq(Keys) /\ IsInjective(bindings) /\ t # NoThread
      /\ t \in Threads \cup {NoThread} /\ outbox[t] \in Seq(OutEntry)
  BY DEF TypeOK, Threads, NoThread
<1>1. UNCHANGED <<phase, declared, remote, thread>>
  BY HandlePushes
<1>2. ASSUME NEW o, Take(o), o \notin OkOp PROVE Quiet(t)
  BY <1>2 DEF Take, Quiet
<1>3. CASE HandleStart \/ HandleStop
  <2>1. Quiet(t)
    BY <1>2, <1>3 DEF HandleStart, HandleStop, OkOp
  <2> QED BY <1>1, <1>3, <2>1, StageAway DEF HandleStart, HandleStop, agents
<1>4. ASSUME NEW e \in OutEntry, e.op \in LinkOp, connected, connected' = connected, Quiet(t),
             Push(thread, <<e>>),
             \A k \in Keys : /\ e = Entry("bind", k) => k \in ToSet(bindings')
                             /\ e = Entry("unbind", k) => k \notin ToSet(bindings')
                             /\ e # Entry("bind", k) /\ e # Entry("unbind", k)
                                   => (k \in ToSet(bindings') <=> k \in ToSet(bindings))
      PROVE  Stage(t)'
  <2>1. <<e>> \in Seq(OutEntry)
    OBVIOUS
  <2>2. PICK es \in Seq(OutEntry) : es = <<e>>
    BY <2>1
  <2>3. /\ t = NoThread \/ phase[t] = "zombie" => outbox' = outbox
        /\ ~(t = NoThread \/ phase[t] = "zombie") => outbox'[t] = outbox[t] \o es
    <3>1. Push(t, es)
      BY <1>4, <2>2
    <3> QED BY <1>0, <3>1, PushIs
  <2>4. CASE phase[t] = "zombie"
    BY <1>1, <2>4 DEF Stage
  <2>5. CASE phase[t] # "zombie"
    <3>1. phase[t] = "open" /\ Silent(t) /\ Running(t)
      BY <1>4, <2>5 DEF Stage
    <3>2. outbox'[t] = outbox[t] \o <<e>> /\ declared'[t] = declared[t] /\ remote'[t] = remote[t]
      BY <1>0, <1>1, <2>2, <2>3, <2>5
    <3>3. Running(t)'
      BY <1>4, <3>1, <3>2, RunningPush
    <3>4. Silent(t)'
      BY <1>4, <3>1, SilentKept DEF Quiet
    <3> QED BY <1>1, <1>4, <3>1, <3>3, <3>4 DEF Stage
  <2> QED BY <2>4, <2>5
<1>5. CASE HandleBind
  <2>1. Take("bind") /\ connected' = connected
    BY <1>5 DEF HandleBind
  <2>2. Quiet(t)
    BY <1>2, <2>1 DEF OkOp
  <2>3. Head(mailbox) \in MailEntry /\ Head(mailbox).op = "bind"
    BY <2>1, TakeIs
  <2>4. PICK k \in Keys : k = Head(mailbox).arg
    BY <2>3, MailEntryIs
  <2>5. CASE Known(k)
    BY <1>1, <1>5, <2>1, <2>2, <2>4, <2>5, StageAway DEF HandleBind
  <2>6. CASE ~Known(k) /\ ~connected
    BY <1>1, <1>5, <2>1, <2>2, <2>4, <2>6, StageAway DEF HandleBind, PushBind
  <2>7. CASE ~Known(k) /\ connected
    <3>1. Push(thread, <<Entry("bind", k)>>) /\ bindings' = Append(bindings, k)
      BY <1>5, <2>4, <2>7 DEF HandleBind, PushBind
    <3>2. PICK e \in OutEntry : e = Entry("bind", k) /\ e.op = "bind" /\ e.arg = k
      BY EntriesMade
    <3>3. ToSet(bindings') = ToSet(bindings) \cup {k}
      BY <1>0, <3>1, AppendSet
    <3>4. \A j \in Keys : /\ e = Entry("bind", j) => k = j
                          /\ e # Entry("bind", j) => k # j
                          /\ e # Entry("unbind", j)
      BY <3>2, EntriesMade
    <3>5. \A j \in Keys : /\ e = Entry("bind", j) => j \in ToSet(bindings')
                          /\ e = Entry("unbind", j) => j \notin ToSet(bindings')
                          /\ e # Entry("bind", j) /\ e # Entry("unbind", j)
                                => (j \in ToSet(bindings') <=> j \in ToSet(bindings))
      BY <3>3, <3>4
    <3>6. e.op \in LinkOp /\ Push(thread, <<e>>)
      BY <3>1, <3>2 DEF LinkOp
    <3> QED BY <1>4, <2>1, <2>2, <2>7, <3>5, <3>6
  <2> QED BY <2>5, <2>6, <2>7
<1>6. CASE HandleUnbind
  <2>1. Take("unbind") /\ connected' = connected
    BY <1>6 DEF HandleUnbind
  <2>2. Quiet(t)
    BY <1>2, <2>1 DEF OkOp
  <2>3. Head(mailbox) \in MailEntry /\ Head(mailbox).op = "unbind"
    BY <2>1, TakeIs
  <2>4. PICK k \in Keys : k = Head(mailbox).arg
    BY <2>3, MailEntryIs
  <2>5. CASE ~connected
    BY <1>1, <1>6, <2>1, <2>2, <2>4, <2>5, StageAway DEF HandleUnbind
  <2>6. CASE connected
    <3>1. Push(thread, <<Entry("unbind", k)>>) /\ bindings' = RemoveFirst(bindings, k)
      BY <1>6, <2>4, <2>6 DEF HandleUnbind
    <3>2. PICK e \in OutEntry : e = Entry("unbind", k) /\ e.op = "unbind" /\ e.arg = k
      BY EntriesMade
    <3>3. ToSet(bindings') = ToSet(bindings) \ {k}
      <4>1. /\ ToSet(RemoveFirst(bindings, k)) \subseteq ToSet(bindings)
            /\ \A x \in ToSet(bindings) : x # k => x \in ToSet(RemoveFirst(bindings, k))
            /\ k \notin ToSet(RemoveFirst(bindings, k))
        BY <1>0, RemoveFirstIs
      <4> QED BY <3>1, <4>1
    <3>4. \A j \in Keys : /\ e = Entry("unbind", j) => k = j
                          /\ e # Entry("unbind", j) => k # j
                          /\ e # Entry("bind", j)
      BY <3>2, EntriesMade
    <3>5. \A j \in Keys : /\ e = Entry("bind", j) => j \in ToSet(bindings')
                          /\ e = Entry("unbind", j) => j \notin ToSet(bindings')
                          /\ e # Entry("bind", j) /\ e # Entry("unbind", j)
                                => (j \in ToSet(bindings') <=> j \in ToSet(bindings))
      BY <3>3, <3>4
    <3>6. e.op \in LinkOp /\ Push(thread, <<e>>)
      BY <3>1, <3>2 DEF LinkOp
    <3> QED BY <1>4, <2>1, <2>2, <2>6, <3>5, <3>6
  <2> QED BY <2>5, <2>6
<1>7. CASE HandleForward
  <2>1. Take("publish") /\ connected' = connected /\ bindings' = bindings
    BY <1>7 DEF HandleForward
  <2>2. Quiet(t)
    BY <1>2, <2>1 DEF OkOp
  <2>3. Head(mailbox) \in MailEntry /\ Head(mailbox).op = "publish"
    BY <2>1, TakeIs
  <2>4. PICK c \in 1 .. MaxForwards : c = Head(mailbox).arg
    BY <2>3, MailEntryIs
  <2>5. CASE ~connected
    BY <1>1, <1>7, <2>1, <2>2, <2>4, <2>5, StageAway DEF HandleForward, HoldOrPush
  <2>6. CASE connected
    <3>1. Push(thread, <<Entry("publish", c)>>)
      BY <1>7, <2>4, <2>6 DEF HandleForward, HoldOrPush
    <3>2. PICK e \in OutEntry : e = Entry("publish", c)
      BY EntriesMade
    <3>3. e.op = "publish"
      BY <3>2, EntriesMade
    <3>4. \A j : e # Entry("bind", j) /\ e # Entry("unbind", j)
      BY <3>3, EntriesMade
    <3>5. e.op \in LinkOp /\ Push(thread, <<e>>)
      BY <3>1, <3>2, <3>3 DEF LinkOp
    <3> QED BY <1>4, <2>1, <2>2, <2>6, <3>4, <3>5
  <2> QED BY <2>5, <2>6
<1>8. CASE HandleConnectionOpenOk
  <2>1. Take("connection_open_ok") /\ Head(mailbox).arg = t /\ UNCHANGED <<connected, bindings>>
    BY <1>8 DEF HandleConnectionOpenOk, peering
  <2>2. "connection_open_ok" \in OkOp /\ "channel_open_ok" \in OkOp
        /\ "channel_open_ok" # "connection_open_ok"
    BY DEF OkOp
  <2>3. /\ ~Silent(t) /\ ~Speaks("channel_open_ok", t)
        /\ Speaks("connection_open_ok", t) => Silent(t)'
    BY <2>1, <2>2, SpeaksTaken
  <2>4. CASE phase[t] = "zombie"
    BY <1>1, <2>4 DEF Stage
  <2>5. CASE phase[t] # "zombie"
    <3>1. ~connected /\ Confirmed(t)
      BY <2>3, <2>5 DEF Stage, Connecting, Told, Opening, Opened
    <3>2. <<Entry("channel_open", NoThread)>> \in Seq(OutEntry)
      BY EntriesMade
    <3>3. PICK es \in Seq(OutEntry) : es = <<Entry("channel_open", NoThread)>>
      BY <3>2
    <3>4. Push(t, es)
      BY <1>8, <3>3 DEF HandleConnectionOpenOk
    <3>5. outbox'[t] = outbox[t] \o es
      BY <1>0, <2>5, <3>4, PushIs
    <3>6. outbox'[t] = <<Entry("channel_open", NoThread)>>
      <4>1. outbox[t] = <<>>
        BY <3>1 DEF Confirmed, Fresh
      <4>2. <<>> \o es = es
        OBVIOUS
      <4> QED BY <3>3, <3>5, <4>1, <4>2
    <3>7. Silent(t)'
      BY <2>3, <3>1 DEF Confirmed
    <3>8. Told(t)'
      BY <1>1, <3>1, <3>6, <3>7 DEF Told, Confirmed, Fresh
    <3> QED BY <2>1, <3>1, <3>8 DEF Stage
  <2> QED BY <2>4, <2>5
<1>9. CASE HandleChannelOpenOk
  <2>1. Take("channel_open_ok") /\ Head(mailbox).arg = t /\ UNCHANGED bindings
    BY <1>9 DEF HandleChannelOpenOk
  <2>2. "connection_open_ok" \in OkOp /\ "channel_open_ok" \in OkOp
        /\ "channel_open_ok" # "connection_open_ok"
    BY DEF OkOp
  <2>3. /\ ~Silent(t) /\ ~Speaks("connection_open_ok", t)
        /\ Speaks("channel_open_ok", t) => Silent(t)'
    BY <2>1, <2>2, SpeaksTaken
  <2>4. CASE phase[t] = "zombie"
    BY <1>1, <2>4 DEF Stage
  <2>5. CASE phase[t] # "zombie"
    <3>1. ~connected /\ Opened(t)
      BY <2>3, <2>5 DEF Stage, Connecting, Told, Opening, Confirmed
    <3>2. connected' /\ Push(thread, Replay)
      BY <1>9, <3>1 DEF HandleChannelOpenOk
    <3>3. PICK es \in Seq(OutEntry) : es = Replay
      BY ReplayIs
    <3>4. Push(t, es)
      BY <3>2, <3>3
    <3>5. outbox'[t] = outbox[t] \o es
      BY <1>0, <2>5, <3>4, PushIs
    <3>6. outbox'[t] = es
      <4>1. outbox[t] = <<>>
        BY <3>1 DEF Opened, Fresh
      <4>2. <<>> \o es = es
        OBVIOUS
      <4> QED BY <3>5, <4>1, <4>2
    <3>7. /\ \A k : Bound(k, es, {}) <=> k \in ToSet(bindings)
          /\ \A i \in 1 .. Len(es) : es[i].op \in LinkOp
          /\ es # <<>> /\ Head(es).op = "declare"
      BY <3>3, BoundReplay
    <3>8. remote'[t] = {} /\ bindings' = bindings
      BY <1>1, <2>1, <3>1 DEF Opened, Fresh
    <3>9. Running(t)'
      BY <3>6, <3>7, <3>8 DEF Running
    <3>10. Silent(t)' /\ phase'[t] = "open"
      BY <1>1, <2>3, <3>1 DEF Opened
    <3> QED BY <3>2, <3>9, <3>10 DEF Stage
  <2> QED BY <2>4, <2>5
<1> QED BY <1>3, <1>5, <1>6, <1>7, <1>8, <1>9 DEF Handle

(* The remote server handles an entry of an agent whose link is up. *)
LEMMA RunningHandles ==
  ASSUME TypeOK, NEW t \in Threads, Running(t), RemoteHandles(t)
  PROVE  Running(t)' /\ phase'[t] = phase[t]
<1>0. /\ outbox[t] \in Seq(OutEntry) /\ outbox[t] # <<>> /\ Sent(t) /\ bindings' = bindings
      /\ declared \in [Threads -> BOOLEAN] /\ remote \in [Threads -> SUBSET Keys]
  BY DEF TypeOK, RemoteHandles, peering
<1>1. PICK s, r, e : /\ s = outbox[t] /\ r = outbox'[t] /\ e = Head(s) /\ r = Tail(s)
                     /\ s \in Seq(OutEntry) /\ s # <<>>
  BY <1>0, SentIs
<1>2. /\ e \in OutEntry /\ r \in Seq(OutEntry) /\ e = s[1] /\ Len(s) \in Nat /\ Len(s) >= 1
      /\ Len(r) = Len(s) - 1 /\ \A i \in 1 .. (Len(s) - 1) : r[i] = s[i + 1]
  BY <1>1, TailIs
<1>3. \A i \in 1 .. Len(r) : r[i].op \in LinkOp
  <2>1. \A i \in 1 .. Len(r) : i + 1 \in 1 .. Len(s) /\ r[i] = s[i + 1]
    BY <1>2
  <2> QED BY <1>1, <2>1 DEF Running
<1>4. declared[t] \/ e.op = "declare"
  BY <1>1 DEF Running
<1>5. declared'[t] /\ phase' = phase /\ remote'[t] = AfterEntry(e, remote[t])
  <2>1. CASE e.op = "declare"
    BY <1>0, <1>1, <2>1 DEF RemoteHandles, AfterEntry
  <2>2. CASE e.op = "bind"
    BY <1>0, <1>1, <1>4, <2>2 DEF RemoteHandles, AfterEntry
  <2>3. CASE e.op = "unbind"
    BY <1>0, <1>1, <1>4, <2>3 DEF RemoteHandles, AfterEntry
  <2>4. CASE e.op = "publish"
    BY <1>0, <1>1, <1>4, <2>4 DEF RemoteHandles, AfterEntry
  <2>5. e.op \in {"declare", "bind", "unbind", "publish"}
    BY <1>1 DEF RemoteHandles
  <2> QED BY <2>1, <2>2, <2>3, <2>4, <2>5
<1>6. ASSUME NEW k \in Keys PROVE Bound(k, r, remote'[t]) <=> k \in ToSet(bindings')
  <2>1. Bound(k, s, remote[t]) <=> k \in ToSet(bindings)
    BY <1>1 DEF Running
  <2>2. PICK R : R = remote[t]
    OBVIOUS
  <2>3. Bound(k, s, R) <=> Bound(k, r, AfterEntry(e, R))
    BY <1>1, BoundTail
  <2> QED BY <1>0, <1>5, <2>1, <2>2, <2>3
<1> QED BY <1>1, <1>3, <1>5, <1>6 DEF Running

(* The link of the current agent, when an agent takes a step. *)
LEMMA StageAgent ==
  ASSUME TypeOK, NEW t \in Threads, Stage(t), NEW n \in Threads,
         Agent(n) \/ Break(n) \/ RemoteEnds(n)
  PROVE  Stage(t)'
<1>0. /\ UNCHANGED <<connected, bindings>>
      /\ \A m \in Threads : m # n => /\ phase'[m] = phase[m] /\ outbox'[m] = outbox[m]
                                     /\ declared'[m] = declared[m] /\ remote'[m] = remote[m]
                                     /\ Quiet(m)
  BY AgentFrame DEF peering
<1>1. CASE n # t
  BY <1>0, <1>1, StageAway
<1>2. CASE n = t
  <2>0. /\ phase \in [Threads -> Phase] /\ outbox[t] \in Seq(OutEntry)
        /\ "connection_open_ok" \in OkOp /\ "channel_open_ok" \in OkOp
    BY DEF TypeOK, OkOp
  <2>1. CASE AgentOpens(t)
    <3>1. ~connected /\ Connecting(t)
      BY <2>1 DEF AgentOpens, Stage, Confirmed, Told, Opening, Opened
    <3>2. Speaks("connection_open_ok", t)'
      BY <2>0, <2>1, <3>1, SpeaksUp DEF AgentOpens, Connecting
    <3>3. phase'[t] = "confirmed" /\ Fresh(t)'
      BY <2>0, <2>1, <3>1 DEF AgentOpens, Connecting, Fresh
    <3> QED BY <1>0, <3>1, <3>2, <3>3 DEF Stage, Confirmed
  <2>2. CASE AgentChannelOpens(t)
    <3>1. ~connected /\ Opening(t)
      BY <2>2 DEF AgentChannelOpens, Stage, Confirmed, Told, Connecting, Opened
    <3>2. Speaks("channel_open_ok", t)'
      BY <2>0, <2>2, <3>1, SpeaksUp DEF AgentChannelOpens, Opening
    <3>3. phase'[t] = "open" /\ Fresh(t)'
      BY <2>0, <2>2, <3>1 DEF AgentChannelOpens, Opening, Fresh
    <3> QED BY <1>0, <3>1, <3>2, <3>3 DEF Stage, Opened
  <2>3. CASE AgentActive(t)
    <3>1. phase[t] = "confirmed" /\ phase'[t] = "active" /\ UNCHANGED <<outbox, declared, remote, mailbox>>
      BY <2>0, <2>3 DEF AgentActive
    <3>2. ~connected /\ (Confirmed(t) \/ Told(t))
      BY <3>1 DEF Stage, Connecting, Opening, Opened
    <3>3. Confirmed(t) => Confirmed(t)'
      BY <3>1 DEF Confirmed, Fresh, Speaks
    <3>4. Told(t) => Told(t)'
      BY <3>1 DEF Told, Silent
    <3> QED BY <1>0, <3>2, <3>3, <3>4 DEF Stage
  <2>4. CASE AgentStuck(t)
    <3>1. /\ phase[t] \in {"setup", "confirmed"} /\ phase'[t] = "stuck" /\ outbox[t] # <<>>
          /\ UNCHANGED <<outbox, declared, remote, mailbox>>
      BY <2>0, <2>4 DEF AgentStuck
    <3>2. ~connected /\ Told(t)
      BY <3>1 DEF Stage, Connecting, Confirmed, Opening, Opened, Fresh
    <3>3. Told(t)'
      BY <3>1, <3>2 DEF Told, Silent
    <3> QED BY <1>0, <3>2, <3>3 DEF Stage
  <2>5. CASE Quits(t)
    <3>1. phase'[t] = "zombie"
      BY <2>5, QuitIs
    <3> QED BY <3>1 DEF Stage
  <2>6. CASE AgentOpensChannel(t)
    <3>1. /\ phase[t] = "active" /\ phase'[t] = "opening" /\ outbox[t] # <<>> /\ Sent(t)
          /\ UNCHANGED <<declared, remote, mailbox>>
      BY <2>0, <2>6 DEF AgentOpensChannel
    <3>2. ~connected /\ Told(t)
      BY <3>1 DEF Stage, Connecting, Confirmed, Opening, Opened, Fresh
    <3>3. outbox'[t] = Tail(outbox[t])
      BY <3>1, SentIs
    <3>4. outbox'[t] = <<>>
      BY <3>2, <3>3 DEF Told
    <3>5. Opening(t)'
      BY <3>1, <3>2, <3>4 DEF Told, Opening, Fresh, Silent
    <3> QED BY <1>0, <3>2, <3>5 DEF Stage
  <2>7. CASE AgentDiscards(t)
    <3>1. /\ phase[t] \in {"active", "opening"} /\ outbox[t] # <<>>
          /\ Head(outbox[t]).op \in {"declare", "bind", "unbind", "publish"}
      BY <2>7 DEF AgentDiscards
    <3>2. Told(t)
      BY <3>1 DEF Stage, Connecting, Confirmed, Opening, Opened, Fresh
    <3>3. Head(outbox[t]) = Entry("channel_open", NoThread)
      BY <3>2 DEF Told
    <3>4. Head(outbox[t]).op = "channel_open"
      BY <3>3, EntriesMade
    <3> QED BY <3>1, <3>4
  <2>8. CASE RemoteHandles(t)
    <3>1. phase[t] \in {"open", "zombie"} /\ outbox[t] # <<>> /\ mailbox' = mailbox
      BY <2>8 DEF RemoteHandles
    <3>2. CASE phase[t] = "zombie"
      <4>1. phase'[t] = "zombie"
        BY <2>8, <3>2 DEF RemoteHandles
      <4> QED BY <4>1 DEF Stage
    <3>3. CASE phase[t] = "open"
      <4>1. connected /\ Silent(t) /\ Running(t)
        BY <3>1, <3>3 DEF Stage, Connecting, Confirmed, Told, Opening, Opened, Fresh
      <4>2. Running(t)' /\ phase'[t] = "open"
        BY <2>8, <3>3, <4>1, RunningHandles
      <4>3. Silent(t)'
        BY <3>1, <4>1 DEF Silent
      <4> QED BY <1>0, <4>1, <4>2, <4>3 DEF Stage
    <3> QED BY <3>1, <3>2, <3>3
  <2> QED BY <1>2, <2>1, <2>2, <2>3, <2>4, <2>5, <2>6, <2>7, <2>8 DEF Agent, Quits
<1> QED BY <1>1, <1>2

(* The thread changes only when the monitor says so. *)
LEMMA ThreadMoves ==
  ASSUME TypeOK, Next
  PROVE  \/ Handle /\ UNCHANGED <<thread, phase, declared, remote>>
         \/ Caller /\ UNCHANGED <<peering, agents, lost, stale>>
         \/ MonitorTerminate
         \/ MonitorConnect
         \/ \E n \in Threads : /\ Agent(n) \/ Break(n) \/ RemoteEnds(n)
                               /\ UNCHANGED <<peering, stale>>
<1>1. ASSUME Caller PROVE UNCHANGED <<peering, agents, lost, stale>>
  BY <1>1 DEF Caller, PostStart, PostStop, PostForward, PostBind, PostUnbind
<1>2. ASSUME NEW n \in Threads, Agent(n) \/ Break(n) \/ RemoteEnds(n)
      PROVE  UNCHANGED <<peering, stale>>
  BY <1>2, AgentFrame
<1> QED BY <1>1, <1>2, HandlePushes DEF Next, Monitor

(* What the caller posts is no open-ok. *)
LEMMA CallerPosts ==
  ASSUME TypeOK, Caller
  PROVE  \E e \in MailEntry : mailbox' = Append(mailbox, e) /\ e.op \notin OkOp
<1>1. ASSUME NEW o \in {"start", "stop", "bind", "unbind", "publish"}, NEW a,
             Entry(o, a) \in MailEntry, Post(o, a)
      PROVE  \E e \in MailEntry : mailbox' = Append(mailbox, e) /\ e.op \notin OkOp
  <2>1. Entry(o, a).op \notin OkOp
    BY EntriesMade DEF OkOp
  <2> QED BY <1>1, <2>1 DEF Post
<1>2. CASE PostStart
  <2>1. Entry("start", NoThread) \in MailEntry
    BY EntriesMade
  <2> QED BY <1>1, <1>2, <2>1 DEF PostStart
<1>3. CASE PostStop
  <2>1. Entry("stop", NoThread) \in MailEntry
    BY EntriesMade
  <2> QED BY <1>1, <1>3, <2>1 DEF PostStop
<1>4. ASSUME NEW k \in Keys, PostBind(k) \/ PostUnbind(k)
      PROVE  \E e \in MailEntry : mailbox' = Append(mailbox, e) /\ e.op \notin OkOp
  <2>1. Entry("bind", k) \in MailEntry /\ Entry("unbind", k) \in MailEntry
    BY EntriesMade
  <2> QED BY <1>1, <1>4, <2>1 DEF PostBind, PostUnbind
<1>5. CASE PostForward
  <2>1. calls["forward"] \in Nat /\ calls["forward"] < MaxForwards
    BY <1>5 DEF PostForward, TypeOK, Call
  <2>2. calls["forward"] + 1 \in 1 .. MaxForwards
    BY <2>1, PeeringAssumption
  <2>3. PICK c \in 1 .. MaxForwards : c = calls["forward"] + 1
    BY <2>2
  <2>4. Entry("publish", c) \in MailEntry /\ Post("publish", c)
    BY <1>5, <2>3, EntriesMade DEF PostForward
  <2> QED BY <1>1, <2>4
<1> QED BY <1>2, <1>3, <1>4, <1>5 DEF Caller

(* A step that is not an agent's brings no open-ok into the mailbox. *)
LEMMA NoOk ==
  ASSUME TypeOK, Next, Caller \/ Handle \/ Monitor
  PROVE  \/ mailbox # <<>> /\ mailbox' = Tail(mailbox)
         \/ mailbox' = mailbox
         \/ \E e \in MailEntry : mailbox' = Append(mailbox, e) /\ e.op \notin OkOp
<1>1. CASE Handle
  BY <1>1 DEF Handle, HandleStart, HandleStop, HandleBind, HandleUnbind, HandleForward,
              HandleConnectionOpenOk, HandleChannelOpenOk, Take
<1>2. CASE Monitor
  BY <1>2 DEF Monitor, MonitorTerminate, MonitorConnect
<1> QED BY <1>1, <1>2, CallerPosts

(* An agent thread that was not created yet stays out of it. *)
LEMMA UnbornNext ==
  ASSUME TypeOK, Unborn, Next
  PROVE  Unborn'
<1> SUFFICES ASSUME NEW n \in Threads, phase'[n] = "none"
             PROVE  Fresh(n)' /\ Silent(n)' /\ n # thread'
  BY DEF Unborn
<1>0. /\ phase \in [Threads -> Phase] /\ outbox \in [Threads -> Seq(OutEntry)] /\ n # NoThread
      /\ thread \in Threads \cup {NoThread}
  BY DEF TypeOK, Threads, NoThread
<1>1. CASE Caller \/ Handle \/ Monitor
  <2>1. phase[n] = "none"
    <3>1. CASE MonitorConnect
      BY <1>0, <3>1 DEF MonitorConnect
    <3>2. CASE ~MonitorConnect
      <4>1. phase' = phase
        BY <1>1, <3>2, HandlePushes DEF Caller, PostStart, PostStop, PostForward, PostBind, PostUnbind,
           agents, Monitor, MonitorTerminate
      <4> QED BY <4>1
    <3> QED BY <3>1, <3>2
  <2>2. Fresh(n) /\ Silent(n) /\ n # thread
    BY <2>1 DEF Unborn
  <2>3. Silent(n)'
    BY <1>1, <2>2, NoOk, SilentKept
  <2>4. outbox'[n] = <<>>
    BY <2>2, OutMoves DEF Fresh
  <2>5. UNCHANGED <<declared, remote>>
    BY <1>1, HandlePushes DEF Caller, PostStart, PostStop, PostForward, PostBind, PostUnbind,
       agents, Monitor, MonitorTerminate, MonitorConnect
  <2>6. n # thread'
    <3>1. CASE MonitorConnect
      BY <1>0, <3>1 DEF MonitorConnect
    <3>2. CASE MonitorTerminate
      BY <1>0, <3>2 DEF MonitorTerminate
    <3>3. CASE Caller \/ Handle
      BY <2>2, <3>3, HandlePushes DEF Caller, PostStart, PostStop, PostForward, PostBind, PostUnbind,
         peering
    <3> QED BY <1>1, <3>1, <3>2, <3>3 DEF Monitor
  <2> QED BY <2>2, <2>3, <2>4, <2>5, <2>6 DEF Fresh
<1>2. ASSUME NEW m \in Threads, Agent(m) \/ Break(m) \/ RemoteEnds(m)
      PROVE  Fresh(n)' /\ Silent(n)' /\ n # thread'
  <2>1. /\ thread' = thread /\ phase'[m] # "none"
        /\ n # m => /\ phase'[n] = phase[n] /\ outbox'[n] = outbox[n]
                    /\ declared'[n] = declared[n] /\ remote'[n] = remote[n] /\ Quiet(n)
    BY <1>2, AgentFrame DEF peering
  <2>2. n # m
    BY <2>1
  <2>3. Fresh(n) /\ Silent(n) /\ n # thread
    BY <2>1, <2>2 DEF Unborn
  <2>4. Silent(n)'
    BY <2>1, <2>2, <2>3, SilentKept DEF Quiet
  <2> QED BY <2>1, <2>2, <2>3, <2>4 DEF Fresh
<1> QED BY <1>1, <1>2 DEF Next

(* The peering's view of its agent thread stays right. *)
LEMMA InStageNext ==
  ASSUME TypeOK, Unborn, InStage, Next
  PROVE  InStage'
<1> SUFFICES ASSUME ~stale' PROVE (thread' = NoThread => ~connected') /\ (thread' # NoThread => Stage(thread)')
  BY DEF InStage
<1>0. thread \in Threads \cup {NoThread} /\ phase \in [Threads -> Phase] /\ stale \in BOOLEAN
  BY DEF TypeOK
<1>1. ~stale
  BY DEF Next, Caller, PostStart, PostStop, PostForward, PostBind, PostUnbind, Handle, HandleStart,
         HandleStop, HandleBind, HandleUnbind, HandleForward, HandleConnectionOpenOk,
         HandleChannelOpenOk, Monitor, MonitorTerminate, MonitorConnect, Agent, AgentOpens,
         AgentActive, AgentChannelOpens, AgentStuck, AgentCloses, AgentOpensChannel, AgentDiscards,
         RemoteHandles, Break, RemoteEnds
<1>2. (thread = NoThread => ~connected) /\ (thread # NoThread => Stage(thread))
  BY <1>1 DEF InStage
<1>3. CASE MonitorTerminate
  BY <1>3 DEF MonitorTerminate, Disconnected
<1>4. CASE MonitorConnect
  <2>1. PICK n \in Threads : /\ phase[n] = "none" /\ phase' = [phase EXCEPT ![n] = "setup"]
                             /\ thread' = n
    BY <1>4 DEF MonitorConnect
  <2>2. /\ ~connected /\ UNCHANGED <<connected, mailbox, outbox, declared, remote>>
    BY <1>2, <1>4 DEF MonitorConnect
  <2>3. Silent(n) /\ Fresh(n) /\ n # NoThread
    BY <2>1 DEF Unborn, Threads, NoThread
  <2>4. Connecting(n)'
    BY <1>0, <2>1, <2>2, <2>3 DEF Connecting, Silent, Fresh
  <2>5. Stage(n)'
    BY <2>2, <2>4 DEF Stage
  <2>6. Stage(n)' => Stage(thread)'
    BY <2>1 DEF Stage, Connecting, Confirmed, Told, Opening, Opened, Running, Fresh, Silent, Speaks
  <2> QED BY <2>1, <2>3, <2>5, <2>6
<1>5. CASE /\ thread' = thread
           /\ Caller \/ Handle \/ \E n \in Threads : Agent(n) \/ Break(n) \/ RemoteEnds(n)
  <2>1. CASE thread = NoThread
    <3>1. ~Handle => connected' = connected
      BY <1>5, AgentFrame DEF Caller, PostStart, PostStop, PostForward, PostBind, PostUnbind, peering
    <3>2. Handle => connected' = connected
      <4> SUFFICES ASSUME Handle PROVE connected' = connected
        OBVIOUS
      <4>1. CASE HandleChannelOpenOk
        <5>1. Head(mailbox) \in MailEntry /\ Head(mailbox).op = "channel_open_ok"
          BY <4>1, TakeIs DEF HandleChannelOpenOk
        <5>2. Head(mailbox).arg \in Threads
          BY <5>1, MailEntryIs
        <5>3. Head(mailbox).arg = thread
          BY <4>1 DEF HandleChannelOpenOk
        <5> QED BY <2>1, <5>2, <5>3 DEF Threads, NoThread
      <4> QED BY <4>1 DEF Handle, HandleStart, HandleStop, HandleBind, HandleUnbind, HandleForward,
                          HandleConnectionOpenOk, peering
    <3> QED BY <1>2, <1>5, <2>1, <3>1, <3>2
  <2>2. CASE thread # NoThread
    <3>1. PICK t \in Threads : t = thread
      BY <1>0, <2>2
    <3>2. Stage(t)
      BY <1>2, <2>2, <3>1
    <3>3. ASSUME Caller PROVE Stage(t)'
      <4>1. Quiet(t)
        BY <3>3, CallerPosts DEF Quiet
      <4>2. UNCHANGED <<peering, agents>>
        BY <3>3 DEF Caller, PostStart, PostStop, PostForward, PostBind, PostUnbind
      <4> QED BY <3>2, <4>1, <4>2, StageAway DEF peering, agents
    <3>4. Stage(t)'
      BY <1>5, <3>1, <3>2, <3>3, StageHandle, StageAgent
    <3>5. Stage(t)' => Stage(thread)'
      BY <1>5, <3>1 DEF Stage, Connecting, Confirmed, Told, Opening, Opened, Running, Fresh, Silent, Speaks
    <3> QED BY <1>5, <2>2, <3>4, <3>5
  <2> QED BY <2>1, <2>2
<1> QED BY <1>3, <1>4, <1>5, ThreadMoves DEF peering


(* A push to an agent thread that lives drops nothing. *)
LEMMA PushDelivers ==
  ASSUME TypeOK, NEW es \in Seq(OutEntry), Push(thread, es), thread # NoThread,
         phase[thread] # "zombie"
  PROVE  lost' = lost
<1>1. thread \in Threads \cup {NoThread}
  BY DEF TypeOK
<1> QED BY <1>1, PushIs

(* A push of bindings drops no message. *)
LEMMA PushNoMessage ==
  ASSUME TypeOK, NEW e \in OutEntry, e.op # "publish", Push(thread, <<e>>)
  PROVE  lost' = lost
<1>1. thread \in Threads \cup {NoThread} /\ <<e>> \in Seq(OutEntry)
  BY DEF TypeOK
<1>2. Published(<<e>>) = {}
  BY PubOne DEF Pub1
<1> QED BY <1>1, <1>2, PushIs

(* The head of a mailbox that has only open-oks of the current thread. *)
LEMMA OkIsCurrent ==
  ASSUME TypeOK, NEW o \in OkOp, Take(o),
         \A i \in 1 .. Len(mailbox) : mailbox[i].op \in OkOp => mailbox[i].arg = thread
  PROVE  Head(mailbox).arg = thread /\ thread # NoThread
<1>1. mailbox # <<>> /\ mailbox \in Seq(MailEntry) /\ Head(mailbox) \in MailEntry
      /\ Head(mailbox).op = o
  BY TakeIs DEF TypeOK
<1>2. 1 \in 1 .. Len(mailbox) /\ Head(mailbox) = mailbox[1]
  BY <1>1
<1>3. Head(mailbox).arg = thread
  BY <1>1, <1>2
<1>4. Head(mailbox).arg \in Threads
  BY <1>1, MailEntryIs DEF OkOp
<1> QED BY <1>3, <1>4 DEF Threads, NoThread

(* As long as nothing broke and nothing was stopped, a method handled drops nothing. *)
LEMMA CalmHandle ==
  ASSUME TypeOK, InStage, Handle, ~stale, lost = {},
         \A n \in Threads : phase[n] # "zombie",
         \A i \in 1 .. Len(mailbox) : mailbox[i].op \in OkOp => mailbox[i].arg = thread
  PROVE  lost' = {} /\ ~stale'
<1>0. thread \in Threads \cup {NoThread} /\ (thread = NoThread => ~connected)
  BY DEF TypeOK, InStage
<1>1. CASE HandleStart \/ HandleStop
  BY <1>1 DEF HandleStart, HandleStop
<1>2. ASSUME NEW o \in {"bind", "unbind"}, Take(o), Push(thread, <<Entry(o, Head(mailbox).arg)>>)
      PROVE  lost' = lost
  <2>1. Head(mailbox) \in MailEntry /\ Head(mailbox).op = o
    BY <1>2, TakeIs
  <2>2. PICK k \in Keys : k = Head(mailbox).arg
    BY <2>1, MailEntryIs
  <2>3. PICK e \in OutEntry : e = Entry(o, k) /\ e.op = o
    BY EntriesMade
  <2> QED BY <1>2, <2>2, <2>3, PushNoMessage
<1>3. CASE HandleBind
  BY <1>2, <1>3 DEF HandleBind, PushBind
<1>4. CASE HandleUnbind
  BY <1>2, <1>4 DEF HandleUnbind
<1>5. CASE HandleForward
  <2>1. CASE connected
    <3>1. Push(thread, <<Entry("publish", Head(mailbox).arg)>>) /\ stale' = stale
      BY <1>5, <2>1 DEF HandleForward, HoldOrPush
    <3>2. Head(mailbox) \in MailEntry /\ Head(mailbox).op = "publish"
      BY <1>5, TakeIs DEF HandleForward
    <3>3. PICK c \in 1 .. MaxForwards : c = Head(mailbox).arg
      BY <3>2, MailEntryIs
    <3>4. Entry("publish", c) \in OutEntry
      BY EntriesMade
    <3>5. PICK es \in Seq(OutEntry) : es = <<Entry("publish", c)>>
      <4>1. <<Entry("publish", c)>> \in Seq(OutEntry)
        BY <3>4
      <4> QED BY <4>1
    <3>6. thread # NoThread /\ phase[thread] # "zombie"
      BY <1>0, <2>1
    <3>7. Push(thread, es)
      BY <3>1, <3>3, <3>5
    <3>8. lost' = lost
      BY <3>6, <3>7, PushDelivers
    <3> QED BY <3>1, <3>8
  <2>2. CASE ~connected
    BY <1>5, <2>2 DEF HandleForward, HoldOrPush
  <2> QED BY <2>1, <2>2
<1>6. CASE HandleConnectionOpenOk
  <2>1. Head(mailbox).arg = thread
    BY <1>6, OkIsCurrent DEF HandleConnectionOpenOk, OkOp
  <2>2. PICK e \in OutEntry : e = Entry("channel_open", NoThread) /\ e.op = "channel_open"
    BY EntriesMade
  <2>3. Push(thread, <<e>>)
    BY <1>6, <2>2 DEF HandleConnectionOpenOk
  <2>4. lost' = lost
    BY <2>2, <2>3, PushNoMessage
  <2> QED BY <1>6, <2>1, <2>4 DEF HandleConnectionOpenOk
<1>7. CASE HandleChannelOpenOk
  <2>1. Head(mailbox).arg = thread /\ thread # NoThread
    BY <1>7, OkIsCurrent DEF HandleChannelOpenOk, OkOp
  <2>2. ~stale'
    BY <1>7, <2>1 DEF HandleChannelOpenOk
  <2>3. CASE connected
    BY <1>7, <2>2, <2>3 DEF HandleChannelOpenOk
  <2>4. CASE ~connected
    <3>1. Push(thread, Replay)
      BY <1>7, <2>4 DEF HandleChannelOpenOk
    <3>2. Replay \in Seq(OutEntry)
      BY ReplayIs
    <3>3. thread # NoThread /\ phase[thread] # "zombie"
      BY <1>0, <2>1
    <3>4. lost' = lost
      BY <3>1, <3>2, <3>3, PushDelivers
    <3> QED BY <2>2, <3>4
  <2> QED BY <2>3, <2>4
<1> QED BY <1>1, <1>3, <1>4, <1>5, <1>6, <1>7 DEF Handle

(* An agent whose link is up, or coming up, neither closes nor discards. *)
LEMMA CalmAgent ==
  ASSUME TypeOK, NEW t \in Threads, Stage(t), phase[t] # "zombie", Agent(t)
  PROVE  lost' = lost /\ phase'[t] # "zombie"
<1>0. outbox \in [Threads -> Seq(OutEntry)] /\ phase \in [Threads -> Phase]
  BY DEF TypeOK
<1>1. ASSUME outbox[t] # <<>>
      PROVE  \/ Head(outbox[t]).op = "channel_open" /\ phase[t] \in {"confirmed", "active", "stuck"}
             \/ Head(outbox[t]).op \in LinkOp /\ phase[t] = "open"
  <2>1. CASE ~connected
    <3>1. Told(t)
      BY <1>1, <2>1 DEF Stage, Connecting, Confirmed, Opening, Opened, Fresh
    <3>2. Head(outbox[t]).op = "channel_open"
      BY <3>1, EntriesMade DEF Told
    <3> QED BY <3>1, <3>2 DEF Told
  <2>2. CASE connected
    <3>1. Running(t) /\ phase[t] = "open"
      BY <2>2 DEF Stage
    <3>2. 1 \in 1 .. Len(outbox[t]) /\ Head(outbox[t]) = outbox[t][1]
      BY <1>0, <1>1
    <3> QED BY <3>1, <3>2 DEF Running
  <2> QED BY <2>1, <2>2
<1>2. ~AgentCloses(t)
  BY <1>1 DEF AgentCloses, LinkOp
<1>3. ~AgentDiscards(t)
  BY <1>1 DEF AgentDiscards
<1>4. CASE AgentOpens(t) \/ AgentActive(t) \/ AgentChannelOpens(t) \/ AgentStuck(t) \/ AgentOpensChannel(t)
  BY <1>0, <1>4 DEF AgentOpens, AgentActive, AgentChannelOpens, AgentStuck, AgentOpensChannel
<1>5. CASE RemoteHandles(t)
  BY <1>0, <1>5 DEF RemoteHandles
<1> QED BY <1>2, <1>3, <1>4, <1>5 DEF Agent

(* As long as nothing broke and nothing was stopped, there is one agent at most. *)
LEMMA CalmNext ==
  ASSUME TypeOK, Unborn, InStage, NeverStopped, Calm, Next
  PROVE  Calm'
<1> SUFFICES ASSUME calls'["break"] = 0, calls'["stop"] = 0
             PROVE  /\ lost' = {} /\ ~stale'
                    /\ \A n \in Threads : phase'[n] # "zombie" /\ (n # thread' => phase'[n] = "none")
                    /\ \A i \in 1 .. Len(mailbox') : mailbox'[i].op \in OkOp => mailbox'[i].arg = thread'
  BY DEF Calm
<1>0. /\ thread \in Threads \cup {NoThread} /\ phase \in [Threads -> Phase]
      /\ mailbox \in Seq(MailEntry) /\ calls \in [Call -> Nat] /\ NoThread \notin Threads
  BY DEF TypeOK, Threads, NoThread
<1>1. calls["break"] = 0 /\ calls["stop"] = 0
  BY CallsGrow
<1>2. /\ lost = {} /\ ~stale
      /\ \A n \in Threads : phase[n] # "zombie" /\ (n # thread => phase[n] = "none")
      /\ \A i \in 1 .. Len(mailbox) : mailbox[i].op \in OkOp => mailbox[i].arg = thread
  BY <1>1 DEF Calm
<1>3. thread # NoThread => enabled
  BY <1>1 DEF NeverStopped
<1>4. PICK W : W = {e \in MailEntry : e.op \in OkOp => e.arg = thread}
  OBVIOUS
<1>5. \A i \in 1 .. Len(mailbox) : mailbox[i] \in W
  BY <1>0, <1>2, <1>4, ElementIs
<1>6. ASSUME \/ mailbox # <<>> /\ mailbox' = Tail(mailbox)
             \/ mailbox' = mailbox
             \/ \E e \in MailEntry : mailbox' = Append(mailbox, e) /\ e \in W
      PROVE  \A i \in 1 .. Len(mailbox') : mailbox'[i].op \in OkOp => mailbox'[i].arg = thread
  <2>1. \A i \in 1 .. Len(mailbox') : mailbox'[i] \in W
    BY <1>5, <1>6, MailAfter
  <2> QED BY <1>4, <2>1
<1>7. CASE Handle
  <2>1. lost' = {} /\ ~stale'
    BY <1>2, <1>7, CalmHandle
  <2>2. UNCHANGED <<phase, thread>>
    BY <1>7, HandlePushes
  <2>3. mailbox # <<>> /\ mailbox' = Tail(mailbox)
    BY <1>7 DEF Handle, HandleStart, HandleStop, HandleBind, HandleUnbind, HandleForward,
                HandleConnectionOpenOk, HandleChannelOpenOk, Take
  <2> QED BY <1>2, <1>6, <2>1, <2>2, <2>3
<1>8. CASE Caller
  <2>1. UNCHANGED <<thread, phase, lost, stale>>
    BY <1>8 DEF Caller, PostStart, PostStop, PostForward, PostBind, PostUnbind, peering, agents
  <2>2. \E e \in MailEntry : mailbox' = Append(mailbox, e) /\ e \in W
    BY <1>4, <1>8, CallerPosts
  <2> QED BY <1>2, <1>6, <2>1, <2>2
<1>9. CASE MonitorTerminate
  <2>1. thread \in Threads /\ (~enabled \/ phase[thread] = "zombie")
    BY <1>0, <1>9 DEF MonitorTerminate
  <2> QED BY <1>0, <1>2, <1>3, <2>1
<1>10. CASE MonitorConnect
  <2>1. PICK n \in Threads : /\ phase[n] = "none" /\ phase' = [phase EXCEPT ![n] = "setup"]
                             /\ thread' = n /\ thread = NoThread
    BY <1>10 DEF MonitorConnect
  <2>2. UNCHANGED <<mailbox, lost, stale>>
    BY <1>10 DEF MonitorConnect
  <2>3. \A m \in Threads : phase[m] = "none"
    BY <1>0, <1>2, <2>1
  <2>4. \A m \in Threads : phase'[m] # "zombie" /\ (m # n => phase'[m] = "none")
    BY <1>0, <2>1, <2>3
  <2>5. \A i \in 1 .. Len(mailbox) : mailbox[i].op \notin OkOp
    <3> SUFFICES ASSUME NEW i \in 1 .. Len(mailbox), mailbox[i].op \in OkOp PROVE FALSE
      OBVIOUS
    <3>1. mailbox[i] \in MailEntry
      BY <1>0, ElementIs
    <3>2. mailbox[i].arg \in Threads
      BY <3>1, MailEntryIs DEF OkOp
    <3> QED BY <1>0, <1>2, <2>1, <3>2
  <2> QED BY <1>2, <2>1, <2>2, <2>4, <2>5
<1>11. ASSUME NEW n \in Threads, Break(n) PROVE FALSE
  <2>1. calls' = [calls EXCEPT !["break"] = calls["break"] + 1] /\ "break" \in Call
    BY <1>11 DEF Break, Called, Call
  <2> QED BY <1>0, <1>1, <2>1
<1>13. ASSUME NEW n \in Threads, RemoteEnds(n) PROVE FALSE
  BY <1>2, <1>13 DEF RemoteEnds
<1>12. ASSUME NEW n \in Threads, Agent(n)
       PROVE  /\ lost' = {} /\ ~stale'
              /\ \A m \in Threads : phase'[m] # "zombie" /\ (m # thread' => phase'[m] = "none")
              /\ \A i \in 1 .. Len(mailbox') : mailbox'[i].op \in OkOp => mailbox'[i].arg = thread'
  <2>1. /\ thread' = thread /\ stale' = stale /\ phase[n] # "none"
        /\ \A m \in Threads : m # n => phase'[m] = phase[m]
    BY <1>12, AgentFrame DEF peering
  <2>2. n = thread
    BY <1>2, <2>1
  <2>3. Stage(n)
    BY <1>0, <1>2, <2>2 DEF InStage
  <2>4. lost' = lost /\ phase'[n] # "zombie"
    BY <1>2, <1>12, <2>3, CalmAgent
  <2>5. \/ mailbox' = mailbox
        \/ \E e \in MailEntry : mailbox' = Append(mailbox, e) /\ e \in W
    <3>1. ASSUME NEW o \in {"connection_open_ok", "channel_open_ok"},
                 mailbox' = Append(mailbox, Entry(o, n))
          PROVE  \E e \in MailEntry : mailbox' = Append(mailbox, e) /\ e \in W
      <4>1. PICK e \in MailEntry : e = Entry(o, n) /\ e.arg = n
        BY EntriesMade
      <4> QED BY <1>4, <2>2, <3>1, <4>1
    <3>2. CASE AgentOpens(n) \/ AgentChannelOpens(n)
      BY <3>1, <3>2 DEF AgentOpens, AgentChannelOpens
    <3>3. CASE ~(AgentOpens(n) \/ AgentChannelOpens(n))
      BY <1>12, <3>3 DEF Agent, AgentActive, AgentStuck, AgentCloses, AgentOpensChannel, AgentDiscards,
                         RemoteHandles
    <3> QED BY <3>2, <3>3
  <2> QED BY <1>2, <1>6, <2>1, <2>2, <2>4, <2>5
<1> QED BY <1>7, <1>8, <1>9, <1>10, <1>11, <1>12, <1>13 DEF Next, Monitor


(* At the start there is no agent, and nothing to send. *)
LEMMA LinkInit == Init => LinkInv
<1> SUFFICES ASSUME Init PROVE LinkInv
  OBVIOUS
<1>1. /\ thread = NoThread /\ connected = FALSE /\ mailbox = <<>> /\ lost = {} /\ stale = FALSE
      /\ phase = [n \in Threads |-> "none"] /\ outbox = [n \in Threads |-> <<>>]
      /\ declared = [n \in Threads |-> FALSE] /\ remote = [n \in Threads |-> {}]
  BY DEF Init
<1>2. Len(mailbox) = 0 /\ 1 .. Len(mailbox) = {}
  BY <1>1
<1>3. Unborn
  BY <1>1, <1>2 DEF Unborn, Fresh, Silent, Threads, NoThread
<1>5. NeverStopped
  BY <1>1, <1>2 DEF NeverStopped
<1>6. Calm
  BY <1>1, <1>2 DEF Calm
<1>7. InStage
  BY <1>1 DEF InStage
<1> QED BY <1>3, <1>5, <1>6, <1>7 DEF LinkInv

(* Every step of the system preserves the invariant of the link. *)
LEMMA LinkNext == TypeOK /\ LinkInv /\ [Next]_vars => LinkInv'
<1> SUFFICES ASSUME TypeOK, LinkInv, [Next]_vars PROVE LinkInv'
  OBVIOUS
<1>0. Unborn /\ NeverStopped /\ Calm /\ InStage
  BY DEF LinkInv
<1>1. CASE Next
  <2>1. Unborn'
    BY <1>0, <1>1, UnbornNext
  <2>2. NeverStopped'
    BY <1>0, <1>1, StoppedNext
  <2>3. Calm'
    BY <1>0, <1>1, CalmNext
  <2>4. InStage'
    BY <1>0, <1>1, InStageNext
  <2> QED BY <2>1, <2>2, <2>3, <2>4 DEF LinkInv
<1>2. CASE UNCHANGED vars
  <2>1. UNCHANGED <<enabled, connected, thread, bindings, phase, outbox, declared, remote, mailbox, lost,
                    stale, calls>>
    BY <1>2 DEF vars, peering, agents
  <2>2. Unborn'
    BY <1>0, <2>1 DEF Unborn, Fresh, Silent
  <2>3. NeverStopped'
    BY <1>0, <2>1 DEF NeverStopped
  <2>4. Calm'
    BY <1>0, <2>1 DEF Calm
  <2>5. InStage'
    BY <1>0, <2>1 DEF InStage, Stage, Connecting, Confirmed, Told, Opening, Opened, Running, Fresh,
                      Silent, Speaks
  <2> QED BY <2>2, <2>3, <2>4, <2>5 DEF LinkInv
<1> QED BY <1>1, <1>2

(* A link that is up with nothing under way has the peering's bindings. *)
LEMMA SettledAgrees == TypeOK /\ InStage => BindingsAgree
<1> SUFFICES ASSUME TypeOK, InStage, Settled, ~stale PROVE Agrees
  BY DEF BindingsAgree
<1>0. /\ thread \in Threads /\ bindings \in Seq(Keys) /\ remote \in [Threads -> SUBSET Keys]
  BY DEF TypeOK, Settled
<1>1. connected /\ thread # NoThread /\ phase[thread] \in {"active", "open"} /\ outbox[thread] = <<>>
  BY DEF Settled
<1>2. phase[thread] = "open" /\ Running(thread)
  BY <1>1 DEF InStage, Stage
<1>3. declared[thread]
  BY <1>1, <1>2 DEF Running
<1>4. PICK s : s = outbox[thread]
  OBVIOUS
<1>5. s = <<>> /\ 1 .. Len(s) = {}
  BY <1>1, <1>4
<1>6. \A k \in Keys : Bound(k, s, remote[thread]) <=> k \in ToSet(bindings)
  BY <1>2, <1>4 DEF Running
<1>7. \A k \in Keys : Bound(k, s, remote[thread]) <=> k \in remote[thread]
  BY <1>5 DEF Bound
<1>8. \A k \in ToSet(bindings) : k \in Keys
  BY <1>0 DEF ToSet
<1>9. \A k \in remote[thread] : k \in Keys
  BY <1>0
<1>10. remote[thread] = ToSet(bindings)
  BY <1>6, <1>7, <1>8, <1>9
<1> QED BY <1>2, <1>3, <1>10 DEF Agrees

(* The type invariant and the invariant of the link hold in every behaviour. *)
LEMMA LinkKept == Spec => [](TypeOK /\ LinkInv)
<1>1. Init => TypeOK /\ LinkInv
  BY TypeInit, LinkInit
<1>2. TypeOK /\ LinkInv /\ [Next]_vars => (TypeOK /\ LinkInv)'
  BY TypeNext, LinkNext
<1> QED BY <1>1, <1>2, PTL DEF Spec

(* Whatever binds, unbinds, breaks and reconnections came before, a link that is up
   with nothing under way has the remote queue bound exactly as the peering's list
   says, unless an open-ok was handled after its agent thread had been given up
   (amq_peering.icl:346-355, 390-404, 649-656). *)
THEOREM BindingsKept == Spec => []BindingsAgree
<1>1. TypeOK /\ LinkInv => BindingsAgree
  BY SettledAgrees DEF LinkInv
<1> QED BY <1>1, LinkKept, PTL

(* The peering drops a message only after a connection broke or was closed: none is
   lost on the way from held to sent, nor discarded by an agent whose channel is not
   open yet (amq_peering.icl:440-447). *)
THEOREM DropsExplained == Spec => []DropsNeedBreak
<1>1. TypeOK /\ LinkInv => DropsNeedBreak
  <2> SUFFICES ASSUME TypeOK, Calm PROVE DropsNeedBreak
    BY DEF LinkInv
  <2>1. calls["break"] \in Nat /\ calls["stop"] \in Nat
    BY DEF TypeOK, Call
  <2>2. lost = {} \/ calls["break"] # 0 \/ calls["stop"] # 0
    BY DEF Calm
  <2> QED BY <2>1, <2>2 DEF DropsNeedBreak
<1> QED BY <1>1, LinkKept, PTL
=============================================================================
