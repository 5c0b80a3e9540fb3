------------------------- MODULE AccountsUtil_proofs -------------------------
(***************************************************************************)
(* Lemmas about the Dart side and the method channel that the proofs of    *)
(* both platforms rest on: what each step does to the types of the         *)
(* variables, to the custody of the mnemonics, and to the one place where  *)
(* the call that a frame awaits is.                                        *)
(***************************************************************************)
EXTENDS AccountsUtil, SequenceTheorems, FiniteSetTheorems, TLAPS

-----------------------------------------------------------------------------
(* Queues.                                                                 *)

\* Taking the head of a queue keeps its type and shifts its elements.
LEMMA TailOf ==
  ASSUME NEW S, NEW q \in Seq(S), q # <<>>
  PROVE  /\ Head(q) \in S
         /\ Head(q) = q[1]
         /\ Tail(q) \in Seq(S)
         /\ Len(Tail(q)) = Len(q) - 1
         /\ Len(q) \in Nat \ {0}
         /\ \A i \in 1..Len(Tail(q)) : Tail(q)[i] = q[i + 1]
  BY HeadTailProperties, LenProperties, EmptySeq

\* Appending to a queue keeps its type and its elements.
LEMMA AppendTo ==
  ASSUME NEW S, NEW q \in Seq(S), NEW e \in S
  PROVE  /\ Append(q, e) \in Seq(S)
         /\ Len(Append(q, e)) = Len(q) + 1
         /\ \A i \in 1..Len(q) : Append(q, e)[i] = q[i]
         /\ Append(q, e)[Len(q) + 1] = e
  OBVIOUS

-----------------------------------------------------------------------------
(* Types.                                                                  *)

\* The calls that Dart makes are well typed.
LEMMA CallTypes ==
  /\ \A f \in Frames : Call("getMnemonic", f, None) \in Request
  /\ \A f \in Frames : Call("generateNewMnemonic", f, None) \in Request
  /\ \A f \in Frames, p \in Text : DeriveKey(f, p) \in Request
  /\ \A p \in Text : SaveMnemonic(p) \in Request
  /\ Call("deleteMnemonic", NoFrame, None) \in Request
  BY DEF Call, DeriveKey, SaveMnemonic, Request

\* Sending well-typed calls keeps the queue well typed.
LEMMA SendTyped ==
  ASSUME requests \in Seq(Request), NEW c \in Seq(Request), Send(c)
  PROVE  requests' \in Seq(Request)
  BY DEF Send

\* A frame that starts or goes on stays a frame.
LEMMA WalletFrameTyped ==
  ASSUME DartTypeOK, NEW a \in BOOLEAN
  PROVE  WalletFrame(a) \in Frame
  BY DEF WalletFrame, Started, DartTypeOK, Frame, Ops, AwaitedMethods, Settled

LEMMA WalletCallsTyped ==
  \A f \in Frames : WalletCalls(f) \in Seq(Request)
  BY CallTypes DEF WalletCalls

LEMMA GoesTyped ==
  ASSUME DartTypeOK, NEW f \in Frames, NEW pc \in AwaitedMethods \cup Settled,
         NEW text \in MaybeText, Goes(f, pc, text)
  PROVE  frames' \in [Frames -> Frame]
  BY DEF Goes, DartTypeOK, Frame

\* What a resumed frame reads and leaves.
LEMMA ResumeTyped ==
  ASSUME ChannelTypeOK, NEW f \in Frames, NEW m \in AwaitedMethods, Resume(f, m)
  PROVE  /\ replies' \in Seq(Reply)
         /\ Head(replies) \in Reply
         /\ Head(replies).method = m
         /\ Head(replies).value \in MaybeText
         /\ m # "getMnemonic" => Head(replies).value \in Text
  <1>1. replies # <<>> /\ replies' = Tail(replies) /\ Head(replies).method = m
    BY DEF Resume
  <1>2. replies' \in Seq(Reply) /\ Head(replies) \in Reply
    BY <1>1, TailOf DEF ChannelTypeOK
  <1> QED  BY <1>1, <1>2 DEF Reply, AwaitedMethods, MaybeText

\* What the handler of a method takes from the queue.
LEMMA ReceiveTyped ==
  ASSUME ChannelTypeOK, NEW m, Receive(m)
  PROVE  /\ requests' \in Seq(Request)
         /\ Head(requests) \in Request
         /\ Head(requests).method = m
  <1>1. requests # <<>> /\ requests' = Tail(requests) /\ Head(requests).method = m
    BY DEF Receive
  <1> QED  BY <1>1, TailOf DEF ChannelTypeOK

\* An answer of the right kind keeps the queue of replies typed.
LEMMA AnswerTyped ==
  ASSUME replies \in Seq(Reply), NEW r, r.caller \in Frames,
         NEW ok \in BOOLEAN, NEW v \in MaybeText, Answer(r, ok, v),
         \/ r.method = "getMnemonic" /\ ok = TRUE
         \/ r.method = "generateNewMnemonic" /\ ok = TRUE /\ v \in Text
         \/ r.method = "getPrivateKeyFromMnemonic" /\ v \in Text
  PROVE  replies' \in Seq(Reply)
<1> DEFINE e == [method |-> r.method, caller |-> r.caller, ok |-> ok,
                 value |-> v]
<1>1. e \in Reply
  BY DEF Reply
<1> QED
  BY <1>1, AppendTo DEF Answer

\* An answer is put behind the replies that are queued.
LEMMA AnswerAppends ==
  ASSUME replies \in Seq(Reply), replies' \in Seq(Reply),
         NEW r, NEW ok, NEW v, Answer(r, ok, v)
  PROVE  LET e == [method |-> r.method, caller |-> r.caller, ok |-> ok,
                   value |-> v]
         IN  e \in Reply /\ <<e>> \in Seq(Reply) /\ replies' = replies \o <<e>>
<1> DEFINE e == [method |-> r.method, caller |-> r.caller, ok |-> ok,
                 value |-> v]
<1>1. replies' = Append(replies, e)
  BY DEF Answer
<1>2. /\ Len(replies') = Len(replies) + 1 /\ Len(replies) \in Nat
      /\ replies'[Len(replies) + 1] = e
  BY <1>1, LenProperties
<1> HIDE DEF e
<1>3. e \in Reply
  BY <1>2
<1>4. Append(replies, e) = replies \o <<e>> /\ <<e>> \in Seq(Reply)
  BY <1>3
<1> QED
  BY <1>1, <1>3, <1>4 DEF e

\* The calls of the application keep the types.
LEMMA AppTypes ==
  ASSUME ChannelTypeOK, DartTypeOK, AppStep \/ PermanentlyDeleteAccount
  PROVE  ChannelTypeOK' /\ DartTypeOK'
<1>1. ASSUME NEW f \in Frames, GetWallet(f)
      PROVE  ChannelTypeOK' /\ DartTypeOK'
  BY <1>1, WalletFrameTyped, WalletCallsTyped, SendTyped
     DEF GetWallet, ChannelTypeOK, DartTypeOK, historyVars
<1>2. ASSUME NEW f \in Frames, GetAccountPhrase(f)
      PROVE  ChannelTypeOK' /\ DartTypeOK'
  <2>1. Started("getAccountPhrase", "getMnemonic", None, TRUE) \in Frame
    BY DEF Started, Frame, Ops, AwaitedMethods, MaybeText
  <2>2. <<Call("getMnemonic", f, None)>> \in Seq(Request)
    BY CallTypes
  <2> QED
    BY <1>2, <2>1, <2>2, SendTyped
       DEF GetAccountPhrase, ChannelTypeOK, DartTypeOK, historyVars
<1>3. ASSUME NEW f \in Frames, Sign(f)
      PROVE  ChannelTypeOK' /\ DartTypeOK'
  BY <1>3, WalletFrameTyped, WalletCallsTyped, SendTyped
     DEF Sign, ChannelTypeOK, DartTypeOK, historyVars
<1>4. ASSUME NEW f \in Frames, NEW g \in Frames, CreateAccount(f, g)
      PROVE  ChannelTypeOK' /\ DartTypeOK'
  <2>1. Started("createAccount", "threw", None, TRUE) \in Frame
    BY DEF Started, Frame, Ops, Settled, MaybeText
  <2> QED
    BY <1>4, <2>1, WalletFrameTyped, WalletCallsTyped, SendTyped
       DEF CreateAccount, ChannelTypeOK, DartTypeOK, historyVars
<1>5. ASSUME NEW f \in Frames, NEW g \in Frames, OverwriteAccount(f, g)
      PROVE  ChannelTypeOK' /\ DartTypeOK'
  <2>1. Started("createAccount", "generateNewMnemonic", None, TRUE) \in Frame
    BY DEF Started, Frame, Ops, AwaitedMethods, MaybeText
  <2>2. WalletCalls(g) \o <<Call("generateNewMnemonic", f, None)>>
          \in Seq(Request)
    BY CallTypes, WalletCallsTyped
  <2> QED
    BY <1>5, <2>1, <2>2, WalletFrameTyped, SendTyped
       DEF OverwriteAccount, ChannelTypeOK, DartTypeOK, historyVars
<1>6. ASSUME PermanentlyDeleteAccount
      PROVE  ChannelTypeOK' /\ DartTypeOK'
  <2>1. <<Call("deleteMnemonic", NoFrame, None)>> \in Seq(Request)
    BY CallTypes
  <2> QED
    BY <1>6, <2>1, SendTyped
       DEF PermanentlyDeleteAccount, ChannelTypeOK, DartTypeOK, historyVars, MaybeText
<1>7. ASSUME NEW p \in AppTexts, SaveText(p)
      PROVE  ChannelTypeOK' /\ DartTypeOK'
  <2>1. <<SaveMnemonic(p)>> \in Seq(Request)
    BY CallTypes, AppCallsAssumption
  <2>2. minted' \subseteq Phrases
    BY <1>7 DEF SaveText, ChannelTypeOK
  <2> QED
    BY <1>7, <2>1, <2>2, SendTyped DEF SaveText, ChannelTypeOK, DartTypeOK
<1> QED
  BY <1>1, <1>2, <1>3, <1>4, <1>5, <1>6, <1>7 DEF AppStep

\* The resumptions of the isolate keep the types.
LEMMA DartTypes ==
  ASSUME ChannelTypeOK, DartTypeOK, DartStep
  PROVE  ChannelTypeOK' /\ DartTypeOK'
<1>1. ASSUME NEW f \in Frames, OnGetMnemonic(f)
      PROVE  ChannelTypeOK' /\ DartTypeOK'
  <2> DEFINE found == Head(replies).value
  <2>1. replies' \in Seq(Reply) /\ found \in MaybeText
    BY <1>1, ResumeTyped DEF OnGetMnemonic, AwaitedMethods
  <2>2. requests' \in Seq(Request)
    <3>1. /\ <<>> \in Seq(Request)
          /\ <<Call("generateNewMnemonic", f, None)>> \in Seq(Request)
          /\ found # None => <<DeriveKey(f, found)>> \in Seq(Request)
      BY <2>1, CallTypes DEF MaybeText
    <3> QED
      BY <1>1, <3>1, SendTyped DEF OnGetMnemonic, ChannelTypeOK
  <2>3. frames' \in [Frames -> Frame]
    BY <1>1, <2>1, GoesTyped
       DEF OnGetMnemonic, AwaitedMethods, Settled, MaybeText
  <2> QED
    BY <1>1, <2>1, <2>2, <2>3
       DEF OnGetMnemonic, ChannelTypeOK, DartTypeOK, historyVars
<1>2. ASSUME NEW f \in Frames, OnGenerateMnemonic(f)
      PROVE  ChannelTypeOK' /\ DartTypeOK'
  <2> DEFINE p == Head(replies).value
  <2>1. replies' \in Seq(Reply) /\ p \in Text
    BY <1>2, ResumeTyped DEF OnGenerateMnemonic, AwaitedMethods
  <2>2. requests' \in Seq(Request)
    <3>1. /\ <<SaveMnemonic(p)>> \in Seq(Request)
          /\ <<SaveMnemonic(p), DeriveKey(f, p)>> \in Seq(Request)
          /\ <<SaveMnemonic(p), SaveMnemonic(p), DeriveKey(f, p)>>
               \in Seq(Request)
      BY <2>1, CallTypes
    <3> QED
      BY <1>2, <3>1, SendTyped DEF OnGenerateMnemonic, ChannelTypeOK
  <2>3. frames' \in [Frames -> Frame]
    BY <1>2, <2>1, GoesTyped
       DEF OnGenerateMnemonic, AwaitedMethods, Settled, MaybeText
  <2> QED
    BY <1>2, <2>1, <2>2, <2>3
       DEF OnGenerateMnemonic, ChannelTypeOK, DartTypeOK, historyVars
<1>3. ASSUME NEW f \in Frames, OnPrivateKey(f) \/ OnKeyError(f)
      PROVE  ChannelTypeOK' /\ DartTypeOK'
  <2>1. replies' \in Seq(Reply) /\ Head(replies).value \in Text
    BY <1>3, ResumeTyped DEF OnPrivateKey, OnKeyError, AwaitedMethods
  <2>2. frames' \in [Frames -> Frame]
    BY <1>3, <2>1, GoesTyped DEF OnPrivateKey, OnKeyError, Settled, MaybeText
  <2> QED
    BY <1>3, <2>1, <2>2
       DEF OnPrivateKey, OnKeyError, ChannelTypeOK, DartTypeOK, historyVars, MaybeText
<1> QED
  BY <1>1, <1>2, <1>3 DEF DartStep

\* The death of the process resets the Dart side to well-typed values.
LEMMA RestartTypes ==
  ASSUME ChannelTypeOK, DartTypeOK, DartRestart, UNCHANGED historyVars
  PROVE  ChannelTypeOK' /\ DartTypeOK'
  BY EmptySeq DEF DartRestart, ChannelTypeOK, DartTypeOK, historyVars, IdleFrame,
     Started, Frame, Ops, Settled, MaybeText

-----------------------------------------------------------------------------
(* Custody.                                                                *)

\* Sending calls keeps every key request behind its save, if each key request
\* among them asks for an entrusted mnemonic or follows a save of it.
LEMMA SendKeys ==
  ASSUME requests \in Seq(Request), KeysAfterSaves,
         NEW c \in Seq(Request), KeysCovered(c),
         Send(c), entrusted' = entrusted
  PROVE  KeysAfterSaves'
<1> DEFINE q == requests \o c
           n == Len(requests)
<1>1. /\ requests' = q /\ n \in Nat /\ Len(c) \in Nat
      /\ Len(q) = n + Len(c)
      /\ \A j \in 1..n : q[j] = requests[j]
      /\ \A j \in 1..Len(c) : q[n + j] = c[j]
  BY ConcatProperties, LenProperties DEF Send
<1> HIDE DEF q
<1>2. SUFFICES ASSUME NEW j \in 1..Len(q),
                      q[j].method = "getPrivateKeyFromMnemonic"
               PROVE  \/ q[j].phrase \in entrusted
                      \/ \E i \in 1..(j - 1) : q[i] = SaveMnemonic(q[j].phrase)
  BY <1>1 DEF KeysAfterSaves, KeysCovered, SaveMnemonic, Call
<1>3. CASE j <= n
  <2>1. q[j] = requests[j] /\ j \in 1..n
    BY <1>1, <1>3
  <2>2. CASE \E i \in 1..(j - 1) : requests[i] = SaveMnemonic(q[j].phrase)
    <3>1. PICK i \in 1..(j - 1) : requests[i] = SaveMnemonic(q[j].phrase)
      BY <2>2
    <3>2. q[i] = requests[i]
      BY <1>1, <1>3
    <3> QED
      BY <3>1, <3>2
  <2> QED
    BY <1>2, <2>1, <2>2 DEF KeysAfterSaves, KeysCovered
<1>4. CASE j > n
  <2>1. j - n \in 1..Len(c) /\ n + (j - n) = j
    BY <1>1, <1>4
  <2>3. q[j] = c[j - n]
    BY <1>1, <2>1
  <2>2. CASE \E i \in 1..(j - n - 1) : c[i] = SaveMnemonic(q[j].phrase)
    <3>1. PICK i \in 1..(j - n - 1) : c[i] = SaveMnemonic(q[j].phrase)
      BY <2>2
    <3>2. i \in 1..Len(c) /\ n + i \in 1..(j - 1)
      BY <1>1, <2>1
    <3>3. q[n + i] = c[i]
      BY <1>1, <3>2
    <3> QED
      BY <3>1, <3>2, <3>3
  <2> QED
    BY <1>2, <2>1, <2>3, <2>2 DEF KeysCovered
<1>5. j <= n \/ j > n
  <2>1. n \in Nat /\ Len(q) \in Nat
    BY <1>1
  <2> HIDE DEF n
  <2> QED
    BY <2>1
<1> QED
  BY <1>3, <1>4, <1>5

\* Calls that ask for no key are covered.
LEMMA NoKeyCovered ==
  ASSUME NEW c, \A j \in 1..Len(c) : c[j].method # "getPrivateKeyFromMnemonic"
  PROVE  KeysCovered(c)
  BY DEF KeysCovered

\* The calls of one stretch of Dart code are covered.
LEMMA CallsCovered ==
  /\ \A m, f, p : m # "getPrivateKeyFromMnemonic" => KeysCovered(<<Call(m, f, p)>>)
  /\ \A f : KeysCovered(WalletCalls(f))
  /\ \A f \in Frames, p \in entrusted : KeysCovered(<<DeriveKey(f, p)>>)
  /\ \A f \in Frames, p \in Text :
       /\ KeysCovered(<<SaveMnemonic(p)>>)
       /\ KeysCovered(<<SaveMnemonic(p), DeriveKey(f, p)>>)
       /\ KeysCovered(<<SaveMnemonic(p), SaveMnemonic(p), DeriveKey(f, p)>>)
<1>1. \A m, f, p : m # "getPrivateKeyFromMnemonic" => KeysCovered(<<Call(m, f, p)>>)
  BY DEF KeysCovered, Call
<1>2. \A f : KeysCovered(WalletCalls(f))
  BY DEF KeysCovered, WalletCalls, Call
<1>3. \A f \in Frames, p \in entrusted : KeysCovered(<<DeriveKey(f, p)>>)
  BY DEF KeysCovered, DeriveKey, Call
<1>4. ASSUME NEW f \in Frames, NEW p \in Text
      PROVE  /\ KeysCovered(<<SaveMnemonic(p)>>)
             /\ KeysCovered(<<SaveMnemonic(p), DeriveKey(f, p)>>)
             /\ KeysCovered(<<SaveMnemonic(p), SaveMnemonic(p), DeriveKey(f, p)>>)
  <2>1. KeysCovered(<<SaveMnemonic(p)>>)
    BY DEF KeysCovered, SaveMnemonic, Call
  <2>2. KeysCovered(<<SaveMnemonic(p), DeriveKey(f, p)>>)
    BY DEF KeysCovered, SaveMnemonic, DeriveKey, Call
  <2>3. KeysCovered(<<SaveMnemonic(p), SaveMnemonic(p), DeriveKey(f, p)>>)
    BY DEF KeysCovered, SaveMnemonic, DeriveKey, Call
  <2> QED
    BY <2>1, <2>2, <2>3
<1> QED
  BY <1>1, <1>2, <1>3, <1>4

\* Handling the oldest call keeps every key request behind its save, if the
\* mnemonic of a save becomes entrusted with it.
LEMMA ReceiveKeys ==
  ASSUME requests \in Seq(Request), KeysAfterSaves, NEW m, Receive(m),
         entrusted \subseteq entrusted',
         m = "saveMnemonic" => Head(requests).phrase \in entrusted'
  PROVE  KeysAfterSaves'
<1> DEFINE q == Tail(requests)
<1>1. /\ requests' = q /\ Head(requests) = requests[1]
      /\ requests[1].method = m
      /\ Len(requests) \in Nat \ {0} /\ Len(q) = Len(requests) - 1
      /\ \A j \in 1..Len(q) : q[j] = requests[j + 1]
  BY TailOf DEF Receive
<1>2. SUFFICES ASSUME NEW j \in 1..Len(q),
                      q[j].method = "getPrivateKeyFromMnemonic"
               PROVE  \/ q[j].phrase \in entrusted'
                      \/ \E i \in 1..(j - 1) : q[i] = SaveMnemonic(q[j].phrase)
  BY <1>1 DEF KeysAfterSaves, KeysCovered, SaveMnemonic, Call
<1>3. CASE q[j].phrase \in entrusted
  BY <1>3
<1>4. CASE \E i \in 1..j : requests[i] = SaveMnemonic(q[j].phrase)
  <2>1. PICK i \in 1..j : requests[i] = SaveMnemonic(q[j].phrase)
    BY <1>4
  <2>2. CASE i = 1
    BY <1>1, <2>1, <2>2 DEF SaveMnemonic, Call
  <2>3. CASE i > 1
    <3>1. i - 1 \in 1..(j - 1) /\ q[i - 1] = requests[i]
      BY <1>1, <2>3
    <3> QED
      BY <2>1, <3>1
  <2> QED
    BY <2>2, <2>3
<1>5. j + 1 \in 1..Len(requests) /\ requests[j + 1] = q[j]
  BY <1>1
<1> QED
  BY <1>2, <1>3, <1>4, <1>5 DEF KeysAfterSaves, KeysCovered

\* An answer that is entrusted, null or a mnemonic just drawn keeps
\* AnswersEntrusted.
LEMMA AnswerKeeps ==
  ASSUME replies \in Seq(Reply), AnswersEntrusted, entrusted \subseteq entrusted',
         NEW r \in Request, NEW ok, NEW v, Answer(r, ok, v),
         \/ r.method = "generateNewMnemonic"
         \/ v \in entrusted \cup {None}
  PROVE  AnswersEntrusted'
<1> DEFINE e == [method |-> r.method, caller |-> r.caller, ok |-> ok,
                 value |-> v]
<1>1. replies' = Append(replies, e)
  BY DEF Answer
<1>2. /\ Len(replies) \in Nat /\ Len(Append(replies, e)) = Len(replies) + 1
      /\ \A i \in 1..Len(replies) : Append(replies, e)[i] = replies[i]
      /\ Append(replies, e)[Len(replies) + 1] = e
  BY LenProperties
<1> QED
  BY <1>1, <1>2 DEF AnswersEntrusted

\* Custody on the Dart side survives when nothing on that side changes.
LEMMA CustodyGrows ==
  ASSUME DartCustody, UNCHANGED <<dartVars, channelVars>>,
         entrusted \subseteq entrusted'
  PROVE  DartCustody'
  BY DEF DartCustody, HandedOutIsEntrusted, KeysAfterSaves, KeysCovered,
         AnswersEntrusted, dartVars, channelVars, SaveMnemonic, Call

\* The Dart side's own wallets stay entrusted while entrusted grows.
LEMMA HandedOutGrows ==
  ASSUME HandedOutIsEntrusted, UNCHANGED dartVars, entrusted \subseteq entrusted'
  PROVE  HandedOutIsEntrusted'
  BY DEF HandedOutIsEntrusted, dartVars

\* A call of the application hands out at once the cached wallet or nothing.
LEMMA AppWallets ==
  ASSUME DartTypeOK, AppStep \/ PermanentlyDeleteAccount
  PROVE  \A h \in Frames : frames'[h] # frames[h] =>
            \/ frames'[h].pc # "returned"
            \/ frames'[h].text = cached /\ cached # None
<1> DEFINE Kept == \A h \in Frames : frames'[h] # frames[h] =>
                     \/ frames'[h].pc # "returned"
                     \/ frames'[h].text = cached /\ cached # None
<1> USE DEF DartTypeOK, WalletFrame, Started
<1>1. ASSUME NEW f \in Frames, GetWallet(f)  PROVE Kept
  BY <1>1 DEF GetWallet
<1>2. ASSUME NEW f \in Frames, GetAccountPhrase(f)  PROVE Kept
  BY <1>2 DEF GetAccountPhrase
<1>3. ASSUME NEW f \in Frames, Sign(f)  PROVE Kept
  BY <1>3 DEF Sign
<1>4. ASSUME NEW f \in Frames, NEW g \in Frames, CreateAccount(f, g)
      PROVE  Kept
  BY <1>4 DEF CreateAccount
<1>5. ASSUME NEW f \in Frames, NEW g \in Frames, OverwriteAccount(f, g)
      PROVE  Kept
  BY <1>5 DEF OverwriteAccount
<1>6. ASSUME PermanentlyDeleteAccount  PROVE Kept
  BY <1>6 DEF PermanentlyDeleteAccount
<1>7. ASSUME NEW p \in AppTexts, SaveText(p)  PROVE Kept
  BY <1>7 DEF SaveText
<1> HIDE DEF Kept
<1>8. Kept
  BY <1>1, <1>2, <1>3, <1>4, <1>5, <1>6, <1>7 DEF AppStep
<1> QED
  BY <1>8 DEF Kept

\* The calls of the application keep custody: a cached wallet is entrusted, so
\* a call that it answers at once hands out an entrusted one.
LEMMA AppCustody ==
  ASSUME ChannelTypeOK, DartTypeOK, DartCustody,
         AppStep \/ PermanentlyDeleteAccount
  PROVE  DartCustody' /\ entrusted' = entrusted
<1>1. UNCHANGED <<replies, entrusted>>
  BY DEF AppStep, GetWallet, GetAccountPhrase, Sign, CreateAccount,
         OverwriteAccount, PermanentlyDeleteAccount, SaveText, historyVars
<1>2. AnswersEntrusted'
  BY <1>1 DEF DartCustody, AnswersEntrusted
<1>3. HandedOutIsEntrusted'
  <2>1. cached' \in {cached, None} /\ entrusted' = entrusted
    BY <1>1 DEF AppStep, GetWallet, GetAccountPhrase, Sign, CreateAccount,
                OverwriteAccount, PermanentlyDeleteAccount, SaveText
  <2>2. \A h \in Frames : frames'[h] # frames[h] =>
            \/ frames'[h].pc # "returned"
            \/ frames'[h].text = cached /\ cached # None
    BY AppWallets
  <2> QED
    BY <2>1, <2>2 DEF DartCustody, HandedOutIsEntrusted
<1>4. PICK c \in Seq(Request) : Send(c) /\ KeysCovered(c)
  <2>1. ASSUME NEW f \in Frames, GetWallet(f) \/ Sign(f)
        PROVE  Send(WalletCalls(f))
    BY <2>1 DEF GetWallet, Sign
  <2>2. ASSUME NEW f \in Frames, NEW g \in Frames, CreateAccount(f, g)
        PROVE  Send(WalletCalls(g))
    BY <2>2 DEF CreateAccount
  <2>3. ASSUME NEW f \in Frames, GetAccountPhrase(f)
        PROVE  Send(<<Call("getMnemonic", f, None)>>)
    BY <2>3 DEF GetAccountPhrase
  <2>4. ASSUME PermanentlyDeleteAccount
        PROVE  Send(<<Call("deleteMnemonic", NoFrame, None)>>)
    BY <2>4 DEF PermanentlyDeleteAccount
  <2>5. ASSUME NEW f \in Frames, NEW g \in Frames, OverwriteAccount(f, g)
        PROVE  \E c \in Seq(Request) : Send(c) /\ KeysCovered(c)
    <3> DEFINE e == Call("generateNewMnemonic", f, None)
               c == WalletCalls(g) \o <<e>>
    <3>1. c \in Seq(Request) /\ Send(c)
      BY <2>5, CallTypes, WalletCallsTyped DEF OverwriteAccount
    <3>2. \A j \in 1..Len(c) : c[j].method # "getPrivateKeyFromMnemonic"
      <4> DEFINE a == WalletCalls(g)
      <4>1. a \in Seq(Request) /\ e \in Request
        BY <2>5, CallTypes, WalletCallsTyped
      <4>2. /\ e.method # "getPrivateKeyFromMnemonic"
            /\ \A j \in 1..Len(a) : a[j].method # "getPrivateKeyFromMnemonic"
        BY DEF WalletCalls, Call
      <4> HIDE DEF a, e
      <4>3. \A j \in 1..Len(a \o <<e>>) :
                (a \o <<e>>)[j].method # "getPrivateKeyFromMnemonic"
        BY <4>1, <4>2
      <4> QED
        BY <4>3 DEF a, e
    <3> QED
      BY <3>1, <3>2, NoKeyCovered
  <2>6. /\ \A f \in Frames : <<Call("getMnemonic", f, None)>> \in Seq(Request)
        /\ <<Call("deleteMnemonic", NoFrame, None)>> \in Seq(Request)
        /\ \A p \in Text : <<SaveMnemonic(p)>> \in Seq(Request)
    BY CallTypes
  <2>7. /\ \A f \in Frames : KeysCovered(<<Call("getMnemonic", f, None)>>)
        /\ KeysCovered(<<Call("deleteMnemonic", NoFrame, None)>>)
        /\ \A f : KeysCovered(WalletCalls(f))
        /\ \A p \in Text : KeysCovered(<<SaveMnemonic(p)>>)
    <3>1. \A p \in Text : KeysCovered(<<SaveMnemonic(p)>>)
      BY CallsCovered DEF SaveMnemonic
    <3> QED
      BY <3>1, CallsCovered
  <2>8. ASSUME NEW p \in AppTexts, SaveText(p)
        PROVE  p \in Text /\ Send(<<SaveMnemonic(p)>>)
    BY <2>8, AppCallsAssumption DEF SaveText
  <2> QED
    BY <2>1, <2>2, <2>3, <2>4, <2>5, <2>6, <2>7, <2>8, WalletCallsTyped DEF AppStep
<1>5. KeysAfterSaves'
  BY <1>1, <1>4, SendKeys DEF ChannelTypeOK, DartCustody
<1> QED
  BY <1>1, <1>2, <1>3, <1>5 DEF DartCustody

\* The resumptions of the isolate keep custody: a mnemonic that was read is
\* entrusted, and one just drawn is saved ahead of the request for its key.
LEMMA DartStepCustody ==
  ASSUME ChannelTypeOK, DartTypeOK, DartCustody, DartStep
  PROVE  DartCustody' /\ entrusted' = entrusted
<1>1. PICK f \in Frames : \/ OnGetMnemonic(f) \/ OnGenerateMnemonic(f)
                          \/ OnPrivateKey(f) \/ OnKeyError(f)
  BY DEF DartStep
<1>2. entrusted' = entrusted
  BY <1>1 DEF OnGetMnemonic, OnGenerateMnemonic, OnPrivateKey, OnKeyError,
              historyVars
<1>3. /\ replies # <<>> /\ replies' = Tail(replies)
      /\ Head(replies) = replies[1] /\ Len(replies) \in Nat \ {0}
      /\ Len(replies') = Len(replies) - 1
      /\ \A i \in 1..Len(replies') : replies'[i] = replies[i + 1]
  BY <1>1, TailOf DEF OnGetMnemonic, OnGenerateMnemonic, OnPrivateKey,
                      OnKeyError, Resume, ChannelTypeOK
<1>4. AnswersEntrusted'
  BY <1>2, <1>3 DEF DartCustody, AnswersEntrusted
<1>5. Head(replies).method # "generateNewMnemonic" =>
          Head(replies).value \in entrusted \cup {None}
  BY <1>3 DEF DartCustody, AnswersEntrusted
<1>6. HandedOutIsEntrusted' /\ KeysAfterSaves'
  <2>1. CASE OnGetMnemonic(f)
    <3> DEFINE found == Head(replies).value
    <3>1. found \in MaybeText
      BY <2>1, ResumeTyped DEF OnGetMnemonic, AwaitedMethods
    <3>2. found \in entrusted \cup {None}
      BY <1>5, <2>1 DEF OnGetMnemonic, Resume
    <3>3. HandedOutIsEntrusted'
      BY <1>2, <2>1, <3>2
         DEF OnGetMnemonic, Goes, DartCustody, HandedOutIsEntrusted, DartTypeOK,
             Frame
    <3>4. PICK c \in Seq(Request) : Send(c) /\ KeysCovered(c)
      <4>1. /\ <<>> \in Seq(Request)
            /\ <<Call("generateNewMnemonic", f, None)>> \in Seq(Request)
            /\ found # None => <<DeriveKey(f, found)>> \in Seq(Request)
        BY <3>1, CallTypes DEF MaybeText
      <4>2. /\ KeysCovered(<<>>)
            /\ KeysCovered(<<Call("generateNewMnemonic", f, None)>>)
            /\ found # None => KeysCovered(<<DeriveKey(f, found)>>)
        BY <3>2, CallsCovered, EmptySeq DEF KeysCovered
      <4> QED
        BY <2>1, <4>1, <4>2 DEF OnGetMnemonic
    <3>5. KeysAfterSaves'
      BY <1>2, <3>4, SendKeys DEF ChannelTypeOK, DartCustody
    <3> QED
      BY <3>3, <3>5
  <2>2. CASE OnGenerateMnemonic(f)
    <3> DEFINE p == Head(replies).value
    <3>1. p \in Text
      BY <2>2, ResumeTyped DEF OnGenerateMnemonic, AwaitedMethods
    <3>2. HandedOutIsEntrusted'
      BY <1>2, <2>2
         DEF OnGenerateMnemonic, Goes, DartCustody, HandedOutIsEntrusted,
             DartTypeOK, Frame
    <3>3. PICK c \in Seq(Request) : Send(c) /\ KeysCovered(c)
      <4>1. /\ <<SaveMnemonic(p)>> \in Seq(Request)
            /\ <<SaveMnemonic(p), DeriveKey(f, p)>> \in Seq(Request)
            /\ <<SaveMnemonic(p), SaveMnemonic(p), DeriveKey(f, p)>>
                 \in Seq(Request)
        BY <3>1, CallTypes
      <4> QED
        BY <2>2, <3>1, <4>1, CallsCovered DEF OnGenerateMnemonic
    <3>4. KeysAfterSaves'
      BY <1>2, <3>3, SendKeys DEF ChannelTypeOK, DartCustody
    <3> QED
      BY <3>2, <3>4
  <2>3. CASE OnPrivateKey(f)
    <3>1. Head(replies).value \in entrusted
      <4>1. Head(replies).value \in Text
        BY <2>3, ResumeTyped DEF OnPrivateKey, AwaitedMethods
      <4> QED
        BY <1>5, <2>3, <4>1, ConstantsDistinct DEF OnPrivateKey, Resume, Text
    <3>2. HandedOutIsEntrusted'
      BY <1>2, <2>3, <3>1
         DEF OnPrivateKey, Goes, DartCustody, HandedOutIsEntrusted, DartTypeOK,
             Frame
    <3>3. KeysAfterSaves'
      BY <1>2, <2>3 DEF OnPrivateKey, DartCustody, KeysAfterSaves, KeysCovered, SaveMnemonic,
                        Call
    <3> QED
      BY <3>2, <3>3
  <2>4. CASE OnKeyError(f)
    BY <1>2, <2>4 DEF OnKeyError, Goes, DartCustody, HandedOutIsEntrusted,
       DartTypeOK, Frame, KeysAfterSaves, KeysCovered, SaveMnemonic, Call
  <2> QED
    BY <1>1, <2>1, <2>2, <2>3, <2>4
<1> QED
  BY <1>2, <1>4, <1>6 DEF DartCustody

\* The death of the process leaves nothing in custody on the Dart side.
LEMMA RestartCustody ==
  ASSUME DartRestart
  PROVE  DartCustody'
  BY EmptySeq DEF DartRestart, DartCustody, HandedOutIsEntrusted,
     KeysAfterSaves, KeysCovered, AnswersEntrusted, IdleFrame, Started

-----------------------------------------------------------------------------
(* Places of the calls that frames await.                                  *)

\* Taking the head of a queue moves the rest up.
LEMMA TailPlaces ==
  ASSUME NEW S, NEW q \in Seq(S), q # <<>>, NEW f
  PROVE  /\ Absent(q, f) => Absent(Tail(q), f) /\ Head(q).caller # f
         /\ \A m : Alone(q, f, m) /\ Head(q).caller # f => Alone(Tail(q), f, m)
         /\ \A m : Alone(q, f, m) /\ Head(q).caller = f =>
                       Absent(Tail(q), f) /\ Head(q).method = m
<1> DEFINE t == Tail(q)
<1>1. /\ Head(q) = q[1] /\ Len(q) \in Nat \ {0} /\ Len(t) = Len(q) - 1
      /\ \A i \in 1..Len(t) : t[i] = q[i + 1] /\ i + 1 \in 1..Len(q)
      /\ 1 \in 1..Len(q)
  BY TailOf
<1> HIDE DEF t
<1>2. Absent(q, f) => Absent(t, f) /\ Head(q).caller # f
  BY <1>1 DEF Absent
<1>3. ASSUME NEW m, Alone(q, f, m), Head(q).caller # f
      PROVE  Alone(t, f, m)
  <2>1. PICK i \in 1..Len(q) : /\ q[i].caller = f /\ q[i].method = m
                               /\ \A j \in 1..Len(q) : q[j].caller = f => j = i
    BY <1>3 DEF Alone
  <2>2. i # 1 /\ i - 1 \in 1..Len(t) /\ t[i - 1] = q[i]
    BY <1>1, <1>3, <2>1
  <2>3. \A j \in 1..Len(t) : t[j].caller = f => j = i - 1
    <3>1. ASSUME NEW j \in 1..Len(t), t[j].caller = f
          PROVE  j = i - 1
      <4>1. j + 1 = i
        BY <1>1, <2>1, <3>1
      <4> QED
        BY <1>1, <2>1, <4>1
    <3> QED
      BY <3>1
  <2> QED
    BY <2>1, <2>2, <2>3 DEF Alone
<1>4. ASSUME NEW m, Alone(q, f, m), Head(q).caller = f
      PROVE  Absent(t, f) /\ Head(q).method = m
  <2>1. PICK i \in 1..Len(q) : /\ q[i].caller = f /\ q[i].method = m
                               /\ \A j \in 1..Len(q) : q[j].caller = f => j = i
    BY <1>4 DEF Alone
  <2>2. i = 1
    BY <1>1, <1>4, <2>1
  <2>3. ASSUME NEW j \in 1..Len(t), t[j].caller = f
        PROVE  FALSE
    BY <1>1, <2>1, <2>2, <2>3
  <2> QED
    BY <1>1, <2>1, <2>2, <2>3 DEF Absent
<1> QED
  BY <1>2, <1>3, <1>4 DEF t

\* Calls are sent behind those that are queued.
LEMMA ConcatPlaces ==
  ASSUME NEW S, NEW q \in Seq(S), NEW c \in Seq(S), NEW f
  PROVE  /\ Absent(q, f) /\ Absent(c, f) => Absent(q \o c, f)
         /\ \A m : Alone(q, f, m) /\ Absent(c, f) => Alone(q \o c, f, m)
         /\ \A m : Absent(q, f) /\ Alone(c, f, m) => Alone(q \o c, f, m)
<1> DEFINE n == Len(q)
           s == q \o c
<1>1. /\ n \in Nat /\ Len(c) \in Nat /\ Len(s) = n + Len(c)
      /\ \A i \in 1..n : s[i] = q[i]
      /\ \A i \in 1..Len(c) : s[n + i] = c[i]
      /\ \A i \in 1..Len(s) : i \notin 1..n => i - n \in 1..Len(c) /\ s[i] = c[i - n]
      /\ \A i \in 1..n : i \in 1..Len(s)
      /\ \A i \in 1..Len(c) : n + i \in 1..Len(s)
  BY LenProperties, ConcatProperties
<1> HIDE DEF s, n
<1>2. Absent(q, f) /\ Absent(c, f) => Absent(s, f)
  BY <1>1 DEF Absent, n
<1>3. ASSUME NEW m, Alone(q, f, m), Absent(c, f)
      PROVE  Alone(s, f, m)
  <2>1. PICK i \in 1..n : /\ q[i].caller = f /\ q[i].method = m
                          /\ \A j \in 1..n : q[j].caller = f => j = i
    BY <1>3 DEF Alone, n
  <2>2. \A j \in 1..Len(s) : s[j].caller = f => j = i
    BY <1>1, <1>3, <2>1 DEF Absent
  <2> QED
    BY <1>1, <2>1, <2>2 DEF Alone
<1>4. ASSUME NEW m, Absent(q, f), Alone(c, f, m)
      PROVE  Alone(s, f, m)
  <2>1. PICK i \in 1..Len(c) : /\ c[i].caller = f /\ c[i].method = m
                               /\ \A j \in 1..Len(c) : c[j].caller = f => j = i
    BY <1>4 DEF Alone
  <2>2. \A j \in 1..Len(s) : s[j].caller = f => j = n + i
    <3>1. ASSUME NEW j \in 1..Len(s), s[j].caller = f
          PROVE  j = n + i
      <4>1. j \notin 1..n
        BY <1>1, <1>4, <3>1 DEF Absent, n
      <4>2. j - n = i
        BY <1>1, <2>1, <3>1, <4>1
      <4> QED
        BY <1>1, <4>2
    <3> QED
      BY <3>1
  <2> QED
    BY <1>1, <2>1, <2>2 DEF Alone
<1> QED
  BY <1>2, <1>3, <1>4 DEF s

\* An answer is posted behind those that are queued.
LEMMA AppendPlaces ==
  ASSUME NEW S, NEW q \in Seq(S), NEW e \in S, NEW f
  PROVE  /\ Absent(q, f) /\ e.caller # f => Absent(Append(q, e), f)
         /\ \A m : Alone(q, f, m) /\ e.caller # f => Alone(Append(q, e), f, m)
         /\ Absent(q, f) /\ e.caller = f => Alone(Append(q, e), f, e.method)
<1>1. Append(q, e) = q \o <<e>> /\ <<e>> \in Seq(S)
  OBVIOUS
<1>2. Len(<<e>>) = 1 /\ <<e>>[1] = e
  OBVIOUS
<1>3. e.caller # f => Absent(<<e>>, f)
  BY <1>2 DEF Absent
<1>4. e.caller = f => Alone(<<e>>, f, e.method)
  <2>1. 1 \in 1..Len(<<e>>) /\ \A j \in 1..Len(<<e>>) : j = 1
    BY <1>2
  <2> QED
    BY <1>2, <2>1 DEF Alone
<1> QED
  BY <1>1, <1>3, <1>4, ConcatPlaces

\* What each stretch of Dart code sends, and for whom.
LEMMA CallPlaces ==
  ASSUME NEW f \in Frames, NEW g \in Frames, NEW p \in Text
  PROVE  /\ Absent(<<>>, f)
         /\ \A m : f # g => Absent(<<Call(m, g, None)>>, f)
         /\ \A m : Alone(<<Call(m, f, None)>>, f, m)
         /\ Absent(<<Call("deleteMnemonic", NoFrame, None)>>, f)
         /\ f # g \/ cached # None => Absent(WalletCalls(g), f)
         /\ cached = None => Alone(WalletCalls(f), f, "getMnemonic")
         /\ Absent(<<SaveMnemonic(p)>>, f)
         /\ f # g => /\ Absent(<<DeriveKey(g, p)>>, f)
                     /\ Absent(<<SaveMnemonic(p), DeriveKey(g, p)>>, f)
                     /\ Absent(<<SaveMnemonic(p), SaveMnemonic(p),
                                 DeriveKey(g, p)>>, f)
         /\ \A m : m = "getPrivateKeyFromMnemonic" =>
              /\ Alone(<<DeriveKey(f, p)>>, f, m)
              /\ Alone(<<SaveMnemonic(p), DeriveKey(f, p)>>, f, m)
              /\ Alone(<<SaveMnemonic(p), SaveMnemonic(p),
                         DeriveKey(f, p)>>, f, m)
<1>1. Absent(<<>>, f)
  BY DEF Absent
<1>2. \A m : f # g => Absent(<<Call(m, g, None)>>, f)
  BY DEF Absent, Call
<1>3. ASSUME NEW m, NEW q  PROVE Alone(<<Call(m, f, q)>>, f, m)
  <2>1. 1 \in 1..Len(<<Call(m, f, q)>>)
        /\ \A j \in 1..Len(<<Call(m, f, q)>>) : j = 1
    OBVIOUS
  <2> QED
    BY <2>1 DEF Alone, Call
<1>4. /\ Absent(<<Call("deleteMnemonic", NoFrame, None)>>, f)
      /\ Absent(<<SaveMnemonic(p)>>, f)
  BY ConstantsDistinct DEF Absent, Call, SaveMnemonic
<1>5. /\ f # g \/ cached # None => Absent(WalletCalls(g), f)
      /\ cached = None => Alone(WalletCalls(f), f, "getMnemonic")
  BY <1>1, <1>2, <1>3 DEF WalletCalls
<1>6. f # g => /\ Absent(<<DeriveKey(g, p)>>, f)
               /\ Absent(<<SaveMnemonic(p), DeriveKey(g, p)>>, f)
               /\ Absent(<<SaveMnemonic(p), SaveMnemonic(p),
                           DeriveKey(g, p)>>, f)
  BY ConstantsDistinct DEF Absent, Call, SaveMnemonic, DeriveKey
<1>7. ASSUME NEW m, m = "getPrivateKeyFromMnemonic"
      PROVE  /\ Alone(<<DeriveKey(f, p)>>, f, m)
             /\ Alone(<<SaveMnemonic(p), DeriveKey(f, p)>>, f, m)
             /\ Alone(<<SaveMnemonic(p), SaveMnemonic(p), DeriveKey(f, p)>>,
                      f, m)
  <2> DEFINE d == DeriveKey(f, p)
             s == SaveMnemonic(p)
  <2>1. d \in Request /\ s \in Request
    BY CallTypes
  <2>2. Alone(<<d>>, f, m)
    BY <1>3, <1>7 DEF DeriveKey
  <2>3. <<s, d>> = <<s>> \o <<d>> /\ <<s, s, d>> = <<s>> \o <<s, d>>
    OBVIOUS
  <2>4. <<s>> \in Seq(Request) /\ <<d>> \in Seq(Request) /\ <<s, d>> \in Seq(Request)
    BY <2>1
  <2> HIDE DEF d, s
  <2>5. Alone(<<s, d>>, f, m)
    BY <1>4, <2>2, <2>3, <2>4, ConcatPlaces DEF s
  <2>6. Alone(<<s, s, d>>, f, m)
    BY <1>4, <2>3, <2>4, <2>5, ConcatPlaces DEF s
  <2> QED
    BY <2>2, <2>5, <2>6 DEF d, s
<1> QED
  BY <1>1, <1>2, <1>3, <1>4, <1>5, <1>6, <1>7

\* Sending calls keeps the place of each awaited one: a frame that begins to
\* wait sends the call it awaits, and no other frame's.
LEMMA SendPlaced ==
  ASSUME requests \in Seq(Request), NEW c \in Seq(Request), Send(c),
         UNCHANGED replies,
         NEW f \in Frames, NEW owed \in BOOLEAN, Placed(f, owed),
         \/ frames'[f].pc = frames[f].pc /\ Absent(c, f)
         \/ /\ frames[f].pc \in Settled
            /\ \/ frames'[f].pc \in Settled /\ Absent(c, f)
               \/ frames'[f].pc \notin Settled /\ Alone(c, f, frames'[f].pc)
  PROVE  Placed(f, owed)'
<1>1. /\ Absent(requests, f) /\ Absent(c, f) => Absent(requests', f)
      /\ \A m : Alone(requests, f, m) /\ Absent(c, f) => Alone(requests', f, m)
      /\ \A m : Absent(requests, f) /\ Alone(c, f, m) => Alone(requests', f, m)
  BY ConcatPlaces DEF Send
<1>2. CASE frames'[f].pc = frames[f].pc /\ Absent(c, f)
  BY <1>1, <1>2 DEF Placed, Settled
<1>3. CASE /\ frames[f].pc \in Settled
           /\ \/ frames'[f].pc \in Settled /\ Absent(c, f)
              \/ frames'[f].pc \notin Settled /\ Alone(c, f, frames'[f].pc)
  <2>1. ~owed /\ Absent(requests, f) /\ Absent(replies, f)
    BY <1>3 DEF Placed, Settled
  <2> QED
    BY <1>1, <1>3, <2>1 DEF Placed
<1> QED
  BY <1>2, <1>3

\* The calls of the application keep the places.
LEMMA AppPlaced ==
  ASSUME ChannelTypeOK, DartTypeOK, AppStep \/ PermanentlyDeleteAccount,
         NEW h \in Frames, NEW owed \in BOOLEAN, Placed(h, owed)
  PROVE  Placed(h, owed)'
<1> USE DEF ChannelTypeOK, DartTypeOK
<1> DEFINE Moved(c) ==
      \/ frames'[h].pc = frames[h].pc /\ Absent(c, h)
      \/ /\ frames[h].pc \in Settled
         /\ \/ frames'[h].pc \in Settled /\ Absent(c, h)
            \/ frames'[h].pc \notin Settled /\ Alone(c, h, frames'[h].pc)
<1>0. SUFFICES \E c \in Seq(Request) : Send(c) /\ UNCHANGED replies /\ Moved(c)
  <2>1. PICK c \in Seq(Request) : Send(c) /\ UNCHANGED replies /\ Moved(c)
    BY <1>0
  <2> QED
    BY <2>1, SendPlaced
<1>p. Failure \in Text
  BY DEF Text
<1>1. ASSUME NEW f \in Frames, NEW a \in BOOLEAN, f \in Free,
             frames'[f] = WalletFrame(a), h # f => frames'[h] = frames[h]
      PROVE  Moved(WalletCalls(f))
  <2>1. CASE h # f
    BY <1>1, <2>1, <1>p, CallPlaces
  <2>4. frames[f].pc \in Settled
    BY <1>1 DEF Free
  <2>2. CASE h = f /\ cached # None
    <3>1. frames'[f].pc = "returned"
      BY <1>1, <2>2 DEF WalletFrame, Started
    <3>2. Absent(WalletCalls(f), f)
      BY <1>p, <2>2, CallPlaces
    <3> QED
      BY <2>2, <2>4, <3>1, <3>2 DEF Settled
  <2>3. CASE h = f /\ cached = None
    <3>1. frames'[f].pc = "getMnemonic"
      BY <1>1, <2>3 DEF WalletFrame, Started
    <3>2. Alone(WalletCalls(f), f, "getMnemonic")
      BY <1>p, <2>3, CallPlaces
    <3> QED
      BY <2>3, <2>4, <3>1, <3>2 DEF Settled
  <2> QED
    BY <2>1, <2>2, <2>3
<1>2. ASSUME NEW f \in Frames, GetWallet(f) \/ Sign(f)
      PROVE  \E c \in Seq(Request) : Send(c) /\ UNCHANGED replies /\ Moved(c)
  BY <1>1, <1>2, WalletCallsTyped DEF GetWallet, Sign
<1>3. ASSUME NEW f \in Frames, GetAccountPhrase(f)
      PROVE  \E c \in Seq(Request) : Send(c) /\ UNCHANGED replies /\ Moved(c)
  <2> DEFINE c == <<Call("getMnemonic", f, None)>>
  <2>1. c \in Seq(Request) /\ Send(c) /\ UNCHANGED replies
    BY <1>3, CallTypes DEF GetAccountPhrase
  <2>2. Moved(c)
    BY <1>3, <1>p, CallPlaces DEF GetAccountPhrase, Started, Free, Settled
  <2> QED
    BY <2>1, <2>2
<1>4. ASSUME NEW f \in Frames, NEW g \in Frames, CreateAccount(f, g)
      PROVE  \E c \in Seq(Request) : Send(c) /\ UNCHANGED replies /\ Moved(c)
  <2>1. /\ Send(WalletCalls(g)) /\ UNCHANGED replies
        /\ f \in Free /\ g \in Free /\ f # g
        /\ frames'[g] = WalletFrame(FALSE)
        /\ frames'[f].pc = "threw"
        /\ h \notin {f, g} => frames'[h] = frames[h]
    BY <1>4 DEF CreateAccount, Started
  <2>2. CASE h = f
    <3>1. Absent(WalletCalls(g), h)
      BY <1>p, <2>1, <2>2, CallPlaces
    <3> QED
      BY <2>1, <2>2, <3>1, WalletCallsTyped DEF Free, Settled
  <2>3. CASE h # f
    <3>1. Moved(WalletCalls(g))
      BY <1>1, <2>1, <2>3
    <3> QED
      BY <2>1, <3>1, WalletCallsTyped
  <2> QED
    BY <2>2, <2>3
<1>5. ASSUME NEW f \in Frames, NEW g \in Frames, OverwriteAccount(f, g)
      PROVE  \E c \in Seq(Request) : Send(c) /\ UNCHANGED replies /\ Moved(c)
  <2> DEFINE a == WalletCalls(g)
             b == <<Call("generateNewMnemonic", f, None)>>
  <2>1. /\ Send(a \o b) /\ UNCHANGED replies
        /\ f \in Free /\ g \in Free /\ f # g
        /\ frames'[g] = WalletFrame(FALSE)
        /\ frames'[f].pc = "generateNewMnemonic"
        /\ h \notin {f, g} => frames'[h] = frames[h]
    BY <1>5 DEF OverwriteAccount, Started
  <2>2. a \in Seq(Request) /\ b \in Seq(Request)
    BY CallTypes, WalletCallsTyped
  <2>3. a \o b \in Seq(Request)
    BY <2>2
  <2>4. CASE h = f
    <3>1. Absent(a, h) /\ Alone(b, h, "generateNewMnemonic")
      BY <2>1, <2>4, <1>p, CallPlaces
    <3>2. Alone(a \o b, h, frames'[h].pc)
      BY <2>1, <2>2, <2>4, <3>1, ConcatPlaces
    <3> QED
      BY <2>1, <2>3, <2>4, <3>2 DEF Free, Settled
  <2>5. CASE h # f
    <3>1. Absent(b, h) /\ Moved(a)
      BY <1>1, <2>1, <2>5, <1>p, CallPlaces
    <3>2. Moved(a \o b)
      BY <2>2, <3>1, ConcatPlaces
    <3> QED
      BY <2>1, <2>3, <3>2
  <2> QED
    BY <2>4, <2>5
<1>6. ASSUME PermanentlyDeleteAccount
      PROVE  \E c \in Seq(Request) : Send(c) /\ UNCHANGED replies /\ Moved(c)
  <2> DEFINE c == <<Call("deleteMnemonic", NoFrame, None)>>
  <2>1. c \in Seq(Request) /\ Send(c) /\ UNCHANGED <<frames, replies>>
    BY <1>6, CallTypes DEF PermanentlyDeleteAccount
  <2>2. Absent(c, h)
    BY <1>p, CallPlaces
  <2> QED
    BY <2>1, <2>2
<1>7. ASSUME NEW p \in AppTexts, SaveText(p)
      PROVE  \E c \in Seq(Request) : Send(c) /\ UNCHANGED replies /\ Moved(c)
  <2> DEFINE c == <<SaveMnemonic(p)>>
  <2>1. c \in Seq(Request) /\ Send(c) /\ UNCHANGED <<frames, replies>>
    BY <1>7, CallTypes, AppCallsAssumption DEF SaveText
  <2>2. Absent(c, h)
    BY CallPlaces, AppCallsAssumption
  <2> QED
    BY <2>1, <2>2
<1> HIDE DEF Moved
<1> QED
  BY <1>2, <1>3, <1>4, <1>5, <1>6, <1>7 DEF AppStep

\* A reply that a frame takes leaves nothing behind for that frame; what the
\* frame sends then is the call it goes on to await, if it does.
LEMMA ResumePlaced ==
  ASSUME ChannelTypeOK, DartTypeOK,
         NEW f \in Frames, NEW m \in AwaitedMethods, Resume(f, m),
         NEW pc, NEW text, Goes(f, pc, text),
         NEW c \in Seq(Request), Send(c),
         \A g \in Frames : g # f => Absent(c, g),
         pc \in Settled => Absent(c, f),
         pc \notin Settled => Alone(c, f, pc),
         NEW h \in Frames, NEW owed \in BOOLEAN, Placed(h, owed)
  PROVE  Placed(h, owed)'
<1> USE DEF ChannelTypeOK, DartTypeOK
<1>1. /\ replies # <<>> /\ replies' = Tail(replies)
      /\ Head(replies).caller = f /\ frames[f].pc = m /\ m \notin Settled
  BY DEF Resume, AwaitedMethods, Settled
<1>2. /\ Absent(replies, h) => Absent(replies', h) /\ h # f
      /\ \A n : Alone(replies, h, n) /\ h # f => Alone(replies', h, n)
      /\ \A n : Alone(replies, h, n) /\ h = f => Absent(replies', h)
  BY <1>1, TailPlaces
<1>3. /\ Absent(requests, h) /\ Absent(c, h) => Absent(requests', h)
      /\ \A n : Alone(requests, h, n) /\ Absent(c, h) => Alone(requests', h, n)
      /\ \A n : Absent(requests, h) /\ Alone(c, h, n) => Alone(requests', h, n)
  BY ConcatPlaces DEF Send
<1>4. CASE h = f
  <2>1. ~owed /\ Absent(requests, h) /\ Absent(replies', h)
    BY <1>1, <1>2, <1>4 DEF Placed
  <2>2. frames'[h].pc = pc
    BY <1>4 DEF Goes, Frame
  <2>3. CASE pc \in Settled
    BY <1>3, <1>4, <2>1, <2>2, <2>3 DEF Placed
  <2>4. CASE pc \notin Settled
    BY <1>3, <1>4, <2>1, <2>2, <2>4 DEF Placed
  <2> QED
    BY <2>3, <2>4
<1>5. CASE h # f
  <2>1. frames'[h] = frames[h] /\ Absent(c, h)
    BY <1>5 DEF Goes
  <2> QED
    BY <1>2, <1>3, <1>5, <2>1 DEF Placed
<1> QED
  BY <1>4, <1>5

\* The resumptions of the isolate keep the places.
LEMMA DartPlaced ==
  ASSUME ChannelTypeOK, DartTypeOK, DartStep,
         NEW h \in Frames, NEW owed \in BOOLEAN, Placed(h, owed)
  PROVE  Placed(h, owed)'
<1>1. ASSUME NEW f \in Frames, OnGetMnemonic(f)
      PROVE  Placed(h, owed)'
  <2> DEFINE found == Head(replies).value
  <2>1. Resume(f, "getMnemonic") /\ "getMnemonic" \in AwaitedMethods
    BY <1>1 DEF OnGetMnemonic, AwaitedMethods
  <2>2. found \in MaybeText /\ Failure \in Text
    BY <2>1, ResumeTyped DEF Text
  <2>3. CASE found = None
    <3> DEFINE c == <<Call("generateNewMnemonic", f, None)>>
    <3>1. Goes(f, "generateNewMnemonic", None) /\ Send(c) /\ c \in Seq(Request)
      BY <1>1, <2>3, CallTypes DEF OnGetMnemonic
    <3>2. /\ \A g \in Frames : g # f => Absent(c, g)
          /\ Alone(c, f, "generateNewMnemonic")
      BY <2>2, CallPlaces
    <3> HIDE DEF c
    <3> QED
      BY <2>1, <3>1, <3>2, ResumePlaced DEF Settled
  <2>4. CASE found # None /\ frames[f].op = "getAccountPhrase"
    <3>1. Goes(f, "returned", found) /\ Send(<<>>) /\ <<>> \in Seq(Request)
      BY <1>1, <2>4 DEF OnGetMnemonic
    <3>2. \A g \in Frames : Absent(<<>>, g)
      BY DEF Absent
    <3> HIDE DEF found
    <3> QED
      BY <2>1, <3>1, <3>2, ResumePlaced DEF Settled
  <2>5. CASE found # None /\ frames[f].op = "getWallet"
    <3> DEFINE c == <<DeriveKey(f, found)>>
    <3>0. found \in Text
      BY <2>2, <2>5 DEF MaybeText
    <3>1. /\ Goes(f, "getPrivateKeyFromMnemonic", found)
          /\ Send(c) /\ c \in Seq(Request)
      BY <1>1, <2>5, <3>0, CallTypes DEF OnGetMnemonic
    <3>2. /\ \A g \in Frames : g # f => Absent(c, g)
          /\ Alone(c, f, "getPrivateKeyFromMnemonic")
      BY <3>0, CallPlaces
    <3> HIDE DEF c, found
    <3> QED
      BY <2>1, <3>1, <3>2, ResumePlaced DEF Settled
  <2> QED
    BY <1>1, <2>3, <2>4, <2>5 DEF OnGetMnemonic
<1>2. ASSUME NEW f \in Frames, OnGenerateMnemonic(f)
      PROVE  Placed(h, owed)'
  <2> DEFINE p == Head(replies).value
             key == <<DeriveKey(f, p)>>
             one == <<SaveMnemonic(p), DeriveKey(f, p)>>
             two == <<SaveMnemonic(p), SaveMnemonic(p), DeriveKey(f, p)>>
             method == "getPrivateKeyFromMnemonic"
  <2>1. Resume(f, "generateNewMnemonic") /\ "generateNewMnemonic" \in AwaitedMethods
    BY <1>2 DEF OnGenerateMnemonic, AwaitedMethods
  <2>2. p \in Text
    BY <2>1, ResumeTyped
  <2>3. /\ <<SaveMnemonic(p)>> \in Seq(Request)
        /\ one \in Seq(Request) /\ two \in Seq(Request)
    BY <2>2, CallTypes
  <2>4. /\ \A g \in Frames : Absent(<<SaveMnemonic(p)>>, g)
        /\ \A g \in Frames : g # f => Absent(one, g) /\ Absent(two, g)
        /\ Alone(one, f, method) /\ Alone(two, f, method)
    BY <2>2, CallPlaces
  <2>5. CASE Goes(f, "returned", p) /\ Send(<<SaveMnemonic(p)>>)
    <3> HIDE DEF p
    <3> QED
      BY <2>1, <2>3, <2>4, <2>5, ResumePlaced DEF Settled
  <2>6. CASE Goes(f, method, p) /\ Send(one)
    <3> HIDE DEF one, p
    <3> QED
      BY <2>1, <2>3, <2>4, <2>6, ResumePlaced DEF Settled
  <2>7. CASE Goes(f, method, p) /\ Send(two)
    <3> HIDE DEF two, p
    <3> QED
      BY <2>1, <2>3, <2>4, <2>7, ResumePlaced DEF Settled
  <2> QED
    BY <1>2, <2>5, <2>6, <2>7 DEF OnGenerateMnemonic
<1>3. ASSUME NEW f \in Frames, OnPrivateKey(f) \/ OnKeyError(f)
      PROVE  Placed(h, owed)'
  <2>1. /\ Resume(f, "getPrivateKeyFromMnemonic")
        /\ "getPrivateKeyFromMnemonic" \in AwaitedMethods
    BY <1>3 DEF OnPrivateKey, OnKeyError, AwaitedMethods
  <2>2. Send(<<>>) /\ <<>> \in Seq(Request)
    BY <1>3 DEF OnPrivateKey, OnKeyError, Send, ChannelTypeOK
  <2>3. PICK pc, text : pc \in {"returned", "threw"} /\ Goes(f, pc, text)
    BY <1>3 DEF OnPrivateKey, OnKeyError
  <2>4. \A g \in Frames : Absent(<<>>, g)
    BY DEF Absent
  <2>5. pc \in Settled
    BY <2>3 DEF Settled
  <2> QED
    BY <2>1, <2>2, <2>3, <2>4, <2>5, ResumePlaced
<1> QED
  BY <1>1, <1>2, <1>3 DEF DartStep

\* The death of the process forgets the frames together with the queues.
LEMMA RestartPlaced ==
  ASSUME DartRestart, NEW h \in Frames
  PROVE  Placed(h, FALSE)'
  BY DEF DartRestart, IdleFrame, Started, Placed, Settled, Absent

\* A handler that answers moves the call it took from one queue to the other.
LEMMA AnsweredPlaced ==
  ASSUME ChannelTypeOK, ChannelTypeOK', NEW m, Receive(m), UNCHANGED frames,
         NEW ok, NEW v, Answer(Head(requests), ok, v),
         NEW h \in Frames, NEW owed \in BOOLEAN, Placed(h, owed)
  PROVE  Placed(h, owed)'
<1> DEFINE req == Head(requests)
           e == [method |-> req.method, caller |-> req.caller, ok |-> ok,
                 value |-> v]
<1>1. requests # <<>> /\ requests' = Tail(requests) /\ req.method = m
  BY DEF Receive
<1>2. /\ Absent(requests, h) => Absent(requests', h) /\ req.caller # h
      /\ \A n : Alone(requests, h, n) /\ req.caller # h => Alone(requests', h, n)
      /\ \A n : Alone(requests, h, n) /\ req.caller = h =>
                    Absent(requests', h) /\ m = n
  BY <1>1, TailPlaces DEF ChannelTypeOK
<1>3. /\ replies \in Seq(Reply) /\ replies' \in Seq(Reply)
      /\ replies' = Append(replies, e)
  BY DEF Answer, ChannelTypeOK
<1>4. e \in Reply /\ e.caller = req.caller /\ e.method = m
  <2>1. /\ Len(replies') = Len(replies) + 1 /\ Len(replies) \in Nat
        /\ replies'[Len(replies) + 1] = e
    BY <1>3, LenProperties
  <2> QED
    BY <1>1, <1>3, <2>1
<1> HIDE DEF e
<1>5. /\ Absent(replies, h) /\ req.caller # h => Absent(replies', h)
      /\ \A n : Alone(replies, h, n) /\ req.caller # h => Alone(replies', h, n)
      /\ Absent(replies, h) /\ req.caller = h => Alone(replies', h, m)
  BY <1>3, <1>4, AppendPlaces
<1> QED
  BY <1>2, <1>5 DEF Placed

\* A handler of a call that nobody awaits moves nobody's.
LEMMA UnawaitedPlaced ==
  ASSUME ChannelTypeOK, NEW m \in {"saveMnemonic", "deleteMnemonic"}, Receive(m),
         UNCHANGED <<frames, replies>>,
         NEW h \in Frames, NEW owed \in BOOLEAN, Placed(h, owed)
  PROVE  Placed(h, owed)'
<1>1. /\ requests # <<>> /\ requests' = Tail(requests)
      /\ Head(requests) \in Request /\ Head(requests).method = m
  BY ReceiveTyped DEF Receive
<1>2. Head(requests).caller # h
  BY <1>1, ConstantsDistinct DEF Request
<1>3. /\ Absent(requests, h) => Absent(requests', h)
      /\ \A n : Alone(requests, h, n) => Alone(requests', h, n)
  BY <1>1, <1>2, TailPlaces DEF ChannelTypeOK
<1> QED
  BY <1>3 DEF Placed

\* A step that leaves the frames and the queues alone keeps the places.
LEMMA PlacedKept ==
  ASSUME UNCHANGED <<frames, channelVars>>,
         NEW h, NEW owed, Placed(h, owed)
  PROVE  Placed(h, owed)'
  BY DEF Placed, channelVars, Absent, Alone

\* No application has called anything at the start.
LEMMA InitPlaced ==
  ASSUME ChannelInit, DartInit, NEW h \in Frames
  PROVE  Placed(h, FALSE)
  BY DEF ChannelInit, DartInit, IdleFrame, Started, Placed, Settled, Absent

\* The sets that the counts of answers are about.
LEMMA SmallSets ==
  /\ Cardinality({}) = 0
  /\ \A x : Cardinality({x}) = 1
  BY FS_EmptySet, FS_Singleton

\* How many things a queue holds for a frame.
LEMMA PlacesCounted ==
  ASSUME NEW q, NEW f
  PROVE  LET At == {i \in 1..Len(q) : q[i].caller = f} IN
         /\ Absent(q, f) => At = {} /\ Cardinality(At) = 0
         /\ \A m : Alone(q, f, m) =>
              Cardinality(At) = 1 /\ \A i \in At : q[i].method = m
<1> DEFINE At == {i \in 1..Len(q) : q[i].caller = f}
<1>1. Absent(q, f) => At = {} /\ Cardinality(At) = 0
  BY SmallSets DEF Absent
<1>2. ASSUME NEW m, Alone(q, f, m)
      PROVE  Cardinality(At) = 1 /\ \A i \in At : q[i].method = m
  <2>1. PICK i \in 1..Len(q) : /\ q[i].caller = f /\ q[i].method = m
                               /\ \A j \in 1..Len(q) : q[j].caller = f => j = i
    BY <1>2 DEF Alone
  <2>2. At = {i}
    BY <2>1
  <2> QED
    BY <2>1, <2>2, SmallSets
<1> QED
  BY <1>1, <1>2

\* What the place of a frame's call says about the count of its answers.
LEMMA PlacedCounted ==
  ASSUME NEW f \in Frames, NEW owed \in BOOLEAN, Placed(f, owed)
  PROVE  LET n == IF owed THEN 1 ELSE 0 IN
         /\ Cardinality(Queued(f)) + Cardinality(Answered(f)) + n
              = (IF frames[f].pc \in Settled THEN 0 ELSE 1)
         /\ \A i \in Queued(f) : requests[i].method = frames[f].pc
         /\ \A i \in Answered(f) : replies[i].method = frames[f].pc
         /\ n # 0 => frames[f].pc = "getMnemonic"
<1>1. /\ Absent(requests, f) => Queued(f) = {} /\ Cardinality(Queued(f)) = 0
      /\ \A m : Alone(requests, f, m) =>
           Cardinality(Queued(f)) = 1 /\ \A i \in Queued(f) : requests[i].method = m
  BY PlacesCounted DEF Queued
<1>2. /\ Absent(replies, f) => Answered(f) = {} /\ Cardinality(Answered(f)) = 0
      /\ \A m : Alone(replies, f, m) =>
           Cardinality(Answered(f)) = 1 /\ \A i \in Answered(f) : replies[i].method = m
  BY PlacesCounted DEF Answered
<1>3. "getMnemonic" \notin Settled
  BY DEF Settled
<1> QED
  BY <1>1, <1>2, <1>3 DEF Placed

-----------------------------------------------------------------------------
(* Reads that find the stored mnemonic.                                    *)

\* The calls that Dart makes, other than a deletion, keep what is stored.
LEMMA KeepingCalls ==
  /\ \A f \in Frames : Call("getMnemonic", f, None) \in KeepingRequest
  /\ \A f \in Frames : Call("generateNewMnemonic", f, None) \in KeepingRequest
  /\ \A f \in Frames, p \in Text : DeriveKey(f, p) \in KeepingRequest
  /\ \A p \in Text : SaveMnemonic(p) \in KeepingRequest
  /\ \A f \in Frames : WalletCalls(f) \in Seq(KeepingRequest)
<1>1. /\ \A f \in Frames : Call("getMnemonic", f, None) \in KeepingRequest
      /\ \A f \in Frames : Call("generateNewMnemonic", f, None) \in KeepingRequest
      /\ \A f \in Frames, p \in Text : DeriveKey(f, p) \in KeepingRequest
      /\ \A p \in Text : SaveMnemonic(p) \in KeepingRequest
  BY CallTypes DEF KeepingRequest, Call, DeriveKey, SaveMnemonic
<1> QED
  BY <1>1 DEF WalletCalls

\* Sending such calls keeps the queue one of them.
LEMMA SendKeeping ==
  ASSUME requests \in Seq(KeepingRequest), NEW c \in Seq(KeepingRequest), Send(c)
  PROVE  requests' \in Seq(KeepingRequest)
  BY DEF Send

\* A frame that goes on does not become a read that draws, unless it is a read
\* that goes on to draw.
LEMMA GoesFinds ==
  ASSUME DartTypeOK, NoReadDraws, NEW f \in Frames, NEW pc, NEW text,
         Goes(f, pc, text), pc # "generateNewMnemonic"
  PROVE  NoReadDraws'
<1>1. /\ frames'[f].pc = pc
      /\ \A g \in Frames \ {f} : frames'[g] = frames[g]
  BY DEF Goes, DartTypeOK, Frame
<1> QED
  BY <1>1 DEF NoReadDraws

\* The calls of the application find what is stored.
LEMMA AppFinds ==
  ASSUME DartTypeOK, DartFinds, AppStep
  PROVE  DartFinds'
<1>1. \A a \in BOOLEAN : WalletFrame(a).pc # "generateNewMnemonic"
  BY DEF WalletFrame, Started
<1>2. replies' = replies
  BY DEF AppStep, GetWallet, GetAccountPhrase, Sign, CreateAccount,
         OverwriteAccount, SaveText
<1>3. \E c \in Seq(KeepingRequest) : Send(c)
  <2>1. ASSUME NEW f \in Frames, GetWallet(f) \/ GetAccountPhrase(f) \/ Sign(f)
        PROVE  \E c \in Seq(KeepingRequest) : Send(c)
    <3>1. /\ WalletCalls(f) \in Seq(KeepingRequest)
          /\ <<Call("getMnemonic", f, None)>> \in Seq(KeepingRequest)
      BY KeepingCalls
    <3> QED
      BY <2>1, <3>1 DEF GetWallet, GetAccountPhrase, Sign
  <2>2. ASSUME NEW f \in Frames, NEW g \in Frames,
               CreateAccount(f, g) \/ OverwriteAccount(f, g)
        PROVE  \E c \in Seq(KeepingRequest) : Send(c)
    <3>1. /\ WalletCalls(g) \in Seq(KeepingRequest)
          /\ WalletCalls(g) \o <<Call("generateNewMnemonic", f, None)>>
               \in Seq(KeepingRequest)
      BY KeepingCalls
    <3> QED
      BY <2>2, <3>1 DEF CreateAccount, OverwriteAccount
  <2>3. ASSUME NEW p \in AppTexts, SaveText(p)
        PROVE  \E c \in Seq(KeepingRequest) : Send(c)
    <3>1. <<SaveMnemonic(p)>> \in Seq(KeepingRequest)
      BY KeepingCalls, AppCallsAssumption
    <3> QED
      BY <2>3, <3>1 DEF SaveText
  <2> QED
    BY <2>1, <2>2, <2>3 DEF AppStep
<1>4. requests' \in Seq(KeepingRequest)
  BY <1>3, SendKeeping DEF DartFinds
<1>5. \A h \in Frames :
        \/ frames'[h] = frames[h] \/ frames'[h].pc # "generateNewMnemonic"
        \/ frames'[h].op = "createAccount"
  <2>1. ASSUME NEW f \in Frames, GetWallet(f) \/ GetAccountPhrase(f) \/ Sign(f),
               NEW h \in Frames
        PROVE  frames'[h] = frames[h] \/ frames'[h].pc # "generateNewMnemonic"
    <3>1. CASE GetWallet(f) \/ Sign(f)
      BY <1>1, <3>1 DEF GetWallet, Sign, DartTypeOK
    <3>2. CASE GetAccountPhrase(f)
      BY <3>2 DEF GetAccountPhrase, Started, DartTypeOK
    <3> QED
      BY <2>1, <3>1, <3>2
  <2>2. ASSUME NEW f \in Frames, NEW g \in Frames, CreateAccount(f, g),
               NEW h \in Frames
        PROVE  frames'[h] = frames[h] \/ frames'[h].pc # "generateNewMnemonic"
    BY <1>1, <2>2 DEF CreateAccount, Started, DartTypeOK
  <2>3. ASSUME NEW f \in Frames, NEW g \in Frames, OverwriteAccount(f, g),
               NEW h \in Frames
        PROVE  \/ frames'[h] = frames[h]
               \/ frames'[h].pc # "generateNewMnemonic"
               \/ frames'[h].op = "createAccount"
    BY <1>1, <2>3 DEF OverwriteAccount, Started, DartTypeOK
  <2>4. ASSUME NEW p \in AppTexts, SaveText(p)
        PROVE  frames' = frames
    BY <2>4 DEF SaveText
  <2> QED
    BY <2>1, <2>2, <2>3, <2>4 DEF AppStep
<1>6. NoReadDraws'
  BY <1>5 DEF DartFinds, NoReadDraws
<1> QED
  BY <1>2, <1>4, <1>6 DEF DartFinds

\* So do the resumptions of the isolate: a read goes on with what it found.
LEMMA DartStepFinds ==
  ASSUME ChannelTypeOK, DartTypeOK, DartFinds, DartStep
  PROVE  DartFinds'
<1>1. ASSUME NEW f \in Frames, NEW m \in AwaitedMethods, Resume(f, m)
      PROVE  /\ replies' \in Seq(FindingReply)
             /\ m = "getMnemonic" => Head(replies).value # None
             /\ m # "getMnemonic" => Head(replies).value \in Text
             /\ Head(replies).value \in MaybeText
  <2>1. replies # <<>> /\ replies' = Tail(replies) /\ Head(replies).method = m
    BY <1>1 DEF Resume
  <2>2. replies' \in Seq(FindingReply) /\ Head(replies) \in FindingReply
    BY <2>1, TailOf DEF DartFinds
  <2> QED
    BY <1>1, <2>1, <2>2, ResumeTyped DEF FindingReply
<1>2. ASSUME NEW f \in Frames, OnGetMnemonic(f)
      PROVE  DartFinds'
  <2> DEFINE found == Head(replies).value
  <2>1. replies' \in Seq(FindingReply) /\ found # None /\ found \in Text
    BY <1>1, <1>2 DEF OnGetMnemonic, AwaitedMethods, MaybeText
  <2>2. <<>> \in Seq(KeepingRequest) /\ <<DeriveKey(f, found)>> \in Seq(KeepingRequest)
    BY <2>1, KeepingCalls
  <2>3. requests' \in Seq(KeepingRequest)
    BY <1>2, <2>1, <2>2, SendKeeping DEF OnGetMnemonic, DartFinds
  <2>4. NoReadDraws'
    BY <1>2, <2>1, GoesFinds DEF OnGetMnemonic, DartFinds
  <2> QED
    BY <2>1, <2>3, <2>4 DEF DartFinds
<1>3. ASSUME NEW f \in Frames, OnGenerateMnemonic(f)
      PROVE  DartFinds'
  <2> DEFINE p == Head(replies).value
  <2>1. replies' \in Seq(FindingReply) /\ p \in Text
    BY <1>1, <1>3 DEF OnGenerateMnemonic, AwaitedMethods
  <2>2. /\ <<SaveMnemonic(p)>> \in Seq(KeepingRequest)
        /\ <<SaveMnemonic(p), DeriveKey(f, p)>> \in Seq(KeepingRequest)
        /\ <<SaveMnemonic(p), SaveMnemonic(p), DeriveKey(f, p)>>
             \in Seq(KeepingRequest)
    BY <2>1, KeepingCalls
  <2>3. requests' \in Seq(KeepingRequest)
    BY <1>3, <2>2, SendKeeping DEF OnGenerateMnemonic, DartFinds
  <2>4. NoReadDraws'
    BY <1>3, GoesFinds DEF OnGenerateMnemonic, DartFinds
  <2> QED
    BY <2>1, <2>3, <2>4 DEF DartFinds
<1>4. ASSUME NEW f \in Frames, OnPrivateKey(f) \/ OnKeyError(f)
      PROVE  DartFinds'
  <2>1. replies' \in Seq(FindingReply)
    BY <1>1, <1>4 DEF OnPrivateKey, OnKeyError, AwaitedMethods
  <2>2. NoReadDraws' /\ requests' = requests
    BY <1>4, GoesFinds DEF OnPrivateKey, OnKeyError, DartFinds
  <2> QED
    BY <2>1, <2>2 DEF DartFinds
<1> QED
  BY <1>2, <1>3, <1>4 DEF DartStep

\* A restart leaves nothing under way.
LEMMA RestartFinds ==
  ASSUME DartRestart
  PROVE  DartFinds'
  BY EmptySeq DEF DartRestart, DartFinds, NoReadDraws, IdleFrame, Started

\* What the platform takes from the queue is not a deletion.
LEMMA ReceiveFinds ==
  ASSUME DartFinds, NEW m, Receive(m)
  PROVE  requests' \in Seq(KeepingRequest) /\ m # "deleteMnemonic"
<1>1. requests # <<>> /\ requests' = Tail(requests) /\ Head(requests).method = m
  BY DEF Receive
<1>2. Head(requests) \in KeepingRequest /\ requests' \in Seq(KeepingRequest)
  BY <1>1, TailOf DEF DartFinds
<1> QED
  BY <1>1, <1>2 DEF KeepingRequest

\* An answer to a read that holds a mnemonic is one that finds.
LEMMA AnswerFinds ==
  ASSUME DartFinds, replies \in Seq(Reply), replies' \in Seq(Reply),
         NEW r, NEW ok, NEW v, Answer(r, ok, v),
         r.method = "getMnemonic" => v # None
  PROVE  replies' \in Seq(FindingReply)
<1> DEFINE e == [method |-> r.method, caller |-> r.caller, ok |-> ok,
                 value |-> v]
<1>1. e \in Reply /\ replies' = replies \o <<e>>
  BY AnswerAppends
<1>2. e \in FindingReply
  BY <1>1 DEF FindingReply
<1> HIDE DEF e
<1> QED
  BY <1>1, <1>2 DEF DartFinds

==============================================================================
