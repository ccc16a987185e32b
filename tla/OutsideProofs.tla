---------------------------- MODULE OutsideProofs ----------------------------
(***************************************************************************)
(* Theorems about the two programs outside the service: the browser        *)
(* client, for any number of chats, clicks, users and logins, and the migration *)
(* script, for every source, table list and number of runs.  They share no *)
(* variable and no definition.                                             *)
(***************************************************************************)
EXTENDS Client, Migration, FiniteSetTheorems, WellFoundedInduction, TLAPS

(***************************************************************************)
(*                         The browser client                              *)
(***************************************************************************)
\* The steps by what they are about: a chat, a click or the page.
ChatStep(c) == Send(c) \/ Serve(c) \/ Reply(c) \/ ReplyFails(c) \/ Fetched(c) \/ Ends(c)
ClickStep(k) ==
    \/ ClearChat(k) \/ ClearMemories(k) \/ Post(k) \/ Execute(k)
    \/ NoteClearedSection(k) \/ FullReset(k) \/ ResetEnds(k) \/ PostFails(k)
PageStep == Silences \/ Login \/ Logout \/ LoadRead \/ LoadArrives

\* Every step is one of these.
LEMMA NextIsAStep ==
    ASSUME [Next]_vars
    PROVE  \/ \E c \in Chats : ChatStep(c)
           \/ \E k \in Clicks : ClickStep(k)
           \/ PageStep \/ UNCHANGED vars
  BY DEF Next, ChatStep, ClickStep, PageStep

\* The records the handlers move between.
LEMMA Records ==
    /\ Over \in Click /\ Over.at = "over" /\ Over.kind = "none" /\ Over.awaits = {}
    /\ NoLoad \in Load /\ NoLoad.at = "none" /\ NoLoad.epoch = 0 /\ NoLoad.messages = {}
    /\ \A e \in Nat : /\ Loading(e) \in Load /\ Loading(e).at = "sent"
                      /\ Loading(e).epoch = e /\ Loading(e).messages = {}
  BY DEF Over, Unclicked, Click, Kinds, NoLoad, Load, Loading

\* Each step keeps the types.
LEMMA NextTyped == TypeOK /\ [Next]_vars => TypeOK'
<1>. SUFFICES ASSUME TypeOK, [Next]_vars PROVE TypeOK'
  OBVIOUS
<1>. USE DEF TypeOK, server, shown, audio, flags, who, past, Kinds, Sections, Stops
<1>1. ASSUME NEW c \in Chats, ChatStep(c) PROVE TypeOK'
  <2>1. CASE Send(c)
    BY <2>1 DEF Send, Stops
  <2>2. CASE Serve(c)
    <3>. DEFINE reply == IF chat[c].at = "sent" THEN facts' \cap Of(chat[c].user) ELSE {}
    <3>1. reply \in SUBSET Chats
      BY DEF Of
    <3>. HIDE DEF reply
    <3>2. carried' = [carried EXCEPT ![c] = reply]
      BY <2>2 DEF Serve, reply
    <3>3. carried' \in [Chats -> SUBSET Chats]
      BY <3>1, <3>2
    <3>4. served' \in [Chats -> {"none", "pending", "stored"}] /\ history' \subseteq Chats /\ facts' \subseteq Chats
      BY <2>2 DEF Serve
    <3>. QED
      BY <2>2, <3>3, <3>4 DEF Serve
  <2>3. CASE Reply(c)
    <3>1. /\ chat' \in [Chats -> [at : {"none", "sent", "done"}, user : Users \cup {None}, epoch : Nat]]
          /\ carried' \in [Chats -> SUBSET Chats]
      BY <2>3 DEF Reply
    <3>2. CASE IsOurs(c)
      BY <2>3, <3>1, <3>2 DEF Reply, Fetches
    <3>3. CASE ~IsOurs(c)
      BY <2>3, <3>1, <3>3 DEF Reply
    <3>. QED
      BY <3>2, <3>3
  <2>4. CASE ReplyFails(c)
    BY <2>4 DEF ReplyFails
  <2>5. CASE Fetched(c) \/ Ends(c)
    BY <2>5 DEF Fetched, Ends
  <2>. QED
    BY <1>1, <2>1, <2>2, <2>3, <2>4, <2>5 DEF ChatStep
<1>2. ASSUME NEW k \in Clicks, ClickStep(k) PROVE TypeOK'
  <2>1. CASE ClearChat(k)
    <3>1. Awaits \in SUBSET Chats
      BY DEF Awaits, Active
    <3>2. click' \in [Clicks -> Click]
      BY <2>1, <3>1 DEF ClearChat, Click
    <3>. QED
      BY <2>1, <3>2 DEF ClearChat
  <2>2. CASE ClearMemories(k)
    <3>1. click' \in [Clicks -> Click]
      BY <2>2 DEF ClearMemories, Click
    <3>. QED
      BY <2>2, <3>1 DEF ClearMemories
  <2>6. CASE Post(k)
    <3>0. click[k] \in Click
      OBVIOUS
    <3>1. [click[k] EXCEPT !.at = "post", !.awaits = {}] \in Click
      BY <3>0 DEF Click
    <3>2. click' = [click EXCEPT ![k] = [click[k] EXCEPT !.at = "post", !.awaits = {}]]
      BY <2>6 DEF Post
    <3>3. click' \in [Clicks -> Click]
      BY <3>1, <3>2
    <3>4. posted' \in [Clicks -> [user : Users \cup {None}, kind : Kinds]]
      BY <2>6 DEF Post, Click
    <3>. QED
      BY <2>6, <3>3, <3>4 DEF Post
  <2>3. CASE Execute(k)
    <3>1. posted' \in [Clicks -> [user : Users \cup {None}, kind : Kinds]]
      BY <2>3 DEF Execute, NoPost
    <3>2. history' \subseteq Chats /\ facts' \subseteq Chats /\ done' \subseteq Clicks /\ stray' \in BOOLEAN
      BY <2>3 DEF Execute
    <3>. QED
      BY <2>3, <3>1, <3>2 DEF Execute
  <2>4. CASE NoteClearedSection(k)
    <3>1. orphans' \subseteq Clicks /\ erased' \subseteq Chats
      BY <2>4 DEF NoteClearedSection, Overtaken, Erases, Of
    <3>2. inherited' \in BOOLEAN
      <4>1. CASE click[k].kind = "memory"
        BY <2>4, <4>1 DEF NoteClearedSection
      <4>2. CASE click[k].kind # "memory"
        <5>1. inherited' = (k \in orphans)
          BY <2>4, <4>2 DEF NoteClearedSection
        <5>. QED
          BY <5>1
      <4>. QED
        BY <4>1, <4>2
    <3>3. clearing' \in BOOLEAN /\ cleared' \subseteq Sections
      BY <2>4 DEF NoteClearedSection, Noted, StaysClearing
    <3>. QED
      BY <2>4, <3>1, <3>2, <3>3, Records DEF NoteClearedSection, Answered
  <2>7. CASE FullReset(k)
    <3>1. [at |-> "wait", kind |-> "all", awaits |-> Awaits] \in Click
      BY DEF Click, Awaits, Active
    <3>2. click' \in [Clicks -> Click]
      BY <2>7, <3>1 DEF FullReset
    <3>3. epoch' \in Nat
      BY <2>7 DEF FullReset
    <3>4. load' \in Load
      BY <2>7, <3>3, Records DEF FullReset
    <3>5. orphans' \subseteq Clicks /\ erased' \subseteq Chats
      BY <2>7 DEF FullReset, Erases, Of
    <3>6. inherited' \in BOOLEAN
      <4>1. inherited' = (k \in orphans')
        BY <2>7 DEF FullReset
      <4>. QED
        BY <4>1
    <3>. QED
      BY <2>7, <3>2, <3>3, <3>4, <3>5, <3>6 DEF FullReset, Answered
  <2>8. CASE ResetEnds(k)
    <3>1. erased' \subseteq Chats
      BY <2>8 DEF ResetEnds, Erases, Of
    <3>. QED
      BY <2>8, <3>1, Records DEF ResetEnds, Answered
  <2>5. CASE PostFails(k)
    <3>1. clearing' \in BOOLEAN /\ cleared' \subseteq Sections /\ resetting' \in BOOLEAN
      BY <2>5 DEF PostFails, StaysClearing
    <3>2. inherited' \in BOOLEAN
      <4>1. CASE click[k].kind = "all"
        <5>1. inherited' = (k \in orphans)
          BY <2>5, <4>1 DEF PostFails
        <5>. QED
          BY <5>1
      <4>2. CASE click[k].kind # "all"
        BY <2>5, <4>2 DEF PostFails
      <4>. QED
        BY <4>1, <4>2
    <3>3. orphans' \subseteq Clicks
      BY <2>5 DEF PostFails, Overtaken
    <3>. QED
      BY <2>5, <3>1, <3>2, <3>3, Records DEF PostFails
  <2>. QED
    BY <1>2, <2>1, <2>2, <2>3, <2>4, <2>5, <2>6, <2>7, <2>8 DEF ClickStep
<1>3. CASE PageStep
  <2>1. CASE Silences
    BY <2>1 DEF Silences
  <2>2. CASE Login
    BY <2>2, Records DEF Login
  <2>3. CASE Logout
    <3>1. inherited' \in BOOLEAN /\ crossed' \in BOOLEAN
      <4>1. inherited' = ("conversation" \in cleared) /\ crossed' = (crossed \/ Active # {})
        BY <2>3 DEF Logout
      <4>. QED
        BY <4>1
    <3>. QED
      BY <2>3, <3>1, Records DEF Logout
  <2>4. CASE LoadRead
    <3>1. PICK m \in {{}, history \cap Of(user)}, f \in {{}, facts \cap Of(user)} :
             load' = [load EXCEPT !.at = "read", !.messages = m, !.memories = f]
      BY <2>4 DEF LoadRead
    <3>2. load' \in Load
      BY <3>1 DEF Load
    <3>. QED
      BY <2>4, <3>2 DEF LoadRead
  <2>5. CASE LoadArrives
    BY <2>5, Records DEF LoadArrives, Load
  <2>. QED
    BY <1>3, <2>1, <2>2, <2>3, <2>4, <2>5 DEF PageStep
<1>4. CASE UNCHANGED vars
  BY <1>4 DEF vars
<1>. QED
  BY <1>1, <1>2, <1>3, <1>4, NextIsAStep

-----------------------------------------------------------------------------
(***************************************************************************)
(* The handlers of the clear buttons (App.jsx 795-910).  A set flag has    *)
(* its handler; a click's request is of its kind and is made once; and but *)
(* for an orphan, a clear under way holds the flag, so that it is the only *)
(* one.                                                                    *)
(***************************************************************************)
Held ==
    /\ clearing => \E k \in Clicks : Clearing(k)
    /\ resetting => \E k \in Clicks : Underway(k) /\ click[k].kind = "all"

Handlers ==
    /\ Held
    /\ ~(clearing /\ resetting)
    /\ resetting => cleared = Sections
    /\ \A k \in Clicks :
          /\ Underway(k) => click[k].kind # "none"
          /\ Underway(k) /\ click[k].kind = "all" => resetting
          /\ Clearing(k) /\ k \notin orphans => clearing
          /\ click[k].at \in {"idle", "wait"} => posted[k] = NoPost
          /\ click[k].at = "idle" => k \notin orphans
          /\ click[k].at = "post" /\ posted[k] # NoPost => posted[k].kind = click[k].kind
          /\ k \in done => click[k].at = "post" /\ posted[k] = NoPost
    /\ \A p, q \in Clicks :
          Underway(p) /\ Underway(q) /\ click[p].kind = "all" /\ click[q].kind = "all" => p = q

\* What a reply must be to be heard: of this epoch and, unless a session
\* ended with work in flight, of this user.
Heard(c) == chat[c].epoch = epoch /\ (~crossed => chat[c].user = user)

\* Playback (307-321, 535-638): of the audio no stop has met there is one,
\* of a chat that has ended, either being fetched or in audioRef.
Voice ==
    /\ \A c \in fetching \cup playing \cup stale : chat[c].at = "done"
    /\ \A c \in fetching \ stale :
          Heard(c) /\ fetching \ stale = {c} /\ playing \subseteq stale
    /\ \A c \in playing \ stale : Heard(c) /\ c = current
    /\ ~crossed => \A c \in Active : chat[c].user = user
    /\ ~authed /\ ~crossed => Active = {} /\ fetching \cup playing \subseteq stale

\* k is under way in the session it was clicked in, with the flag it set.
Ours(k) == Underway(k) /\ k \notin orphans

\* The server holds no turn of this user but what the client gave up on.
Gone == history \cap Of(user) \subseteq gaveUp

\* What a clear waits for (872-877): it lists every chat in flight, none is
\* left when its request is made, and none is sent before its section is
\* marked; so what the request finds is all there is, and stays gone.
Waits ==
    /\ \A c \in Chats : chat[c].epoch <= epoch /\ (chat[c].at = "none" => chat[c].user = None)
    /\ \A c \in Chats : /\ served[c] = "pending" => c \in Active \cup gaveUp
                        /\ c \in Active => served[c] # "none"
    /\ clearing \/ resetting => \A c \in Active : chat[c].epoch # epoch
    /\ \A k \in Clicks : Ours(k) =>
          /\ authed
          /\ click[k].at = "post" /\ posted[k] # NoPost => posted[k].user = user
          /\ click[k].kind = "conversation" =>
                /\ click[k].at = "wait" => Active \subseteq click[k].awaits
                /\ click[k].at = "post" => Active = {}
                /\ k \in done => Gone
          /\ click[k].kind = "all" => Active = {} /\ Gone
    /\ "conversation" \in cleared /\ ~inherited => authed /\ Active = {} /\ Gone

\* The initial load is under way and will be shown (396).
LoadIsCurrent == load.at # "none" /\ load.epoch = epoch

(***************************************************************************)
(* The screen and the load that may yet replace it (384-430, 742-774).     *)
(* LoadFits: a load is of no epoch to come, and empty until it is read.    *)
(* Blank: beside a clear the screen is empty, and stays so; beside a reset *)
(* there is nothing but what the client gave up on.                        *)
(* Erasure: what a clear erased has been answered, and is not loaded.      *)
(* Backed: what is shown is stored or in flight, and no clear takes it.    *)
(***************************************************************************)
LoadFits == load.epoch <= epoch /\ (load.at = "sent" => load.messages = {})

Blank ==
    \A k \in Clicks : Ours(k) =>
        /\ click[k].kind = "conversation" => messages = {} /\ ~LoadIsCurrent
        /\ click[k].kind = "all" =>
              messages \subseteq gaveUp /\ (LoadIsCurrent => load.messages \subseteq gaveUp)

Erasure ==
    /\ \A c \in erased : chat[c].at = "done"
    /\ erased \cap (messages \cup history) \subseteq gaveUp
    /\ LoadIsCurrent => erased \cap load.messages \subseteq gaveUp

Backed ==
    ~stray =>
      /\ messages \subseteq history \cup gaveUp \cup Active
      /\ LoadIsCurrent => load.messages \subseteq history \cup gaveUp
      /\ \A c \in Active : served[c] = "stored" => c \in history

Screen == LoadFits /\ Blank /\ Erasure /\ Backed

\* What a click's step does to the other clicks: nothing.
LEMMA OthersKeep ==
    ASSUME TypeOK, NEW k \in Clicks, ClickStep(k), NEW q \in Clicks, q # k
    PROVE  click'[q] = click[q] /\ posted'[q] = posted[q] /\ (q \in done' <=> q \in done)
<1>. USE DEF TypeOK, server
<1>1. CASE ClearChat(k) \/ ClearMemories(k) \/ Post(k) \/ Execute(k)
  BY <1>1 DEF ClearChat, ClearMemories, Post, Execute
<1>2. CASE NoteClearedSection(k) \/ FullReset(k) \/ ResetEnds(k) \/ PostFails(k)
  BY <1>2 DEF NoteClearedSection, FullReset, ResetEnds, PostFails, Answered
<1>. QED
  BY <1>1, <1>2 DEF ClickStep

\* Handlers is kept by the steps of a click.
LEMMA ClicksKeepHandlers ==
    ASSUME TypeOK, Handlers, NEW k \in Clicks, ClickStep(k)
    PROVE  Handlers'
<1>. USE DEF TypeOK, server, flags, past, Sections, Kinds
<1>0. /\ \A q \in Clicks \ {k} : /\ click'[q] = click[q] /\ posted'[q] = posted[q]
                                 /\ (q \in done' <=> q \in done)
                                 /\ (Clearing(q)' <=> Clearing(q)) /\ (Underway(q)' <=> Underway(q))
      /\ click[k] \in Click /\ posted[k] \in [user : Users \cup {None}, kind : Kinds]
  BY OthersKeep DEF Clearing, Underway
<1>1. CASE ClearChat(k)
  <2>1. click'[k] = [at |-> "wait", kind |-> "conversation", awaits |-> Awaits]
    BY <1>1 DEF ClearChat
  <2>. QED
    BY <1>0, <1>1, <2>1 DEF ClearChat, MayClear, Handlers, Held, Underway, Clearing
<1>2. CASE ClearMemories(k)
  <2>1. click'[k] = [at |-> "wait", kind |-> "memory", awaits |-> {}]
    BY <1>2 DEF ClearMemories
  <2>. QED
    BY <1>0, <1>2, <2>1 DEF ClearMemories, MayClear, Handlers, Held, Underway, Clearing
<1>3. CASE Post(k)
  <2>1. click'[k] = [click[k] EXCEPT !.at = "post", !.awaits = {}]
    BY <1>3 DEF Post
  <2>2. click'[k].at = "post" /\ click'[k].kind = click[k].kind
    BY <1>0, <2>1 DEF Click
  <2>3. posted'[k] = NoPost \/ posted'[k] = [user |-> user, kind |-> click[k].kind]
    BY <1>3 DEF Post, Handlers
  <2>. QED
    BY <1>0, <1>3, <2>2, <2>3 DEF Post, Handlers, Held, Underway, Clearing
<1>4. CASE Execute(k)
  <2>1. posted'[k] = NoPost
    BY <1>4 DEF Execute
  <2>. QED
    BY <1>0, <1>4, <2>1 DEF Execute, Handlers, Held, Underway, Clearing
<1>5. CASE NoteClearedSection(k)
  <2>1. /\ click'[k] = Over /\ clearing' = StaysClearing(k) /\ orphans' = orphans \cup Overtaken(k)
        /\ resetting' = resetting /\ cleared' = Noted(k) /\ Answered(k) /\ click[k].kind \in Sections
        /\ posted' = posted
    BY <1>5 DEF NoteClearedSection
  <2>2. \A q \in Clicks \ {k} : /\ q \in orphans' => q \in orphans \/ Clearing(q)
                                /\ Clearing(q) /\ q \notin orphans' => click[k].kind # "conversation"
                                /\ q \notin orphans' => q \notin orphans
    BY <2>1 DEF Overtaken
  <2>3. resetting' => cleared' = Sections
    BY <2>1 DEF Handlers, Noted
  <2>4. Held'
    BY <1>0, <2>1, Records DEF Handlers, Held, StaysClearing, Answered, Underway, Clearing
  <2>. QED
    BY <1>0, <2>1, <2>2, <2>3, <2>4, Records DEF Answered, StaysClearing, Handlers, Underway, Clearing
<1>6. CASE FullReset(k)
  <2>1. /\ click'[k] = [at |-> "wait", kind |-> "all", awaits |-> Awaits]
        /\ ~clearing' /\ resetting' /\ cleared' = Sections /\ ~resetting /\ posted' = posted /\ Answered(k)
    BY <1>6 DEF FullReset
  <2>2. \A q \in Clicks \ {k} : /\ q \in orphans' => q \in orphans \/ Clearing(q)
                                /\ Clearing(q) => q \in orphans'
    BY <1>6 DEF FullReset
  <2>. QED
    BY <1>0, <2>1, <2>2 DEF Answered, Handlers, Held, Underway, Clearing
<1>7. CASE ResetEnds(k)
  BY <1>0, <1>7, Records DEF ResetEnds, Answered, Handlers, Held, Underway, Clearing
<1>8. CASE PostFails(k)
  <2>1. /\ click'[k] = Over /\ clearing' = StaysClearing(k) /\ orphans' = orphans \cup Overtaken(k)
        /\ posted' = posted /\ click[k].at = "post" /\ done' = done \ {k}
        /\ IF click[k].kind = "all" THEN cleared' = Sections /\ ~resetting'
           ELSE UNCHANGED <<cleared, resetting>>
    BY <1>8 DEF PostFails
  <2>2. \A q \in Clicks \ {k} : /\ q \in orphans' => q \in orphans \/ Clearing(q)
                                /\ Clearing(q) /\ q \notin orphans' => click[k].kind # "conversation"
                                /\ q \notin orphans' => q \notin orphans
    BY <2>1 DEF Overtaken
  <2>4. Held'
    BY <1>0, <2>1, Records DEF Handlers, Held, StaysClearing, Underway, Clearing
  <2>. QED
    BY <1>0, <2>1, <2>2, <2>4, Records DEF StaysClearing, Handlers, Underway, Clearing
<1>. QED
  BY <1>1, <1>2, <1>3, <1>4, <1>5, <1>6, <1>7, <1>8 DEF ClickStep

\* Handlers is inductive: the other steps leave flags and clicks alone, and
\* a logout leaves no clear but orphans.
LEMMA NextKeepsHandlers == TypeOK /\ Handlers /\ [Next]_vars => Handlers'
<1>. SUFFICES ASSUME TypeOK, Handlers, [Next]_vars PROVE Handlers'
  OBVIOUS
<1>1. ASSUME NEW c \in Chats, ChatStep(c) PROVE Handlers'
  <2>1. UNCHANGED <<click, posted, done, clearing, resetting, orphans>>
    BY <1>1 DEF ChatStep, Send, Serve, Reply, ReplyFails, Fetched, Ends, server, flags, past
  <2>2. cleared' = cleared \/ ~resetting
    BY <1>1 DEF ChatStep, Send, MaySend, Serve, Reply, ReplyFails, Fetched, Ends, flags
  <2>. QED
    BY <2>1, <2>2 DEF Handlers, Held, Underway, Clearing
<1>2. ASSUME NEW k \in Clicks, ClickStep(k) PROVE Handlers'
  BY <1>2, ClicksKeepHandlers
<1>3. CASE PageStep \/ UNCHANGED vars
  <2>1. UNCHANGED <<click, posted, done, cleared, clearing, resetting>>
    BY <1>3 DEF PageStep, Silences, Login, Logout, LoadRead, LoadArrives, server, flags, vars
  <2>2. orphans' = orphans \/ orphans' = orphans \cup {k \in Clicks : Underway(k)}
    BY <1>3 DEF PageStep, Silences, Login, Logout, LoadRead, LoadArrives, past, vars
  <2>. QED
    BY <2>1, <2>2 DEF Handlers, Held, Underway, Clearing
<1>. QED
  BY <1>1, <1>2, <1>3, NextIsAStep

-----------------------------------------------------------------------------
\* A stop silences everything that is not exempt.
LEMMA StopsSilence ==
    ASSUME TypeOK, Voice, NEW next \in SUBSET Chats, Stops(next)
    PROVE  /\ playing' \subseteq stale' /\ playing' \subseteq playing
           /\ fetching' = fetching \cup next /\ stale' = stale \cup fetching
           /\ fetching' \ stale' = next \ stale'
  BY DEF Stops, Voice

\* Nothing of the old is heard: what is left of Voice is about the chats.
LEMMA SilenceKeepsVoice ==
    ASSUME TypeOK, TypeOK', Voice, playing' \subseteq stale', fetching' \subseteq stale',
           stale' \subseteq fetching \cup playing \cup stale,
           \A c \in Chats : chat[c].at = "done" => chat'[c].at = "done",
           ~crossed' => \A c \in Active' : chat'[c].user = user',
           ~authed' /\ ~crossed' => Active' = {}
    PROVE  Voice'
  BY DEF Voice, TypeOK

\* Voice is inductive: whatever moves the epoch or ends the session stops
\* the playback in the same step.
LEMMA NextKeepsVoice == TypeOK /\ Voice /\ [Next]_vars => Voice'
<1>. SUFFICES ASSUME TypeOK, Voice, [Next]_vars PROVE Voice'
  OBVIOUS
<1>. USE DEF server, shown, audio, flags, who, past
<1>0. TypeOK'
  BY NextTyped
<1>1. ASSUME NEW c \in Chats, ChatStep(c) PROVE Voice'
  <2>1. CASE Send(c)
    <3>1. Stops({}) /\ chat' = [chat EXCEPT ![c] = [at |-> "sent", user |-> user, epoch |-> epoch]]
          /\ authed /\ chat[c].at = "none" /\ UNCHANGED <<user, epoch, authed, crossed>>
      BY <2>1 DEF Send, MaySend
    <3>2. /\ playing' \subseteq stale' /\ fetching' \subseteq stale'
          /\ stale' \subseteq fetching \cup playing \cup stale
      BY <3>1, StopsSilence DEF TypeOK
    <3>3. \A d \in Chats \ {c} : chat'[d] = chat[d]
      BY <3>1 DEF TypeOK
    <3>4. chat'[c].user = user' /\ chat'[c].at = "sent"
      BY <3>1 DEF TypeOK
    <3>5. ~crossed' => \A d \in Active' : chat'[d].user = user'
      BY <3>1, <3>3, <3>4 DEF Active, Voice
    <3>. QED
      BY <1>0, <3>1, <3>2, <3>3, <3>5, SilenceKeepsVoice
  <2>2. CASE Serve(c)
    BY <2>2 DEF Serve, Voice, Heard, Active
  <2>3. CASE Reply(c)
    <3>1. chat' = [chat EXCEPT ![c].at = "done"] /\ chat[c].at = "sent"
          /\ UNCHANGED <<user, epoch, authed, crossed>>
      BY <2>3 DEF Reply
    <3>2. /\ \A d \in Chats \ {c} : chat'[d] = chat[d]
          /\ chat'[c].at = "done" /\ chat'[c].user = chat[c].user /\ chat'[c].epoch = chat[c].epoch
          /\ Active' = Active \ {c} /\ c \in Active
      BY <3>1 DEF TypeOK, Active
    <3>3. CASE IsOurs(c)
      <4>1. Stops({c})
        BY <2>3, <3>3 DEF Reply, Fetches
      <4>2. c \notin stale'
        BY <3>1, <4>1, StopsSilence DEF Voice
      <4>3. fetching' \ stale' = {c} /\ playing' \subseteq stale'
            /\ fetching' \cup playing' \cup stale' \subseteq fetching \cup playing \cup stale \cup {c}
        BY <4>1, <4>2, StopsSilence
      <4>4. Heard(c)'
        BY <3>1, <3>2, <3>3 DEF Heard, IsOurs, Voice
      <4>5. ~(~authed' /\ ~crossed')
        BY <3>1, <3>2 DEF Voice
      <4>. QED
        BY <3>1, <3>2, <4>3, <4>4, <4>5 DEF Voice, TypeOK
    <3>4. CASE ~IsOurs(c)
      <4>1. UNCHANGED <<fetching, playing, current, stale>>
        BY <2>3, <3>4 DEF Reply
      <4>. QED
        BY <3>1, <3>2, <4>1 DEF Voice, Heard, TypeOK
    <3>. QED
      BY <3>3, <3>4
  <2>4. CASE ReplyFails(c)
    <3>1. chat' = [chat EXCEPT ![c].at = "done"] /\ chat[c].at = "sent"
          /\ UNCHANGED <<user, epoch, authed, crossed, fetching, playing, current, stale>>
      BY <2>4 DEF ReplyFails
    <3>2. /\ \A d \in Chats \ {c} : chat'[d] = chat[d]
          /\ chat'[c].at = "done" /\ chat'[c].user = chat[c].user /\ chat'[c].epoch = chat[c].epoch
          /\ Active' = Active \ {c} /\ c \in Active
      BY <3>1 DEF TypeOK, Active
    <3>. QED
      BY <3>1, <3>2 DEF Voice, Heard, TypeOK
  <2>5. CASE Fetched(c)
    <3>1. c \in fetching /\ fetching' = fetching \ {c}
          /\ UNCHANGED <<chat, user, epoch, authed, crossed>>
      BY <2>5 DEF Fetched
    <3>2. CASE UNCHANGED <<playing, current, stale>>
      BY <3>1, <3>2 DEF Voice, Heard, Active
    <3>3. CASE c \in stale /\ playing' = playing \cup {c} /\ stale' = stale \cup playing
      BY <3>1, <3>3 DEF Voice, Heard, Active
    <3>4. CASE c \notin stale /\ playing' = playing \cup {c} /\ current' = c /\ stale' = stale
      BY <3>1, <3>4 DEF Voice, Heard, Active
    <3>. QED
      BY <2>5, <3>2, <3>3, <3>4 DEF Fetched
  <2>6. CASE Ends(c)
    BY <2>6 DEF Ends, Voice, Heard, Active
  <2>. QED
    BY <1>1, <2>1, <2>2, <2>3, <2>4, <2>5, <2>6 DEF ChatStep
<1>2. ASSUME NEW k \in Clicks, ClickStep(k) PROVE Voice'
  <2>1. CASE ClearChat(k) \/ FullReset(k)
    <3>1. Stops({}) /\ UNCHANGED <<chat, user, authed, crossed>>
      BY <2>1 DEF ClearChat, FullReset
    <3>2. /\ playing' \subseteq stale' /\ fetching' \subseteq stale'
          /\ stale' \subseteq fetching \cup playing \cup stale
      BY <3>1, StopsSilence DEF TypeOK
    <3>. QED
      BY <1>0, <3>1, <3>2, SilenceKeepsVoice DEF Voice, Active
  <2>2. CASE ~(ClearChat(k) \/ FullReset(k))
    <3>1. UNCHANGED <<audio, chat, user, authed, epoch, crossed>>
      BY <1>2, <2>2 DEF ClickStep, ClearMemories, Post, Execute, NoteClearedSection, ResetEnds, PostFails
    <3>. QED
      BY <3>1 DEF Voice, Heard, Active
  <2>. QED
    BY <2>1, <2>2
<1>3. CASE Silences
  <2>1. Stops({}) /\ UNCHANGED <<chat, user, authed, crossed>>
    BY <1>3 DEF Silences
  <2>2. /\ playing' \subseteq stale' /\ fetching' \subseteq stale'
        /\ stale' \subseteq fetching \cup playing \cup stale
    BY <2>1, StopsSilence DEF TypeOK
  <2>. QED
    BY <1>0, <2>1, <2>2, SilenceKeepsVoice DEF Voice, Active
<1>4. CASE Login
  <2>1. ~authed /\ authed' /\ UNCHANGED <<chat, fetching, playing, current, stale, epoch, crossed>>
    BY <1>4 DEF Login
  <2>. QED
    BY <2>1 DEF Voice, Heard, Active
<1>5. CASE Logout
  <2>1. Stops({}) /\ UNCHANGED <<chat, user>> /\ (~crossed' => ~crossed /\ Active = {})
    BY <1>5 DEF Logout, TypeOK
  <2>2. /\ playing' \subseteq stale' /\ fetching' \subseteq stale'
        /\ stale' \subseteq fetching \cup playing \cup stale
    BY <2>1, StopsSilence DEF TypeOK
  <2>. QED
    BY <1>0, <2>1, <2>2, SilenceKeepsVoice DEF Voice, Active
<1>6. CASE LoadRead \/ LoadArrives \/ UNCHANGED vars
  <2>1. UNCHANGED <<audio, chat, user, authed, epoch, crossed>>
    BY <1>6 DEF LoadRead, LoadArrives, vars
  <2>. QED
    BY <2>1 DEF Voice, Heard, Active
<1>. QED
  BY <1>1, <1>2, <1>3, <1>4, <1>5, <1>6, NextIsAStep DEF PageStep

-----------------------------------------------------------------------------
\* A chat that ends keeps its user and its epoch.
LEMMA Ending ==
    ASSUME TypeOK, NEW c \in Chats, chat' = [chat EXCEPT ![c].at = "done"]
    PROVE  /\ \A d \in Chats : /\ chat'[d].user = chat[d].user /\ chat'[d].epoch = chat[d].epoch
                               /\ chat'[d].at = "none" => chat[d].at = "none"
                               /\ chat[d].at = "done" => chat'[d].at = "done"
           /\ Active' = Active \ {c}
           /\ user' = user => Of(user)' = Of(user)
  BY DEF TypeOK, Active, Of

\* A chat that is sent is of this user and epoch.
LEMMA Sending ==
    ASSUME TypeOK, NEW c \in Chats, Send(c)
    PROVE  /\ \A d \in Chats \ {c} : chat'[d] = chat[d]
           /\ chat'[c].at = "sent" /\ chat'[c].user = user /\ chat'[c].epoch = epoch
           /\ Active' = Active \cup {c}
  BY DEF TypeOK, Active, Send

\* With nothing in flight every chat of the user has ended.
LEMMA AllHaveEnded ==
    ASSUME TypeOK, Waits, Active = {}, NEW c \in Of(user)
    PROVE  chat[c].at = "done"
  BY NobodyAssumption DEF TypeOK, Waits, Active, Of

\* A clear that is neither over nor orphaned is alone, and keeps chats out.
LEMMA OursKeepsOut ==
    ASSUME Handlers, NEW k \in Clicks, Ours(k)
    PROVE  /\ click[k].kind = "conversation" => clearing
           /\ click[k].kind = "all" => resetting
  BY DEF Handlers, Ours, Clearing

\* Waits is kept by a chat: none is sent beside a clear, and those in flight
\* are stored while the clear still waits for them.
LEMMA ChatsKeepWaits ==
    ASSUME TypeOK, Handlers, Waits, NEW c \in Chats, ChatStep(c)
    PROVE  Waits'
<1>. USE DEF server, flags, past, who
<1>1. CASE Send(c)
  <2>1. /\ ~clearing /\ ~resetting /\ cleared' = {}
        /\ served' = [served EXCEPT ![c] = "pending"]
        /\ UNCHANGED <<user, authed, epoch, clearing, resetting, click, posted, orphans, gaveUp>>
    BY <1>1 DEF Send, MaySend
  <2>2. \A k \in Clicks : Ours(k)' =>
           /\ Ours(k) /\ click[k].kind # "conversation" /\ click[k].kind # "all"
    BY <2>1, OursKeepsOut DEF Ours, Underway
  <2>3. \A d \in Chats : /\ served'[d] = "pending" => d \in Active' \cup gaveUp'
                         /\ d \in Active' => served'[d] # "none"
    BY <1>1, <2>1, Sending DEF TypeOK, Waits
  <2>4. \A d \in Chats : chat'[d].epoch <= epoch' /\ (chat'[d].at = "none" => chat'[d].user = None)
    BY <1>1, <2>1, Sending DEF TypeOK, Waits
  <2>. QED
    BY <2>1, <2>2, <2>3, <2>4 DEF Waits
<1>2. CASE Serve(c)
  <2>1. /\ served[c] = "pending" /\ served' = [served EXCEPT ![c] = "stored"]
        /\ history' = history \cup {c}
        /\ UNCHANGED <<user, authed, epoch, chat, clearing, resetting, cleared, click, posted, done, orphans, inherited, gaveUp>>
    BY <1>2 DEF Serve
  <2>2. Active' = Active /\ Of(user)' = Of(user)
    BY <2>1 DEF Active, Of
  <2>3. Active = {} /\ Gone => Gone'
    BY <2>1, <2>2 DEF Gone, Waits
  <2>4. \A d \in Chats : /\ served'[d] = "pending" => d \in Active' \cup gaveUp'
                         /\ d \in Active' => served'[d] # "none"
    BY <2>1, <2>2 DEF TypeOK, Waits
  <2>5. \A k \in Clicks : Ours(k)' <=> Ours(k)
    BY <2>1 DEF Ours, Underway
  <2>6. \A k \in Clicks : Ours(k) /\ click[k].kind = "conversation" /\ k \in done => Gone'
    BY <2>3 DEF Handlers, Waits
  <2>7. \A k \in Clicks : Ours(k) /\ click[k].kind = "all" => Active = {} /\ Gone'
    BY <2>3 DEF Waits
  <2>8. "conversation" \in cleared /\ ~inherited => authed /\ Active = {} /\ Gone'
    BY <2>3 DEF Waits
  <2>9. \A k \in Clicks : Ours(k) =>
           /\ authed
           /\ click[k].at = "post" /\ posted[k] # NoPost => posted[k].user = user
           /\ click[k].kind = "conversation" =>
                 /\ click[k].at = "wait" => Active \subseteq click[k].awaits
                 /\ click[k].at = "post" => Active = {}
    BY DEF Waits
  <2>10. /\ \A d \in Chats : chat'[d].epoch <= epoch' /\ (chat'[d].at = "none" => chat'[d].user = None)
         /\ clearing' \/ resetting' => \A d \in Active' : chat'[d].epoch # epoch'
    BY <2>1, <2>2 DEF Waits
  <2>. QED
    BY <2>1, <2>2, <2>4, <2>5, <2>6, <2>7, <2>8, <2>9, <2>10 DEF Waits
<1>3. CASE Reply(c) \/ ReplyFails(c)
  <2>1. /\ chat' = [chat EXCEPT ![c].at = "done"] /\ chat[c].at = "sent"
        /\ gaveUp \subseteq gaveUp' /\ (served[c] # "pending" \/ c \in gaveUp')
        /\ UNCHANGED <<user, authed, epoch, clearing, resetting, cleared, click, posted, done, orphans, inherited, served, history>>
    BY <1>3 DEF Reply, ReplyFails
  <2>2. /\ \A d \in Chats : /\ chat'[d].user = chat[d].user /\ chat'[d].epoch = chat[d].epoch
                            /\ chat'[d].at = "none" => chat[d].at = "none"
        /\ Active' = Active \ {c} /\ Of(user)' = Of(user)
    BY <2>1, Ending
  <2>3. Gone => Gone'
    BY <2>1, <2>2 DEF Gone
  <2>4. \A d \in Chats : /\ served'[d] = "pending" => d \in Active' \cup gaveUp'
                         /\ d \in Active' => served'[d] # "none"
    BY <2>1, <2>2 DEF Waits
  <2>5. \A k \in Clicks : Ours(k)' <=> Ours(k)
    BY <2>1 DEF Ours, Underway
  <2>6. clearing' \/ resetting' => \A d \in Active' : chat'[d].epoch # epoch'
    BY <2>1, <2>2 DEF Waits, Active
  <2>. QED
    BY <2>1, <2>2, <2>3, <2>4, <2>5, <2>6 DEF Waits
<1>4. CASE Fetched(c) \/ Ends(c)
  <2>1. UNCHANGED <<user, authed, epoch, chat, clearing, resetting, cleared, click, posted, done, orphans, inherited, served, history, gaveUp>>
    BY <1>4 DEF Fetched, Ends
  <2>. QED
    BY <2>1 DEF Waits, Active, Of, Gone, Ours, Underway
<1>. QED
  BY <1>1, <1>2, <1>3, <1>4 DEF ChatStep

\* A clear that was answered in its session found all there is.
LEMMA AnsweredIsGone ==
    ASSUME TypeOK, Handlers, Waits, NEW k \in Clicks, Answered(k), k \notin orphans,
           click[k].kind \in {"conversation", "all"}
    PROVE  authed /\ Active = {} /\ Gone
  BY DEF Waits, Answered, Ours, Underway

\* ... by a click: the list is taken and the request made at the right time,
\* and by the user whose clear it is.
LEMMA ClicksKeepWaits ==
    ASSUME TypeOK, Handlers, Waits, NEW k \in Clicks, ClickStep(k)
    PROVE  Waits'
<1>. USE DEF server, flags, past, who, Sections
<1>0. /\ \A q \in Clicks \ {k} : /\ click'[q] = click[q] /\ posted'[q] = posted[q]
                                 /\ (q \in done' <=> q \in done) /\ (Ours(q)' => Ours(q))
      /\ UNCHANGED <<chat, user, authed, served, gaveUp>>
      /\ Active' = Active /\ Of(user)' = Of(user)
      /\ history' \subseteq history /\ (Gone => Gone')
      /\ click[k] \in Click
  <2>1. /\ UNCHANGED <<chat, user, authed, served, gaveUp>> /\ history' \subseteq history /\ orphans \subseteq orphans'
    BY DEF ClickStep, ClearChat, ClearMemories, Post, Execute, NoteClearedSection, FullReset, ResetEnds, PostFails
  <2>. QED
    BY <2>1, OthersKeep DEF Active, Of, Gone, Ours, Underway, TypeOK
<1>1. CASE ClearChat(k)
  <2>1. /\ click'[k] = [at |-> "wait", kind |-> "conversation", awaits |-> Active]
        /\ click[k].at = "idle" /\ ~clearing /\ epoch' = epoch + 1 /\ authed
        /\ UNCHANGED <<cleared, done, inherited>>
    BY <1>1 DEF ClearChat, MayClear, Awaits, TypeOK
  <2>2. \A c \in Chats : chat[c].epoch \in Nat /\ chat[c].epoch <= epoch
    BY DEF TypeOK, Waits
  <2>3. \A c \in Chats : chat'[c].epoch <= epoch' /\ chat'[c].epoch # epoch'
    BY <1>0, <2>1, <2>2 DEF TypeOK
  <2>4. k \notin done
    BY <2>1 DEF Handlers
  <2>. QED
    BY <1>0, <2>1, <2>3, <2>4 DEF Waits, Active
<1>2. CASE ClearMemories(k)
  <2>1. /\ click'[k] = [at |-> "wait", kind |-> "memory", awaits |-> {}] /\ authed
        /\ UNCHANGED <<epoch, cleared, clearing, resetting, inherited>>
    BY <1>2 DEF ClearMemories, MayClear, TypeOK
  <2>. QED
    BY <1>0, <2>1 DEF Waits
<1>3. CASE Post(k)
  <2>1. /\ click'[k] = [click[k] EXCEPT !.at = "post", !.awaits = {}]
        /\ click[k].at = "wait" /\ click[k].awaits \cap Active = {}
        /\ UNCHANGED <<epoch, cleared, clearing, resetting, orphans, inherited, done>>
    BY <1>3 DEF Post, TypeOK
  <2>2. click'[k].at = "post" /\ click'[k].kind = click[k].kind
    BY <1>0, <2>1 DEF Click
  <2>3. posted'[k] = NoPost \/ posted'[k].user = user
    BY <1>3, <2>1 DEF Post, Handlers, TypeOK
  <2>4. k \notin done
    BY <2>1 DEF Handlers
  <2>5. Ours(k)' <=> Ours(k)
    BY <2>1, <2>2 DEF Ours, Underway
  <2>6. Ours(k) => authed /\ (click[k].kind = "conversation" => Active = {})
    BY <2>1 DEF Waits
  <2>7. ASSUME NEW q \in Clicks, Ours(q)'
        PROVE  /\ authed'
               /\ click'[q].at = "post" /\ posted'[q] # NoPost => posted'[q].user = user'
               /\ click'[q].kind = "conversation" =>
                     /\ click'[q].at = "wait" => Active' \subseteq click'[q].awaits
                     /\ click'[q].at = "post" => Active' = {}
                     /\ q \in done' => Gone'
               /\ click'[q].kind = "all" => Active' = {} /\ Gone'
    <3>1. CASE q = k
      <4>1. click[k].kind = "all" => Active = {} /\ Gone
        BY <2>5, <2>7, <3>1 DEF Waits
      <4>. QED
        BY <1>0, <2>1, <2>2, <2>3, <2>4, <2>5, <2>6, <2>7, <3>1, <4>1
    <3>2. CASE q # k
      BY <1>0, <2>1, <2>7, <3>2 DEF Waits
    <3>. QED
      BY <3>1, <3>2
  <2>8. /\ \A c \in Chats : chat'[c].epoch <= epoch' /\ (chat'[c].at = "none" => chat'[c].user = None)
        /\ \A c \in Chats : /\ served'[c] = "pending" => c \in Active' \cup gaveUp'
                            /\ c \in Active' => served'[c] # "none"
        /\ clearing' \/ resetting' => \A c \in Active' : chat'[c].epoch # epoch'
        /\ "conversation" \in cleared' /\ ~inherited' => authed' /\ Active' = {} /\ Gone'
    BY <1>0, <2>1 DEF Waits
  <2>. QED
    BY <2>7, <2>8 DEF Waits
<1>4. CASE Execute(k)
  <2>1. /\ posted[k] # NoPost /\ posted'[k] = NoPost
        /\ UNCHANGED <<epoch, click, cleared, clearing, resetting, orphans, inherited>>
    BY <1>4 DEF Execute, TypeOK
  <2>2. Ours(k)' <=> Ours(k)
    BY <2>1 DEF Ours, Underway
  <2>3. ASSUME Ours(k), click[k].kind = "conversation", k \in done' PROVE Gone'
    <3>1. click[k].at = "post"
      BY <1>4, <2>1, <2>3 DEF Execute, Handlers
    <3>2. posted[k].kind # "memory" /\ posted[k].user = user
      BY <2>1, <2>3, <3>1 DEF Handlers, Waits
    <3>3. history' = history \ Of(user)
      BY <1>4, <3>2 DEF Execute
    <3>. QED
      BY <1>0, <3>3 DEF Gone
  <2>. QED
    BY <1>0, <2>1, <2>2, <2>3 DEF Waits
<1>5. CASE NoteClearedSection(k)
  <2>1. /\ click'[k] = Over /\ Answered(k) /\ click[k].kind \in Sections
        /\ cleared' = cleared \cup {click[k].kind} /\ (clearing' => clearing)
        /\ inherited' = IF click[k].kind = "memory" THEN inherited ELSE k \in orphans
        /\ UNCHANGED <<resetting, epoch>>
    BY <1>5 DEF NoteClearedSection, Noted, StaysClearing, TypeOK
  <2>2. ~Ours(k)'
    BY <2>1, Records DEF Ours, Underway
  <2>3. "conversation" \in cleared' /\ ~inherited' => authed /\ Active = {} /\ Gone
    BY <2>1, AnsweredIsGone DEF Waits
  <2>. QED
    BY <1>0, <2>1, <2>2, <2>3 DEF Waits
<1>6. CASE FullReset(k)
  <2>1. /\ click'[k] = [at |-> "wait", kind |-> "all", awaits |-> Awaits]
        /\ Answered(k) /\ click[k].kind \in Sections /\ cleared \cup {click[k].kind} = Sections
        /\ epoch' = epoch + 1 /\ inherited' = (k \in orphans')
        /\ k \notin orphans' => k \notin orphans /\ ~(click[k].kind = "memory" /\ inherited)
        /\ ~clearing' /\ posted' = posted
    BY <1>6 DEF FullReset, Noted, TypeOK
  <2>2. k \notin orphans' => authed /\ Active = {} /\ Gone
    BY <2>1, AnsweredIsGone DEF Waits
  <2>3. \A c \in Chats : chat[c].epoch \in Nat /\ chat[c].epoch <= epoch
    BY DEF TypeOK, Waits
  <2>4. \A c \in Chats : chat'[c].epoch <= epoch' /\ chat'[c].epoch # epoch'
    BY <1>0, <2>1, <2>3 DEF TypeOK
  <2>5. Ours(k)' => authed' /\ posted'[k] = NoPost /\ click'[k].kind = "all" /\ Active' = {} /\ Gone'
    BY <1>0, <2>1, <2>2 DEF Ours, Handlers, Answered, TypeOK
  <2>6. \A c \in Active' : chat'[c].epoch # epoch'
    BY <2>4 DEF Active
  <2>7. ~inherited' => authed' /\ Active' = {} /\ Gone'
    BY <1>0, <2>1, <2>2
  <2>8. \A q \in Clicks \ {k} : Ours(q)' => Ours(q)
    BY <1>0
  <2>. QED
    BY <1>0, <2>4, <2>5, <2>6, <2>7, <2>8 DEF Waits
<1>7. CASE ResetEnds(k) \/ PostFails(k)
  <2>1. ~Ours(k)'
    <3>1. click'[k] = Over
      BY <1>7 DEF ResetEnds, PostFails, TypeOK
    <3>. QED
      BY <3>1, Records DEF Ours, Underway
  <2>2. /\ (clearing' => clearing) /\ (resetting' => resetting) /\ epoch' = epoch
        /\ "conversation" \in cleared' /\ ~inherited' => authed /\ Active = {} /\ Gone
    <3>1. CASE ResetEnds(k)
      BY <3>1 DEF ResetEnds, TypeOK
    <3>2. CASE PostFails(k)
      <4>1. CASE click[k].kind = "all"
        <5>1. k \notin orphans => Ours(k)
          BY <3>2 DEF PostFails, Ours, Underway
        <5>2. inherited' = (k \in orphans) /\ clearing' = StaysClearing(k) /\ ~resetting' /\ epoch' = epoch
          BY <3>2, <4>1 DEF PostFails
        <5>. QED
          BY <4>1, <5>1, <5>2 DEF Waits, StaysClearing
      <4>2. CASE click[k].kind # "all"
        BY <3>2, <4>2 DEF PostFails, StaysClearing, Waits
      <4>. QED
        BY <4>1, <4>2
    <3>. QED
      BY <1>7, <3>1, <3>2
  <2>. QED
    BY <1>0, <2>1, <2>2 DEF Waits
<1>. QED
  BY <1>1, <1>2, <1>3, <1>4, <1>5, <1>6, <1>7 DEF ClickStep

\* Waits is inductive, given Handlers: whoever logs in finds no clear but
\* orphans, and no section but inherited ones.
LEMMA NextKeepsWaits == TypeOK /\ Handlers /\ Waits /\ [Next]_vars => Waits'
<1>. SUFFICES ASSUME TypeOK, Handlers, Waits, [Next]_vars PROVE Waits'
  OBVIOUS
<1>. USE DEF server, flags, past, who
<1>1. ASSUME NEW c \in Chats, ChatStep(c) PROVE Waits'
  BY <1>1, ChatsKeepWaits
<1>2. ASSUME NEW k \in Clicks, ClickStep(k) PROVE Waits'
  BY <1>2, ClicksKeepWaits
<1>3. CASE Login \/ Logout
  <2>1. UNCHANGED <<epoch, chat, clearing, resetting, cleared, click, served, gaveUp>>
    BY <1>3 DEF Login, Logout
  <2>2. \A k \in Clicks : ~Ours(k)'
    BY <1>3, <2>1 DEF Login, Logout, Waits, Ours, Underway
  <2>3. ~("conversation" \in cleared' /\ ~inherited')
    BY <1>3, <2>1 DEF Login, Logout, Waits
  <2>. QED
    BY <2>1, <2>2, <2>3 DEF Waits, Active
<1>4. CASE Silences \/ LoadRead \/ LoadArrives \/ UNCHANGED vars
  <2>1. UNCHANGED <<user, authed, epoch, chat, clearing, resetting, cleared, click, posted, done, orphans, inherited, served, history, gaveUp>>
    BY <1>4 DEF Silences, LoadRead, LoadArrives, vars
  <2>. QED
    BY <2>1 DEF Waits, Active, Of, Gone, Ours, Underway
<1>. QED
  BY <1>1, <1>2, <1>3, <1>4, NextIsAStep DEF PageStep

-----------------------------------------------------------------------------
\* A step that moves the epoch on outdates the load.
LEMMA Outdated ==
    ASSUME TypeOK, Screen, epoch' = epoch + 1, load' = load
    PROVE  ~LoadIsCurrent' /\ load'.epoch <= epoch'
  BY DEF TypeOK, Load, Screen, LoadFits, LoadIsCurrent

\* Screen is kept by a chat: a reply of an older epoch is not shown, and one
\* of this epoch is not in flight beside a clear.
LEMMA ChatsKeepScreen ==
    ASSUME TypeOK, Handlers, Waits, Screen, NEW c \in Chats, ChatStep(c)
    PROVE  Screen'
<1>. USE DEF server, shown, flags, past, who
<1>1. CASE Send(c)
  <2>1. /\ ~clearing /\ ~resetting /\ served' = [served EXCEPT ![c] = "pending"] /\ chat[c].at = "none"
        /\ messages' = messages \cup {c}
        /\ UNCHANGED <<epoch, load, history, gaveUp, orphans, erased, click, stray>>
    BY <1>1 DEF Send, MaySend
  <2>2. /\ Active' = Active \cup {c} /\ (LoadIsCurrent' <=> LoadIsCurrent)
        /\ \A d \in Chats \ {c} : chat'[d] = chat[d]
    BY <1>1, <2>1, Sending DEF LoadIsCurrent
  <2>3. LoadFits'
    BY <2>1 DEF Screen, LoadFits
  <2>4. Blank'
    BY <2>1, OursKeepsOut DEF Blank, Ours, Underway
  <2>5. Erasure'
    BY <2>1, <2>2 DEF Screen, Erasure, TypeOK
  <2>6. \A d \in Active' : served'[d] = "stored" => d # c /\ d \in Active /\ served[d] = "stored"
    BY <2>1, <2>2 DEF TypeOK, Active
  <2>7. Backed'
    BY <2>1, <2>2, <2>6 DEF Screen, Backed
  <2>. QED
    BY <2>3, <2>4, <2>5, <2>7 DEF Screen
<1>2. CASE Serve(c)
  <2>1. /\ served[c] = "pending" /\ served' = [served EXCEPT ![c] = "stored"]
        /\ history' = history \cup {c}
        /\ UNCHANGED <<epoch, chat, messages, load, gaveUp, orphans, erased, click, stray>>
    BY <1>2 DEF Serve
  <2>2. Active' = Active /\ (LoadIsCurrent' <=> LoadIsCurrent) /\ c \in Active \cup gaveUp
    BY <2>1 DEF Active, LoadIsCurrent, Waits
  <2>3. LoadFits' /\ Blank'
    BY <2>1, <2>2 DEF Screen, LoadFits, Blank, Ours, Underway
  <2>4. c \in erased => c \in gaveUp
    BY <2>2 DEF Screen, Erasure, Active
  <2>5. Erasure'
    BY <2>1, <2>2, <2>4 DEF Screen, Erasure
  <2>6. \A d \in Active' : served'[d] = "stored" => d = c \/ (d \in Active /\ served[d] = "stored")
    BY <2>1, <2>2 DEF TypeOK, Active
  <2>7. Backed'
    BY <2>1, <2>2, <2>6 DEF Screen, Backed
  <2>. QED
    BY <2>3, <2>5, <2>7 DEF Screen
<1>3. CASE Reply(c) \/ ReplyFails(c)
  <2>1. /\ chat' = [chat EXCEPT ![c].at = "done"] /\ chat[c].at = "sent"
        /\ gaveUp \subseteq gaveUp' /\ (served[c] # "pending" \/ c \in gaveUp')
        /\ UNCHANGED <<epoch, load, served, history, orphans, erased, click, stray>>
    BY <1>3 DEF Reply, ReplyFails
  <2>2. messages' = messages \/ (messages' = messages \cup {c} /\ IsOurs(c))
    BY <1>3 DEF Reply, ReplyFails
  <2>3. /\ Active' = Active \ {c} /\ c \in Active /\ (LoadIsCurrent' <=> LoadIsCurrent)
        /\ \A d \in Chats : chat[d].at = "done" => chat'[d].at = "done"
    BY <2>1, Ending DEF Active, LoadIsCurrent
  <2>4. clearing \/ resetting => messages' = messages
    BY <2>2, <2>3 DEF Waits, IsOurs
  <2>5. LoadFits'
    BY <2>1 DEF Screen, LoadFits
  <2>6. Blank'
    BY <2>1, <2>3, <2>4, OursKeepsOut DEF Screen, Blank, Ours, Underway
  <2>7. c \notin erased
    BY <2>1 DEF Screen, Erasure
  <2>8. Erasure'
    BY <2>1, <2>2, <2>3, <2>7 DEF Screen, Erasure, TypeOK
  <2>9. ~stray => c \in history \cup gaveUp'
    BY <2>1, <2>3 DEF Screen, Backed, Waits, TypeOK
  <2>10. Backed'
    BY <2>1, <2>2, <2>3, <2>9 DEF Screen, Backed
  <2>. QED
    BY <2>5, <2>6, <2>8, <2>10 DEF Screen
<1>4. CASE Fetched(c) \/ Ends(c)
  <2>1. UNCHANGED <<epoch, chat, messages, load, served, history, gaveUp, orphans, erased, click, stray>>
    BY <1>4 DEF Fetched, Ends
  <2>. QED
    BY <2>1 DEF Screen, LoadFits, Blank, Erasure, Backed, Active, LoadIsCurrent, Ours, Underway
<1>. QED
  BY <1>1, <1>2, <1>3, <1>4 DEF ChatStep

\* ... by a click: a clear empties the screen and outdates the load before
\* its request takes anything from the server.
LEMMA ClicksKeepScreen ==
    ASSUME TypeOK, Handlers, Waits, Screen, NEW k \in Clicks, ClickStep(k)
    PROVE  Screen'
<1>. USE DEF server, shown, flags, past, who
<1>0. /\ UNCHANGED <<chat, user, served, gaveUp>> /\ Active' = Active
      /\ orphans \subseteq orphans' /\ history' \subseteq history
      /\ \A q \in Clicks \ {k} : click'[q] = click[q] /\ (Ours(q)' => Ours(q))
  <2>1. UNCHANGED <<chat, user, served, gaveUp>> /\ orphans \subseteq orphans' /\ history' \subseteq history
    BY DEF ClickStep, ClearChat, ClearMemories, Post, Execute, NoteClearedSection, FullReset, ResetEnds, PostFails
  <2>. QED
    BY <2>1, OthersKeep DEF Active, Ours, Underway
<1>1. CASE ClearChat(k)
  <2>1. messages' = {} /\ epoch' = epoch + 1 /\ UNCHANGED <<load, history, erased, stray>>
    BY <1>1 DEF ClearChat
  <2>2. ~LoadIsCurrent' /\ load'.epoch <= epoch'
    BY <2>1, Outdated
  <2>. QED
    BY <1>0, <2>1, <2>2 DEF Screen, LoadFits, Blank, Erasure, Backed
<1>2. CASE Execute(k)
  <2>1. /\ posted[k] # NoPost
        /\ ~stray' => ~stray /\ (posted[k].kind # "memory" => click[k].at = "post" /\ k \notin orphans)
        /\ UNCHANGED <<epoch, messages, load, orphans, erased, click>>
    BY <1>2 DEF Execute
  <2>2. (LoadIsCurrent' <=> LoadIsCurrent) /\ \A q \in Clicks : Ours(q)' <=> Ours(q)
    BY <2>1 DEF LoadIsCurrent, Ours, Underway
  <2>3. LoadFits' /\ Blank' /\ Erasure'
    BY <1>0, <2>1, <2>2 DEF Screen, LoadFits, Blank, Erasure
  <2>4. CASE posted[k].kind = "memory"
    <3>1. history' = history /\ (~stray' => ~stray)
      BY <1>2, <2>1, <2>4 DEF Execute
    <3>. QED
      BY <1>0, <2>1, <2>2, <2>3, <3>1 DEF Screen, Backed
  <2>5. CASE posted[k].kind # "memory"
    <3>1. ASSUME ~stray'
          PROVE  /\ Active = {} /\ messages \subseteq gaveUp
                 /\ LoadIsCurrent => load.messages \subseteq gaveUp
      <4>1. /\ Ours(k) /\ click[k].at = "post" /\ posted[k].kind = click[k].kind
            /\ click[k].kind \in {"conversation", "all"}
        BY <2>1, <2>5, <3>1 DEF Handlers, TypeOK, Click, Kinds, Sections, Ours, Underway
      <4>. QED
        BY <4>1 DEF Waits, Screen, Blank
    <3>. QED
      BY <1>0, <2>1, <2>2, <2>3, <3>1 DEF Screen, Backed
  <2>. QED
    BY <2>4, <2>5
<1>3. CASE FullReset(k)
  <2>1. /\ messages' = {} /\ epoch' = epoch + 1 /\ epoch' \in Nat
        /\ Answered(k) /\ erased' = erased \cup Erases(k)
        /\ \A q \in Clicks \ {k} : Clearing(q) => q \in orphans'
        /\ click'[k] = [at |-> "wait", kind |-> "all", awaits |-> Awaits] /\ click[k].kind \in Sections
        /\ UNCHANGED <<history, stray>>
    BY <1>3 DEF FullReset, TypeOK
  <2>2. \/ ~LoadIsCurrent' /\ load'.epoch <= epoch' /\ load' = load
        \/ load'.epoch = epoch' /\ load'.messages = {}
    <3>1. CASE authed
      <4>1. load' = Loading(epoch')
        BY <1>3, <3>1 DEF FullReset
      <4>. QED
        BY <2>1, <4>1, Records
    <3>2. CASE ~authed
      <4>1. load' = load
        BY <1>3, <3>2 DEF FullReset
      <4>. QED
        BY <2>1, <4>1, Outdated
    <3>. QED
      BY <3>1, <3>2
  <2>3. LoadFits' /\ (LoadIsCurrent' => load'.messages = {})
    BY <2>1, <2>2 DEF Screen, LoadFits, TypeOK
  <2>4. \A q \in Clicks : Ours(q)' => click'[q].kind # "conversation"
    BY <1>0, <2>1 DEF Ours, Clearing, Underway
  <2>5. Blank'
    BY <2>1, <2>3, <2>4 DEF Blank
  <2>6. /\ \A c \in Erases(k) : c \in Chats /\ chat[c].at = "done"
        /\ Erases(k) \cap history \subseteq gaveUp
    <3>1. CASE Erases(k) = {}
      BY <3>1
    <3>2. CASE Erases(k) # {}
      <4>1. Erases(k) = Of(user) /\ k \notin orphans /\ click[k].kind = "conversation"
        BY <2>1, <3>2 DEF Erases, Sections
      <4>. QED
        BY <2>1, <4>1, AnsweredIsGone, AllHaveEnded DEF Gone, Of
    <3>. QED
      BY <3>1, <3>2
  <2>7. Erasure'
    BY <1>0, <2>1, <2>3, <2>6 DEF Screen, Erasure
  <2>8. Backed'
    BY <1>0, <2>1, <2>3 DEF Screen, Backed
  <2>. QED
    BY <2>3, <2>5, <2>7, <2>8 DEF Screen
<1>4. CASE NoteClearedSection(k) \/ ResetEnds(k)
  <2>1. /\ click'[k] = Over /\ Answered(k) /\ erased' = erased \cup Erases(k)
        /\ click[k].kind \in {"memory", "conversation", "all"}
        /\ UNCHANGED <<epoch, messages, load, history, stray>>
    BY <1>4 DEF NoteClearedSection, ResetEnds, TypeOK, Sections
  <2>2. (LoadIsCurrent' <=> LoadIsCurrent) /\ ~Ours(k)'
    BY <2>1, Records DEF LoadIsCurrent, Ours, Underway
  <2>3. LoadFits' /\ Blank' /\ Backed'
    BY <1>0, <2>1, <2>2 DEF Screen, LoadFits, Blank, Backed
  <2>4. /\ \A c \in Erases(k) : c \in Chats /\ chat[c].at = "done"
        /\ Erases(k) \cap (messages \cup history) \subseteq gaveUp
        /\ LoadIsCurrent => Erases(k) \cap load.messages \subseteq gaveUp
    <3>1. CASE Erases(k) = {}
      BY <3>1
    <3>2. CASE Erases(k) # {}
      <4>1. Erases(k) = Of(user) /\ k \notin orphans /\ click[k].kind \in {"conversation", "all"}
        BY <2>1, <3>2 DEF Erases
      <4>2. Ours(k)
        BY <2>1, <4>1 DEF Ours, Underway, Answered
      <4>3. messages \subseteq gaveUp /\ (LoadIsCurrent => load.messages \subseteq gaveUp)
        BY <4>1, <4>2 DEF Screen, Blank
      <4>4. Active = {} /\ Gone
        BY <2>1, <4>1, AnsweredIsGone
      <4>. QED
        BY <4>1, <4>3, <4>4, AllHaveEnded DEF Gone, Of
    <3>. QED
      BY <3>1, <3>2
  <2>5. Erasure'
    BY <1>0, <2>1, <2>2, <2>4 DEF Screen, Erasure
  <2>. QED
    BY <2>3, <2>5 DEF Screen
<1>5. CASE ClearMemories(k) \/ Post(k) \/ PostFails(k)
  <2>1. UNCHANGED <<epoch, messages, load, history, erased, stray>>
    BY <1>5 DEF ClearMemories, Post, PostFails
  <2>2. Ours(k)' => click'[k].kind = "memory" \/ (Ours(k) /\ click'[k].kind = click[k].kind)
    <3>1. CASE ClearMemories(k)
      BY <3>1 DEF ClearMemories, TypeOK
    <3>2. CASE Post(k)
      BY <3>2 DEF Post, TypeOK, Click, Ours, Underway
    <3>3. CASE PostFails(k)
      BY <3>3, Records DEF PostFails, TypeOK, Ours, Underway
    <3>. QED
      BY <1>5, <3>1, <3>2, <3>3
  <2>3. Blank'
    BY <1>0, <2>1, <2>2 DEF Screen, Blank, LoadIsCurrent
  <2>4. LoadFits' /\ Erasure' /\ Backed'
    BY <1>0, <2>1 DEF Screen, LoadFits, Erasure, Backed, LoadIsCurrent
  <2>. QED
    BY <2>3, <2>4 DEF Screen
<1>. QED
  BY <1>1, <1>2, <1>3, <1>4, <1>5 DEF ClickStep

\* Screen is inductive, given Handlers and Waits.
LEMMA NextKeepsScreen == TypeOK /\ Handlers /\ Waits /\ Screen /\ [Next]_vars => Screen'
<1>. SUFFICES ASSUME TypeOK, Handlers, Waits, Screen, [Next]_vars PROVE Screen'
  OBVIOUS
<1>. USE DEF server, shown, flags, past, who
<1>1. ASSUME NEW c \in Chats, ChatStep(c) PROVE Screen'
  BY <1>1, ChatsKeepScreen
<1>2. ASSUME NEW k \in Clicks, ClickStep(k) PROVE Screen'
  BY <1>2, ClicksKeepScreen
<1>3. CASE Login \/ Logout
  <2>1. /\ load' \in {Loading(epoch), NoLoad} /\ epoch \in Nat
        /\ messages' \in {messages, {}}
        /\ UNCHANGED <<epoch, chat, served, history, gaveUp, erased, stray>>
    BY <1>3 DEF Login, Logout, TypeOK
  <2>2. load'.epoch <= epoch' /\ load'.messages = {}
    BY <2>1, Records
  <2>3. \A k \in Clicks : ~Ours(k)'
    BY <1>3 DEF Login, Logout, Waits, Ours, Underway
  <2>. QED
    BY <2>1, <2>2, <2>3 DEF Screen, LoadFits, Blank, Erasure, Backed, Active
<1>4. CASE LoadRead
  <2>1. PICK m \in {{}, history \cap Of(user)}, f \in {{}, facts \cap Of(user)} :
           load' = [load EXCEPT !.at = "read", !.messages = m, !.memories = f]
    BY <1>4 DEF LoadRead
  <2>2. /\ load.at = "sent" /\ load'.at = "read" /\ load'.epoch = load.epoch /\ load'.messages = m
        /\ UNCHANGED <<epoch, chat, messages, served, history, gaveUp, orphans, erased, click, stray>>
    BY <1>4, <2>1 DEF LoadRead, TypeOK, Load
  <2>3. Active' = Active /\ (LoadIsCurrent' <=> LoadIsCurrent) /\ \A k \in Clicks : Ours(k)' <=> Ours(k)
    BY <2>2 DEF Active, LoadIsCurrent, Ours, Underway
  <2>4. m \subseteq history \cap Of(user)
    OBVIOUS
  <2>5. \A k \in Clicks : Ours(k) /\ click[k].kind = "all" => m \subseteq gaveUp
    BY <2>4 DEF Waits, Gone
  <2>6. Blank'
    BY <2>2, <2>3, <2>5 DEF Screen, Blank
  <2>7. LoadFits' /\ Erasure' /\ Backed'
    BY <2>2, <2>3, <2>4 DEF Screen, LoadFits, Erasure, Backed
  <2>. QED
    BY <2>6, <2>7 DEF Screen
<1>5. CASE LoadArrives
  <2>0. messages' = messages \/ (LoadIsCurrent /\ messages' = load.messages)
    BY <1>5 DEF LoadArrives, LoadIsCurrent
  <2>1. /\ load' = NoLoad
        /\ UNCHANGED <<epoch, chat, served, history, gaveUp, orphans, erased, click, stray>>
    BY <1>5 DEF LoadArrives
  <2>2. ~LoadIsCurrent' /\ load'.at # "sent" /\ load'.epoch <= epoch'
    BY <2>1, Records DEF LoadIsCurrent, TypeOK
  <2>3. Active' = Active /\ \A k \in Clicks : Ours(k)' <=> Ours(k)
    BY <2>1 DEF Active, Ours, Underway
  <2>4. Blank'
    BY <2>0, <2>1, <2>2, <2>3 DEF Screen, Blank
  <2>5. LoadFits' /\ Erasure' /\ Backed'
    BY <2>0, <2>1, <2>2, <2>3 DEF Screen, LoadFits, Erasure, Backed
  <2>. QED
    BY <2>4, <2>5 DEF Screen
<1>6. CASE Silences \/ UNCHANGED vars
  <2>1. UNCHANGED <<epoch, chat, messages, load, served, history, gaveUp, orphans, erased, click, stray>>
    BY <1>6 DEF Silences, vars
  <2>. QED
    BY <2>1 DEF Screen, LoadFits, Blank, Erasure, Backed, Active, LoadIsCurrent, Ours, Underway
<1>. QED
  BY <1>1, <1>2, <1>3, <1>4, <1>5, <1>6, NextIsAStep DEF PageStep

-----------------------------------------------------------------------------
\* The inductive invariant of the client.
ClientInv == TypeOK /\ Handlers /\ Voice /\ Waits /\ Screen

\* It holds in every reachable state.
LEMMA AlwaysClientInv == Spec => []ClientInv
<1>1. Init => ClientInv
  <2>. SUFFICES ASSUME Init PROVE ClientInv
    OBVIOUS
  <2>1. TypeOK
    <3>1. Unclicked \in Click /\ NoPost \in [user : Users \cup {None}, kind : Kinds]
      BY DEF Unclicked, Click, Kinds, NoPost
    <3>2. /\ chat \in [Chats -> [at : {"none", "sent", "done"}, user : Users \cup {None}, epoch : Nat]]
          /\ click \in [Clicks -> Click]
          /\ posted \in [Clicks -> [user : Users \cup {None}, kind : Kinds]]
          /\ load \in Load
      BY <3>1, Records DEF Init
    <3>3. user \in Users /\ logins \in Nat /\ epoch \in Nat
      BY DEF Init
    <3>6. /\ authed \in BOOLEAN /\ clearing \in BOOLEAN /\ resetting \in BOOLEAN
          /\ crossed \in BOOLEAN /\ stray \in BOOLEAN /\ inherited \in BOOLEAN
      BY Zenon DEF Init
    <3>5. /\ history = {} /\ facts = {} /\ messages = {} /\ memories = {} /\ gaveUp = {}
          /\ done = {} /\ cleared = {} /\ fetching = {} /\ playing = {} /\ stale = {} /\ current = None
          /\ orphans = {} /\ erased = {}
      BY DEF Init
    <3>4. served \in [Chats -> {"none", "pending", "stored"}] /\ carried \in [Chats -> SUBSET Chats]
      BY DEF Init
    <3>. QED
      BY <3>2, <3>3, <3>4, <3>5, <3>6 DEF TypeOK
  <2>2. /\ Active = {} /\ load.at = "none" /\ load.epoch = 0 /\ load.messages = {}
        /\ \A k \in Clicks : click[k].at = "idle" /\ posted[k] = NoPost /\ ~Ours(k)
        /\ \A c \in Chats : chat[c].epoch = 0 /\ chat[c].user = None /\ served[c] = "none"
    BY Records DEF Init, Active, Unclicked, Ours, Underway
  <2>3. Handlers
    BY <2>2 DEF Init, Handlers, Held, Underway, Clearing
  <2>4. Voice
    BY <2>2 DEF Init, Voice
  <2>5. Waits
    BY <2>2 DEF Init, Waits
  <2>6. Screen
    BY <2>2 DEF Init, Screen, LoadFits, Blank, Erasure, Backed, LoadIsCurrent
  <2>. QED
    BY <2>1, <2>3, <2>4, <2>5, <2>6 DEF ClientInv
<1>2. ClientInv /\ [Next]_vars => ClientInv'
  BY NextTyped, NextKeepsHandlers, NextKeepsVoice, NextKeepsWaits, NextKeepsScreen DEF ClientInv
<1>. QED
  BY <1>1, <1>2, PTL DEF Spec

\* The types hold, and neither in-flight flag is ever set without a handler
\* under way that releases it: no overlap of clears, resets, failures and
\* logouts leaves the client refusing messages for good (790-792, 825-834,
\* 881-884).
THEOREM FlagsReleased == Spec => []FlagsAreHeld
<1>1. ClientInv => FlagsAreHeld
  BY DEF ClientInv, Handlers, Held, FlagsAreHeld, Clearing, Underway
<1>. QED
  BY <1>1, AlwaysClientInv, PTL

\* Whatever plays, and was not being fetched at a stop, is what audioRef
\* holds, a reply of this epoch and, unless a session ended with a chat in
\* flight, to this user (535-592).
THEOREM NewestIsHeard == Spec => []OneVoice
<1>1. ClientInv => OneVoice
  BY DEF ClientInv, Voice, Heard, OneVoice
<1>. QED
  BY <1>1, AlwaysClientInv, PTL

\* What a clear was reported to have erased is neither stored nor shown again
\* but for what the client gave up on (742, 396, 872-877): for any number of
\* chats, clears, users and logins, of the same user or another, and late
\* answers; it is said of the clears that keep their session and their flag.
THEOREM ClearedStaysGone == Spec => []ClearedIsGone
<1>1. ClientInv => ClearedIsGone
  BY DEF ClientInv, Screen, Erasure, ClearedIsGone
<1>. QED
  BY <1>1, AlwaysClientInv, PTL

\* Every message shown is stored, in flight or given up on: no clear takes a
\* turn from the server that the client goes on showing (646-653, 671-679,
\* 857-884), but one that outlives its handler, its session or its flag.
THEOREM ScreenIsBacked == Spec => []ShownIsStored
<1>1. ClientInv => ShownIsStored
  BY DEF ClientInv, Screen, Backed, ShownIsStored
<1>. QED
  BY <1>1, AlwaysClientInv, PTL

-----------------------------------------------------------------------------
(***************************************************************************)
(*                        The migration script                             *)
(*                                                                         *)
(* What a run that completes has copied, and which ids it leaves to the    *)
(* application.                                                            *)
(***************************************************************************)
\* A set of natural numbers up to a bound has a largest element: of the
\* intervals from its elements to the bound one is the smallest.
LEMMA Largest ==
  ASSUME NEW N \in Nat, NEW T \in SUBSET (0..N), T # {}
  PROVE  \E x \in T : \A y \in T : y <= x
<1> DEFINE I(y) == y..N
           R == StrictSubsetOrdering(0..N)
<1>1. {I(y) : y \in T} \subseteq FiniteSubsetsOf(0..N) /\ {I(y) : y \in T} # {}
  <2>1. \A y \in T : I(y) \subseteq 0..N /\ IsFiniteSet(I(y))
    BY FS_Interval, FS_Subset
  <2> QED  BY <2>1 DEF FiniteSubsetsOf
<1>2. PICK m \in {I(y) : y \in T} : \A n \in {I(y) : y \in T} : ~(<<n, m>> \in R)
  <2> HIDE DEF I, R
  <2>1. IsWellFoundedOn(R, FiniteSubsetsOf(0..N))
    BY FS_StrictSubsetOrderingWellFounded DEF R
  <2> QED  BY <1>1, <2>1, WFMin
<1>3. PICK x \in T : m = I(x)
  BY <1>2
<1>4. ASSUME NEW y \in T, y > x PROVE FALSE
  <2>1. I(y) \subseteq I(x) /\ I(y) # I(x)
    BY <1>4
  <2>2. <<I(y), I(x)>> \in R
    BY <2>1 DEF StrictSubsetOrdering
  <2> QED  BY <2>2, <1>2, <1>3
<1> QED  BY <1>4

\* What NextFree computes: an id of the range above every id of the set.
LEMMA NextFreeIsFree ==
  ASSUME NEW S \in SUBSET Ids
  PROVE  /\ NextFree(S) \in 1 .. MaxId + 1
         /\ \A i \in S : i < NextFree(S)
<1> USE BoundsAssumption
<1> DEFINE T == S \cup {0}
<1>1. T \in SUBSET (0..MaxId) /\ T # {}
  BY DEF Ids
<1>2. \E x \in T : \A y \in T : y <= x
  <2> HIDE DEF T
  <2> QED  BY <1>1, Largest
<1>3. \E x \in T : \A y \in T : x >= y
  BY <1>1, <1>2
<1>4. Max(T) \in T /\ \A y \in T : Max(T) >= y
  BY <1>3 DEF Max
<1>5. NextFree(S) = Max(T) + 1
  BY DEF NextFree
<1>6. Max(T) \in 0..MaxId
  BY <1>1, <1>4
<1>7. \A i \in S : i \in Nat /\ Max(T) >= i
  BY <1>4 DEF Ids
<1> HIDE DEF T
<1> QED  BY <1>5, <1>6, <1>7

-----------------------------------------------------------------------------
(***************************************************************************)
(* Types.  No table has more copies than there were runs, and none that    *)
(* the current run has still to copy has as many.                          *)
(***************************************************************************)
OneCopyPerRun ==
    /\ \A t \in Copied : copies[t] <= runs
    /\ run.at = "copying" =>
          \A k \in DOMAIN Tables : k >= run.step => copies[Tables[k]] < runs

ScriptTypes == MigrationTypeOK /\ OneCopyPerRun

LEMMA RunsKeepTypes == ScriptTypes /\ [MigrationNext]_migrationVars => ScriptTypes'
<1> USE BoundsAssumption, TablesAssumption DEF ScriptTypes, MigrationTypeOK
<1> SUFFICES ASSUME ScriptTypes, [MigrationNext]_migrationVars PROVE ScriptTypes'
  OBVIOUS
<1>1. ASSUME NEW force \in BOOLEAN, Begin(force) PROVE ScriptTypes'
  <2>1. runs' = runs + 1 /\ runs' \in 0..MaxRuns
    BY <1>1 DEF Begin
  <2>2. copies' \in [Copied -> 0..MaxRuns] /\ \A t \in Copied : copies'[t] <= runs
    BY <1>1 DEF Begin, OneCopyPerRun
  <2>3. MigrationTypeOK'
    BY <1>1, <2>1 DEF Begin, Stopped, source, ghosts, Ids, Last
  <2>4. \A k \in DOMAIN Tables : Tables[k] \in Copied
    BY DEF Copied
  <2> QED  BY <2>1, <2>2, <2>3, <2>4 DEF OneCopyPerRun
<1>2. CASE CopyUsers
  <2>1. users' \in [Ids -> {"none", "old", "app"}]
    BY <1>2 DEF CopyUsers
  <2>2. run' = [run EXCEPT !.step = 1] /\ run.step = 0 /\ 1 \in 0 .. Last + 1
    BY <1>2 DEF CopyUsers, Last
  <2>3. UNCHANGED <<source, copies, nextId, drawn, top, runs, ghosts>>
    BY <1>2 DEF CopyUsers
  <2>4. run' \in [at : {"none", "refused", "copying", "stopped", "complete"},
                 force : BOOLEAN, step : 0 .. Last + 1]
    BY <2>2
  <2>5. MigrationTypeOK'
    BY <2>1, <2>3, <2>4 DEF source, ghosts
  <2> QED  BY <2>2, <2>3, <2>5 DEF OneCopyPerRun
<1>3. CASE CopyTable
  <2> DEFINE t == Tables[run.step]
  <2>1. run.at = "copying" /\ run.step \in 1..Len(Tables) /\ t \in Copied
    BY <1>3 DEF CopyTable, Copied
  <2>2. run' = [run EXCEPT !.step = @ + 1] /\ run.step + 1 \in 0 .. Last + 1
    BY <1>3, <2>1 DEF CopyTable, Last
  <2>3. copies[t] \in Nat /\ copies[t] < runs /\ runs \in 0..MaxRuns
    BY <2>1 DEF OneCopyPerRun
  <2>4. CopiesAfter(t) \in 1..runs /\ (t \notin Keyless => CopiesAfter(t) = 1)
    BY <2>3 DEF CopiesAfter
  <2>5. copies' = copies \/ copies' = [copies EXCEPT ![t] = CopiesAfter(t)]
    BY <1>3 DEF CopyTable
  <2>6. MigrationTypeOK'
    <3> DEFINE n == CopiesAfter(t)
    <3>1. n \in 0..MaxRuns /\ (t \notin Keyless => n <= 1)
      BY <2>3, <2>4
    <3> HIDE DEF n, t
    <3>2. copies' = copies \/ copies' = [copies EXCEPT ![t] = n]
      BY <2>5 DEF n
    <3>3. copies' \in [Copied -> 0..MaxRuns]
      BY <2>1, <3>1, <3>2
    <3>4. \A u \in Copied \ Keyless : copies'[u] <= 1
      BY <2>1, <3>1, <3>2
    <3>5. UNCHANGED <<source, users, nextId, drawn, top, runs, ghosts>>
      BY <1>3 DEF CopyTable
    <3>6. run' \in [at : {"none", "refused", "copying", "stopped", "complete"},
                   force : BOOLEAN, step : 0 .. Last + 1]
      BY <2>2
    <3> QED  BY <3>3, <3>4, <3>5, <3>6 DEF source, ghosts
  <2>7. \A u \in Copied : copies'[u] <= runs
    BY <2>1, <2>3, <2>4, <2>5 DEF OneCopyPerRun
  <2>8. ASSUME NEW k \in DOMAIN Tables, k >= run.step + 1 PROVE copies'[Tables[k]] < runs
    <3>1. Tables[k] # t /\ Tables[k] \in Copied
      BY <2>1, <2>8 DEF Copied
    <3> QED  BY <2>1, <2>5, <2>8, <3>1 DEF OneCopyPerRun
  <2>9. runs' = runs /\ run'.step = run.step + 1
    BY <1>3, <2>2 DEF CopyTable
  <2>10. OneCopyPerRun'
    BY <2>7, <2>8, <2>9 DEF OneCopyPerRun
  <2> QED  BY <2>6, <2>10
<1>4. CASE ReadMax
  <2>1. Taken \in SUBSET Ids
    BY DEF Taken
  <2>2. run' = [run EXCEPT !.step = @ + 1] /\ run.step = Last /\ Last \in Nat
    BY <1>4 DEF ReadMax, Last
  <2>3. run' \in [at : {"none", "refused", "copying", "stopped", "complete"},
                 force : BOOLEAN, step : 0 .. Last + 1]
    <3>1. run.step + 1 \in 0 .. Last + 1
      BY <2>2
    <3> QED  BY <2>2, <3>1
  <2>4. top' \in 1 .. MaxId + 1 /\ raced' \in BOOLEAN
    BY <1>4, <2>1, NextFreeIsFree DEF ReadMax
  <2>5. UNCHANGED <<source, users, copies, nextId, drawn, runs, overlap>>
    BY <1>4 DEF ReadMax
  <2>6. MigrationTypeOK'
    BY <2>3, <2>4, <2>5 DEF source
  <2> QED  BY <2>2, <2>5, <2>6 DEF OneCopyPerRun
<1>5. CASE SetSequences
  <2>1. run' \in [at : {"none", "refused", "copying", "stopped", "complete"},
                 force : BOOLEAN, step : 0 .. Last + 1]
    <3>1. 0 \in 0 .. Last + 1
      BY DEF Last
    <3>2. run' = Stopped("complete") \/ run' = Stopped("stopped")
      BY <1>5 DEF SetSequences
    <3>3. run'.at \in {"complete", "stopped"} /\ run'.force = FALSE /\ run'.step = 0
      BY <3>2 DEF Stopped
    <3>4. run' = [at |-> run'.at, force |-> FALSE, step |-> 0]
      BY <3>2 DEF Stopped
    <3> QED  BY <3>1, <3>3, <3>4
  <2>2. run'.at # "copying" /\ nextId' = top
    BY <1>5 DEF SetSequences, Stopped
  <2>3. UNCHANGED <<source, users, copies, drawn, top, runs, ghosts>>
    BY <1>5 DEF SetSequences
  <2> QED  BY <2>1, <2>2, <2>3 DEF source, ghosts, OneCopyPerRun
<1>6. CASE Aborts
  BY <1>6 DEF Aborts, Stopped, source, ghosts, Last, OneCopyPerRun
<1>7. CASE Inserts
  BY <1>7 DEF Inserts, source, Ids, OneCopyPerRun
<1>8. ASSUME NEW i \in Ids, Commits(i) PROVE ScriptTypes'
  <2>1. drawn[i] \in Nat /\ drawn[i] > 0 /\ drawn' = [drawn EXCEPT ![i] = @ - 1]
    BY <1>8 DEF Commits, UnderWay
  <2> QED  BY <1>8, <2>1 DEF Commits, source, OneCopyPerRun
<1>9. ASSUME NEW i \in Ids, Fails(i) PROVE ScriptTypes'
  <2>1. drawn[i] \in Nat /\ drawn[i] > 0 /\ drawn' = [drawn EXCEPT ![i] = @ - 1]
    BY <1>9 DEF Fails, UnderWay
  <2> QED  BY <1>9, <2>1 DEF Fails, source, ghosts, OneCopyPerRun
<1>10. CASE UNCHANGED migrationVars
  BY <1>10 DEF migrationVars, OneCopyPerRun
<1> QED  BY <1>1, <1>2, <1>3, <1>4, <1>5, <1>6, <1>7, <1>8, <1>9, <1>10 DEF MigrationNext

LEMMA StartTypes == MigrationInit => ScriptTypes
<1> USE BoundsAssumption, TablesAssumption
<1> SUFFICES ASSUME MigrationInit PROVE ScriptTypes
  OBVIOUS
<1>1. Last \in Nat /\ 0 \in 0 .. Last + 1
  BY DEF Last
<1>2. run = Stopped("none") /\ nextId \in 1 .. MaxId + 1 /\ top \in 1 .. MaxId + 1
  BY DEF MigrationInit
<1>3. users \in [Ids -> {"none", "old", "app"}]
  BY DEF MigrationInit
<1>4. copies \in [Copied -> 0..MaxRuns] /\ \A t \in Copied : copies[t] = 0
  BY DEF MigrationInit
<1>5. oldUsers \subseteq Ids /\ oldTables \subseteq Copied /\ runs \in 0..MaxRuns
  BY DEF MigrationInit
<1>6. overlap \in BOOLEAN /\ raced \in BOOLEAN /\ drawn \in [Ids -> Nat]
  BY DEF MigrationInit
<1>7. MigrationTypeOK
  <2>1. run \in [at : {"none", "refused", "copying", "stopped", "complete"},
                 force : BOOLEAN, step : 0 .. Last + 1]
    BY <1>1, <1>2 DEF Stopped
  <2>2. \A t \in Copied \ Keyless : copies[t] <= 1
    BY <1>4
  <2> QED  BY <1>2, <1>3, <1>4, <1>5, <1>6, <2>1, <2>2 DEF MigrationTypeOK
<1>8. OneCopyPerRun
  BY <1>2, <1>4, <1>5 DEF OneCopyPerRun, Stopped
<1> QED  BY <1>7, <1>8 DEF ScriptTypes

\* In every reachable state each variable has its type, and no row that a key
\* of the target tells apart is there twice.
THEOREM MigrationTyped == MigrationSpec => []MigrationTypeOK
<1>1. ScriptTypes => MigrationTypeOK
  BY DEF ScriptTypes
<1> QED  BY <1>1, StartTypes, RunsKeepTypes, PTL DEF MigrationSpec
-----------------------------------------------------------------------------
(***************************************************************************)
(* Identifiers.  What the statement has read is above every migrated id,   *)
(* and above every id that is taken or under way unless a registration was *)
(* under way; the application, which spends each value once, keeps it so.  *)
(***************************************************************************)
Spent(i) == users[i] = "old" \/ (~raced /\ (i \in Taken \/ i \in UnderWay))

SequenceIsAbove ==
    /\ run.at = "copying" /\ run.step = Last + 1 => \A i \in Ids : Spent(i) => i < top
    /\ run.at = "complete" => \A i \in Ids : Spent(i) => i < nextId

\* Between the two halves of the statement no id is under way, but for a race.
NobodyWaits == run.at = "copying" /\ run.step = Last + 1 /\ ~raced => UnderWay = {}

LEMMA SequenceStaysAbove ==
  ScriptTypes /\ SequenceIsAbove /\ NobodyWaits /\ [MigrationNext]_migrationVars
    => SequenceIsAbove' /\ NobodyWaits'
<1> USE BoundsAssumption DEF ScriptTypes, MigrationTypeOK, ghosts
<1> SUFFICES ASSUME ScriptTypes, SequenceIsAbove, NobodyWaits, [MigrationNext]_migrationVars
             PROVE  SequenceIsAbove' /\ NobodyWaits'
  OBVIOUS
<1>0. Last \in Nat /\ Last >= 1
  BY TablesAssumption DEF Last
<1>1. ASSUME NEW force \in BOOLEAN, Begin(force)
      PROVE  run'.at # "complete" /\ ~(run'.at = "copying" /\ run'.step = Last + 1)
  BY <1>0, <1>1 DEF Begin, Stopped
<1>2. CASE CopyUsers
  <2>1. run'.at = "copying" /\ run'.step = 1
    BY <1>2 DEF CopyUsers
  <2> QED  BY <1>0, <2>1 DEF SequenceIsAbove, NobodyWaits
<1>3. CASE CopyTable
  <2>1. run'.at = "copying" /\ run'.step = run.step + 1 /\ run.step \in 1..Len(Tables)
    BY <1>3 DEF CopyTable
  <2> QED  BY TablesAssumption, <2>1 DEF SequenceIsAbove, NobodyWaits, Last
<1>4. CASE ReadMax
  <2>1. Taken \in SUBSET Ids /\ Taken' = Taken /\ UnderWay' = UnderWay
    BY <1>4 DEF Taken, UnderWay, ReadMax
  <2>2. \A i \in Taken : i < top'
    BY <1>4, <2>1, NextFreeIsFree DEF ReadMax
  <2>3. \A i \in Ids : Spent(i)' => i \in Taken
    BY <1>4, <2>1 DEF ReadMax, Spent, Taken
  <2>4. run'.at = "copying"
    BY <1>4 DEF ReadMax
  <2>5. NobodyWaits'
    BY <1>4, <2>1 DEF ReadMax, NobodyWaits
  <2> QED  BY <2>2, <2>3, <2>4, <2>5 DEF SequenceIsAbove
<1>5. CASE SetSequences
  <2>1. nextId' = top /\ run'.at # "copying"
    BY <1>5 DEF SetSequences, Stopped
  <2>2. \A i \in Ids : Spent(i)' = Spent(i)
    BY <1>5 DEF SetSequences, Spent, Taken, UnderWay
  <2>3. run.at = "copying" /\ run.step = Last + 1
    BY <1>5 DEF SetSequences
  <2> QED  BY <2>1, <2>2, <2>3 DEF SequenceIsAbove, NobodyWaits
<1>6. CASE Aborts
  BY <1>6 DEF Aborts, Stopped, SequenceIsAbove, NobodyWaits
<1>7. CASE Inserts
  <2>1. nextId' = nextId + 1 /\ nextId \in Nat /\ run' = run /\ top' = top /\ users' = users
    BY <1>7 DEF Inserts
  <2>2. \A i \in Ids : i # nextId => (drawn'[i] > 0 => drawn[i] > 0)
    BY <1>7 DEF Inserts
  <2>3. raced' = (raced \/ (run.at = "copying" /\ run.step = Last + 1))
    BY <1>7 DEF Inserts
  <2>4. ASSUME NEW i \in Ids, Spent(i)' PROVE Spent(i) \/ (i = nextId /\ ~raced')
    BY <2>1, <2>2, <2>3, <2>4 DEF Spent, Taken, UnderWay
  <2>5. Ids \subseteq Nat
    BY DEF Ids
  <2>6. NobodyWaits'
    BY <2>1, <2>2, <2>3, <1>7 DEF NobodyWaits, Inserts, UnderWay
  <2>7. ASSUME NEW i \in Ids, Spent(i)', run.at = "copying", run.step = Last + 1 PROVE i < top
    BY <2>3, <2>4, <2>7 DEF SequenceIsAbove
  <2>8. ASSUME NEW i \in Ids, Spent(i)', run.at = "complete" PROVE i < nextId + 1
    <3>1. CASE Spent(i)
      BY <2>1, <2>5, <2>8, <3>1 DEF SequenceIsAbove
    <3>2. CASE i = nextId
      BY <2>1, <3>2
    <3> QED  BY <2>4, <2>8, <3>1, <3>2
  <2> QED  BY <2>1, <2>6, <2>7, <2>8 DEF SequenceIsAbove, Last
<1>8. ASSUME NEW k \in Ids, Commits(k) \/ Fails(k) PROVE SequenceIsAbove' /\ NobodyWaits'
  <2>1. run' = run /\ top' = top /\ nextId' = nextId /\ raced' = raced
    BY <1>8 DEF Commits, Fails
  <2>2. k \in UnderWay /\ (users' = users \/ users' = [users EXCEPT ![k] = "app"])
    BY <1>8 DEF Commits, Fails
  <2>3. drawn' = [drawn EXCEPT ![k] = @ - 1]
    BY <1>8 DEF Commits, Fails
  <2>4. UnderWay' \subseteq UnderWay
    BY <2>3 DEF UnderWay
  <2>5. \A i \in Ids : Spent(i)' => Spent(i)
    BY <2>1, <2>2, <2>4 DEF Spent, Taken
  <2> QED  BY <2>1, <2>4, <2>5 DEF SequenceIsAbove, NobodyWaits
<1>9. CASE UNCHANGED migrationVars
  BY <1>9 DEF migrationVars, SequenceIsAbove, NobodyWaits, Spent, Taken, UnderWay
<1> QED
  <2>1. run'.at # "complete" /\ ~(run'.at = "copying" /\ run'.step = Last + 1)
           => SequenceIsAbove' /\ NobodyWaits'
    BY DEF SequenceIsAbove, NobodyWaits, Last
  <2> QED  BY <1>1, <1>2, <1>3, <1>4, <1>5, <1>6, <1>7, <1>8, <1>9, <2>1 DEF MigrationNext

\* After a complete run the application's next account never meets a migrated
\* id, and no id that is taken unless a registration was between its INSERT
\* and its COMMIT while the script set the sequence (setval of MAX(id) + 1).
THEOREM NewIdsFree == MigrationSpec => []NewIdsAreFree
<1>1. MigrationInit => SequenceIsAbove /\ NobodyWaits
  BY DEF MigrationInit, SequenceIsAbove, NobodyWaits, Stopped
<1>2. ScriptTypes /\ SequenceIsAbove => NewIdsAreFree
  BY BoundsAssumption DEF ScriptTypes, MigrationTypeOK, SequenceIsAbove, Spent, NewIdsAreFree
<1> QED  BY <1>1, <1>2, StartTypes, RunsKeepTypes, SequenceStaysAbove, PTL DEF MigrationSpec

-----------------------------------------------------------------------------
(***************************************************************************)
(* Completeness.  A rerun is told by the users of the target, so users are *)
(* what the invariant hangs on: where none is taken nothing was copied,    *)
(* and a run past its first step has at least one taken.  A run that has   *)
(* met no registration started from an empty target or emptied it, and has *)
(* copied the tables before its step and none of the others.               *)
(***************************************************************************)
EmptyTarget == Taken = {} => \A t \in Copied : copies[t] = 0

UsersFirst == run.at = "copying" /\ run.step > 0 => Taken # {}

AllUsersCopied == \A i \in oldUsers : users[i] = "old"

Rows(t) == IF t \in oldTables THEN 1 ELSE 0

RunIsClean ==
    run.at = "copying" /\ ~overlap =>
        IF run.step = 0 THEN Taken = {}
        ELSE /\ AllUsersCopied
             /\ \A k \in DOMAIN Tables :
                   copies[Tables[k]] = IF k < run.step THEN Rows(Tables[k]) ELSE 0

CopyInv == oldUsers # {} => EmptyTarget /\ UsersFirst /\ RunIsClean

\* With no account of its own the target drops no row for its username.
LEMMA NobodyIsNamed ==
  ASSUME NEW named \in SUBSET oldUsers, MigrationTypeOK, Taken = {},
         Cardinality(named) <= Cardinality({i \in Ids : users[i] = "app"})
  PROVE  named = {}
<1>1. {i \in Ids : users[i] = "app"} = {}
  BY DEF Taken
<1>2. IsFiniteSet(Ids)
  BY BoundsAssumption, FS_Interval DEF Ids
<1>3. IsFiniteSet(named)
  BY <1>2, FS_Subset DEF MigrationTypeOK
<1>4. Cardinality(named) <= 0 /\ Cardinality(named) \in Nat
  BY <1>1, <1>3, FS_EmptySet, FS_CardinalityType
<1>5. Cardinality(named) = 0
  BY <1>4
<1> QED  BY <1>3, <1>5, FS_EmptySet

\* No step writes to the source.
LEMMA SourceIsKept == [MigrationNext]_migrationVars => oldUsers' = oldUsers
<1> SUFFICES ASSUME [MigrationNext]_migrationVars PROVE oldUsers' = oldUsers
  OBVIOUS
<1>1. ASSUME NEW force \in BOOLEAN, Begin(force) PROVE oldUsers' = oldUsers
  BY <1>1 DEF Begin, source
<1>2. CASE CopyUsers
  BY <1>2 DEF CopyUsers, source
<1>3. CASE CopyTable
  BY <1>3 DEF CopyTable, source
<1>4. CASE ReadMax
  BY <1>4 DEF ReadMax, source
<1>5. CASE SetSequences
  BY <1>5 DEF SetSequences, source
<1>6. CASE Aborts
  BY <1>6 DEF Aborts, source
<1>7. CASE Inserts
  BY <1>7 DEF Inserts, source
<1>8. ASSUME NEW i \in Ids, Commits(i) \/ Fails(i) PROVE oldUsers' = oldUsers
  BY <1>8 DEF Commits, Fails, source
<1>9. CASE UNCHANGED migrationVars
  BY <1>9 DEF migrationVars
<1> QED  BY <1>1, <1>2, <1>3, <1>4, <1>5, <1>6, <1>7, <1>8, <1>9 DEF MigrationNext

LEMMA CopyInvInductive ==
  ScriptTypes /\ CopyInv /\ (oldUsers # {} => CompletedIsComplete) /\ [MigrationNext]_migrationVars
    => CopyInv' /\ (oldUsers # {} => CompletedIsComplete)'
<1> USE BoundsAssumption, TablesAssumption DEF ScriptTypes, MigrationTypeOK, ghosts
<1> SUFFICES ASSUME ScriptTypes, CopyInv, oldUsers # {}, CompletedIsComplete, [MigrationNext]_migrationVars
             PROVE  EmptyTarget' /\ UsersFirst' /\ RunIsClean' /\ CompletedIsComplete'
  <2> QED  BY SourceIsKept DEF CopyInv
<1> USE DEF CopyInv
<1>1. ASSUME NEW force \in BOOLEAN, Begin(force)
      PROVE  EmptyTarget' /\ UsersFirst' /\ RunIsClean' /\ CompletedIsComplete'
  <2>1. CASE Refuses(force)
    BY <1>1, <2>1 DEF Begin, Stopped, EmptyTarget, UsersFirst, RunIsClean,
                      CompletedIsComplete, Taken
  <2>2. CASE ~Refuses(force)
    <3>1. run' = [at |-> "copying", force |-> force, step |-> 0]
      BY <1>1, <2>2 DEF Begin
    <3>2. Taken' = {} /\ EmptyTarget'
      BY <1>1, <2>2 DEF Begin, Refuses, Truncates, Taken, EmptyTarget
    <3> QED  BY <3>1, <3>2 DEF UsersFirst, RunIsClean, CompletedIsComplete
  <2> QED  BY <2>1, <2>2
<1>2. CASE CopyUsers
  <2>1. run.at = "copying" /\ run.step = 0 /\ run'.at = "copying" /\ run'.step = 1
    BY <1>2 DEF CopyUsers
  <2>2. UNCHANGED <<oldUsers, oldTables, copies, overlap>>
    BY <1>2 DEF CopyUsers, source
  <2>3. Taken \subseteq Taken'
    BY <1>2 DEF CopyUsers, Taken
  <2>4. Taken = {} => AllUsersCopied' /\ Taken' # {}
    <3>1. PICK named \in SUBSET oldUsers :
            /\ Cardinality(named) <= Cardinality({i \in Ids : users[i] = "app"})
            /\ users' = [i \in Ids |-> IF i \in oldUsers \ (Taken \cup named) THEN "old" ELSE users[i]]
      BY <1>2 DEF CopyUsers
    <3>2. Taken = {} => named = {}
      BY <3>1, NobodyIsNamed
    <3>3. Taken = {} => \A i \in oldUsers : users'[i] = "old"
      BY <3>1, <3>2
    <3> QED  BY <2>2, <3>3 DEF AllUsersCopied, Taken
  <2>5. Taken' # {}
    BY <2>3, <2>4
  <2>6. ~overlap => \A k \in DOMAIN Tables : copies[Tables[k]] = 0 /\ (k < 1 <=> FALSE)
    BY <2>1 DEF RunIsClean, EmptyTarget, Copied
  <2> QED
    BY <2>1, <2>2, <2>4, <2>5, <2>6 DEF EmptyTarget, UsersFirst, RunIsClean, CompletedIsComplete
<1>3. CASE CopyTable
  <2> DEFINE t == Tables[run.step]
  <2>1. run.at = "copying" /\ run.step \in 1..Len(Tables) /\ t \in Copied
    BY <1>3 DEF CopyTable, Copied
  <2>2. run'.at = "copying" /\ run'.step = run.step + 1
    BY <1>3 DEF CopyTable
  <2>3. UNCHANGED <<oldUsers, oldTables, users, overlap>> /\ Taken' = Taken
    BY <1>3 DEF CopyTable, source, Taken
  <2>4. Taken # {}
    BY <2>1 DEF UsersFirst
  <2>5. ASSUME ~overlap, NEW k \in DOMAIN Tables
        PROVE  copies'[Tables[k]] = IF k < run.step + 1 THEN Rows(Tables[k]) ELSE 0
    <3>1. CASE k = run.step
      <4>1. copies[t] = 0
        BY <2>1, <2>5, <3>1 DEF RunIsClean
      <4>2. CopiesAfter(t) = 1
        BY <4>1 DEF CopiesAfter
      <4> QED  BY <1>3, <2>1, <3>1, <4>1, <4>2 DEF CopyTable, Rows
    <3>2. CASE k # run.step
      <4>1. Tables[k] # t
        BY <2>1, <3>2
      <4>2. copies'[Tables[k]] = copies[Tables[k]]
        BY <1>3, <2>1, <4>1 DEF CopyTable, Copied
      <4> QED  BY <2>1, <2>5, <3>2, <4>2 DEF RunIsClean
    <3> QED  BY <3>1, <3>2
  <2>6. \A k \in DOMAIN Tables : Rows(Tables[k])' = Rows(Tables[k])
    BY <2>3 DEF Rows
  <2>7. ~overlap => AllUsersCopied'
    BY <2>1, <2>3 DEF RunIsClean, AllUsersCopied
  <2> QED
    BY <2>1, <2>2, <2>3, <2>4, <2>5, <2>6, <2>7
       DEF EmptyTarget, UsersFirst, RunIsClean, CompletedIsComplete
<1>4. CASE ReadMax
  <2>1. run.at = "copying" /\ run.step = Len(Tables) + 1
    BY <1>4 DEF ReadMax, Last
  <2>2. run'.at = "copying" /\ run'.step = run.step + 1
    BY <1>4 DEF ReadMax
  <2>3. UNCHANGED <<oldUsers, oldTables, users, copies, overlap>> /\ Taken' = Taken
    BY <1>4 DEF ReadMax, source, Taken
  <2>4. \A k \in DOMAIN Tables : k < run.step /\ k < run.step + 1
    BY <2>1
  <2> QED
    BY <2>1, <2>2, <2>3, <2>4
       DEF EmptyTarget, UsersFirst, RunIsClean, CompletedIsComplete, AllUsersCopied, Rows
<1>5. CASE SetSequences
  <2>1. run.at = "copying" /\ run.step = Len(Tables) + 2 /\ run'.at # "copying"
    BY <1>5 DEF SetSequences, Last, Stopped
  <2>2. UNCHANGED <<oldUsers, oldTables, users, copies, overlap>> /\ Taken' = Taken
    BY <1>5 DEF SetSequences, source, Taken
  <2>3. ~overlap => /\ AllUsersCopied
                    /\ \A k \in DOMAIN Tables : copies[Tables[k]] = Rows(Tables[k])
    BY <2>1 DEF RunIsClean
  <2>4. ~overlap => \A t \in Copied : copies[t] = Rows(t)
    BY <2>3 DEF Copied
  <2> QED
    BY <2>1, <2>2, <2>3, <2>4
       DEF EmptyTarget, UsersFirst, RunIsClean, CompletedIsComplete, AllUsersCopied, Rows
<1>6. CASE Aborts
  BY <1>6 DEF Aborts, Stopped, EmptyTarget, UsersFirst, RunIsClean, CompletedIsComplete, Taken
<1>7. CASE Inserts
  BY <1>7 DEF Inserts, source, EmptyTarget, UsersFirst, RunIsClean, CompletedIsComplete, Taken,
              AllUsersCopied, Rows
<1>8. ASSUME NEW i \in Ids, Commits(i)
      PROVE  EmptyTarget' /\ UsersFirst' /\ RunIsClean' /\ CompletedIsComplete'
  <2>1. UNCHANGED <<oldUsers, oldTables, copies, run>>
    BY <1>8 DEF Commits, source
  <2>2. overlap' = (overlap \/ run.at = "copying")
    BY <1>8 DEF Commits
  <2>3. Taken \subseteq Taken' /\ \A j \in Ids : users[j] = "old" => users'[j] = "old"
    BY <1>8 DEF Commits, Taken
  <2>4. EmptyTarget' /\ UsersFirst'
    BY <2>1, <2>3 DEF EmptyTarget, UsersFirst
  <2>5. RunIsClean'
    BY <2>1, <2>2 DEF RunIsClean
  <2>6. CompletedIsComplete'
    BY <2>1, <2>2, <2>3 DEF CompletedIsComplete
  <2> QED  BY <2>4, <2>5, <2>6
<1>9. ASSUME NEW i \in Ids, Fails(i)
      PROVE  EmptyTarget' /\ UsersFirst' /\ RunIsClean' /\ CompletedIsComplete'
  BY <1>9 DEF Fails, source, EmptyTarget, UsersFirst, RunIsClean, CompletedIsComplete, Taken,
              AllUsersCopied, Rows
<1>10. CASE UNCHANGED migrationVars
  BY <1>10 DEF migrationVars, EmptyTarget, UsersFirst, RunIsClean, CompletedIsComplete, Taken,
               AllUsersCopied, Rows
<1> QED  BY <1>1, <1>2, <1>3, <1>4, <1>5, <1>6, <1>7, <1>8, <1>9, <1>10 DEF MigrationNext

\* A run that reports a complete migration has copied every account and every
\* table exactly once, whatever stopped before it, for any tables and any
\* number of runs (an application that stays away, an account in the source).
THEOREM CompleteMigration == MigrationSpec => []CompletedIsComplete
<1>1. MigrationInit => CopyInv /\ CompletedIsComplete
  BY DEF MigrationInit, CopyInv, EmptyTarget, UsersFirst, RunIsClean, CompletedIsComplete, Stopped
<1>2. (oldUsers # {} => CompletedIsComplete) => CompletedIsComplete
  BY DEF CompletedIsComplete
<1> QED  BY <1>1, <1>2, StartTypes, RunsKeepTypes, CopyInvInductive, PTL DEF MigrationSpec
=============================================================================
