------------------------------- MODULE Client -------------------------------
(***************************************************************************)
(* The state machine of frontend/src/App.jsx: chat requests, the clear     *)
(* buttons and the full reset they add up to, logging in and out, and the  *)
(* playback of voice replies, over a server that carries out a request     *)
(* whenever it likes, if the client has given up on it or not.             *)
(*                                                                         *)
(* A chat stands for its turn: on the server in the history, by the memory *)
(* it leaves in the facts; in the client in the messages and memories      *)
(* shown.  A login is that of any user of the browser, of the one who has  *)
(* just logged out as well.                                                *)
(***************************************************************************)
EXTENDS Naturals

CONSTANTS
    Chats,      \* messages sent, each answered by voice
    Clicks,     \* uses of a clear button
    Users,
    None,
    MaxLogins   \* bound: logins after the first session

ASSUME NobodyAssumption == None \notin Users

VARIABLES
    user, authed, logins, epoch,
    chat,     \* sendToApi of each chat: [at, user, epoch]
    served,   \* the server's side of it: "none", "pending", "stored"
    carried,  \* the memories its response carries
    click,    \* the handler of each click: [at, kind, awaits]
    posted,   \* the clear request it has made, until it is carried out
    done,     \* clicks whose clear request the server has carried out
    cleared,  \* clearedSectionsRef
    clearing, resetting, \* the two in-flight flags
    history, facts,      \* the server's tables
    messages, memories,  \* shown
    load,     \* fetchInitialData: [at, epoch, messages, memories]
    fetching, \* chats whose audio is being fetched
    playing,  \* chats whose audio plays
    current,  \* audioRef
    gaveUp,   \* history: chats the client stopped waiting for before they were stored
    stale,    \* history: chats whose fetch was in flight at a stop, and those
              \* whose element lost audioRef to such a one
    crossed,  \* history: a session ended with a chat in flight
    orphans,  \* history: clears whose session ended, or whose flag was released,
              \* before they did
    inherited,\* history: "conversation" is in cleared on the word of an orphan or
              \* of an earlier session
    erased,   \* history: chats whose clear was answered, but to an orphan
    stray     \* history: a clear deleted messages for an orphan, or after its
              \* handler had ended

Sections == {"conversation", "memory"}
Kinds == Sections \cup {"none", "all"}

server == <<served, carried, history, facts, posted, done>>
shown == <<messages, memories>>
audio == <<fetching, playing, current, stale>>
flags == <<cleared, clearing, resetting>>
who == <<user, authed, logins>>
past == <<gaveUp, crossed, orphans, inherited, erased, stray>>
vars == <<who, epoch, chat, server, click, flags, shown, load, audio, past>>

NoLoad == [at |-> "none", epoch |-> 0, messages |-> {}, memories |-> {}]
Unclicked == [at |-> "idle", kind |-> "none", awaits |-> {}]
Over == [Unclicked EXCEPT !.at = "over"]
NoPost == [user |-> None, kind |-> "none"]
Loading(e) == [NoLoad EXCEPT !.at = "sent", !.epoch = e]

Init ==
    /\ user \in Users /\ authed = TRUE /\ logins = 0 /\ epoch = 0
    /\ chat = [c \in Chats |-> [at |-> "none", user |-> None, epoch |-> 0]]
    /\ served = [c \in Chats |-> "none"] /\ carried = [c \in Chats |-> {}]
    /\ click = [k \in Clicks |-> Unclicked]
    /\ posted = [k \in Clicks |-> NoPost] /\ done = {}
    /\ cleared = {} /\ clearing = FALSE /\ resetting = FALSE
    /\ history = {} /\ facts = {} /\ messages = {} /\ memories = {}
    /\ load = NoLoad
    /\ fetching = {} /\ playing = {} /\ current = None
    /\ gaveUp = {} /\ stale = {} /\ crossed = FALSE
    /\ orphans = {} /\ inherited = FALSE /\ erased = {} /\ stray = FALSE

Of(u) == {c \in Chats : chat[c].user = u}
Active == {c \in Chats : chat[c].at = "sent"}

-----------------------------------------------------------------------------
(***************************************************************************)
(* Playback.                                                               *)
(***************************************************************************)
\* stopResponsePlayback: what audioRef holds is released; a fetch goes on.
Stops(next) ==
    /\ playing' = playing \ {current}
    /\ current' = None
    /\ stale' = stale \cup fetching
    /\ fetching' = fetching \cup next

\* Mutant: a newer reply does not stop the playback of the one before.
Fetches_Unstopped(c) == fetching' = fetching \cup {c} /\ UNCHANGED <<playing, current, stale>>

\* playAudio, up to its await.
Fetches(c) == Stops({c})

\* ... and from there on: the token is not looked at again.
Fetched(c) ==
    /\ c \in fetching
    /\ fetching' = fetching \ {c}
    /\ \/ /\ playing' = playing \cup {c} /\ current' = c
          /\ stale' = IF c \in stale THEN stale \cup playing ELSE stale
       \/ UNCHANGED <<playing, current, stale>>
    /\ UNCHANGED <<who, epoch, chat, server, click, flags, shown, load, past>>

Ends(c) ==
    /\ c \in playing
    /\ playing' = playing \ {c}
    /\ current' = IF current = c THEN None ELSE current
    /\ UNCHANGED <<fetching, stale, who, epoch, chat, server, click, flags, shown, load, past>>

\* The tab is hidden, or a recording begins.
Silences ==
    /\ playing \cup fetching # {}
    /\ Stops({})
    /\ UNCHANGED <<who, epoch, chat, server, click, flags, shown, load, past>>

-----------------------------------------------------------------------------
(***************************************************************************)
(* Chats: sendMessage, sendVoiceMessage and sendToApi.                     *)
(***************************************************************************)
\* Mutant: a message is sent while a clear is under way.
MaySend_Clearing == authed /\ ~resetting

MaySend == authed /\ ~clearing /\ ~resetting

Send(c) ==
    /\ chat[c].at = "none" /\ MaySend
    /\ chat' = [chat EXCEPT ![c] = [at |-> "sent", user |-> user, epoch |-> epoch]]
    /\ served' = [served EXCEPT ![c] = "pending"]
    /\ cleared' = {} /\ inherited' = FALSE
    /\ Stops({})
    /\ messages' = messages \cup {c}
    /\ UNCHANGED <<carried, history, facts, posted, done, who, epoch, click, clearing, resetting,
                   memories, load, gaveUp, crossed, orphans, erased, stray>>

\* The server answers with the memories as they are by then.
Serve(c) ==
    /\ served[c] = "pending"
    /\ served' = [served EXCEPT ![c] = "stored"]
    /\ history' = history \cup {c}
    /\ facts' = facts \cup {c}
    /\ carried' = [carried EXCEPT ![c] = IF chat[c].at = "sent" THEN facts' \cap Of(chat[c].user) ELSE {}]
    /\ UNCHANGED <<posted, done, who, epoch, chat, click, flags, shown, load, audio, past>>

IsOurs(c) == chat[c].epoch = epoch

Reply(c) ==
    /\ chat[c].at = "sent" /\ served[c] = "stored"
    /\ chat' = [chat EXCEPT ![c].at = "done"]
    /\ carried' = [carried EXCEPT ![c] = {}]
    /\ IF IsOurs(c)
       THEN messages' = messages \cup {c} /\ memories' = carried[c] /\ Fetches(c)
       ELSE UNCHANGED <<shown, audio>>
    /\ UNCHANGED <<served, history, facts, posted, done, who, epoch, click, flags, load, past>>

\* An error, or CHAT_REQUEST_TIMEOUT_MS.
ReplyFails(c) ==
    /\ chat[c].at = "sent"
    /\ chat' = [chat EXCEPT ![c].at = "done"]
    /\ carried' = [carried EXCEPT ![c] = {}]
    /\ gaveUp' = IF served[c] = "pending" THEN gaveUp \cup {c} ELSE gaveUp
    /\ UNCHANGED <<served, history, facts, posted, done, who, epoch, click, flags, shown, load, audio, crossed,
                   orphans, inherited, erased, stray>>

-----------------------------------------------------------------------------
(***************************************************************************)
(* The clear buttons.                                                      *)
(***************************************************************************)
MayClear(k) == authed /\ click[k].at = "idle" /\ ~clearing /\ ~resetting

\* Mutant: the clear does not wait for the chats in flight.
Awaits_Nothing == {}

Awaits == Active

\* handleClearChat, up to its await.
ClearChat(k) ==
    /\ MayClear(k)
    /\ click' = [click EXCEPT ![k] = [at |-> "wait", kind |-> "conversation", awaits |-> Awaits]]
    /\ clearing' = TRUE /\ epoch' = epoch + 1
    /\ messages' = {}
    /\ Stops({})
    /\ UNCHANGED <<server, who, chat, cleared, resetting, memories, load, past>>

\* handleClearMemories: no flag, no epoch, and nothing to wait for.
ClearMemories(k) ==
    /\ MayClear(k)
    /\ click' = [click EXCEPT ![k] = [at |-> "wait", kind |-> "memory", awaits |-> {}]]
    /\ UNCHANGED <<server, who, epoch, chat, flags, shown, load, audio, past>>

\* postClearRequest, with the cookie of whoever is logged in by now.
Post(k) ==
    /\ click[k].at = "wait" /\ click[k].awaits \cap Active = {}
    /\ click' = [click EXCEPT ![k] = [@ EXCEPT !.at = "post", !.awaits = {}]]
    /\ posted' = IF authed THEN [posted EXCEPT ![k] = [user |-> user, kind |-> click[k].kind]]
                 ELSE posted
    /\ UNCHANGED <<served, carried, history, facts, done, who, epoch, chat, flags, shown, load, audio, past>>

Execute(k) ==
    /\ posted[k] # NoPost
    /\ posted' = [posted EXCEPT ![k] = NoPost]
    /\ done' = IF click[k].at = "post" THEN done \cup {k} ELSE done
    /\ history' = IF posted[k].kind = "memory" THEN history ELSE history \ Of(posted[k].user)
    /\ facts' = IF posted[k].kind = "conversation" THEN facts ELSE facts \ Of(posted[k].user)
    /\ stray' = (stray \/ (posted[k].kind # "memory" /\ (click[k].at # "post" \/ k \in orphans)))
    /\ UNCHANGED <<served, carried, who, epoch, chat, click, flags, shown, load, audio, gaveUp, crossed,
                   orphans, inherited, erased>>

\* k is a clear of the conversation, or the full reset, under way.
Underway(k) == click[k].at \in {"wait", "post"}
Clearing(k) == Underway(k) /\ click[k].kind = "conversation"

\* The clears of the conversation that lose their flag when k releases it.
Overtaken(k) ==
    IF click[k].kind = "conversation" THEN {q \in Clicks \ {k} : Clearing(q)} ELSE {}

\* What the client now believes to be gone.
Erases(k) == IF click[k].kind = "memory" \/ k \in orphans THEN {} ELSE Of(user)

\* Mutant: the flag of a failed clear is not released.
StaysClearing_Failed(k) == clearing

\* The finally of handleClearChat.
StaysClearing(k) == clearing /\ click[k].kind # "conversation"

\* The request of k was answered; the sections cleared by then.
Answered(k) == click[k].at = "post" /\ k \in done /\ done' = done \ {k}
Noted(k) == cleared \cup {click[k].kind}

\* noteClearedSection of the first section, or while a reset is under way.
NoteClearedSection(k) ==
    /\ Answered(k) /\ click[k].kind \in Sections
    /\ Noted(k) # Sections \/ resetting
    /\ cleared' = Noted(k) /\ clearing' = StaysClearing(k)
    /\ inherited' = IF click[k].kind = "memory" THEN inherited ELSE k \in orphans
    /\ memories' = IF click[k].kind = "memory" THEN {} ELSE memories
    /\ click' = [click EXCEPT ![k] = Over]
    /\ orphans' = orphans \cup Overtaken(k)
    /\ erased' = erased \cup Erases(k)
    /\ UNCHANGED <<served, carried, history, facts, posted, who, epoch, chat, resetting, messages,
                   load, audio, gaveUp, crossed, stray>>

\* noteClearedSection of the second one: performFullReset, up to its await.
FullReset(k) ==
    /\ Answered(k) /\ click[k].kind \in Sections
    /\ Noted(k) = Sections /\ ~resetting
    /\ cleared' = Sections /\ clearing' = FALSE /\ resetting' = TRUE /\ epoch' = epoch + 1
    /\ messages' = {} /\ memories' = {}
    /\ Stops({})
    /\ load' = IF authed THEN Loading(epoch') ELSE load
    /\ click' = [click EXCEPT ![k] = [at |-> "wait", kind |-> "all", awaits |-> Awaits]]
    /\ orphans' = orphans \cup {q \in Clicks \ {k} : Clearing(q)}
                  \cup (IF click[k].kind = "memory" /\ inherited THEN {k} ELSE {})
    /\ inherited' = (k \in orphans')
    /\ erased' = erased \cup Erases(k)
    /\ UNCHANGED <<served, carried, history, facts, posted, who, chat, gaveUp, crossed, stray>>

\* ... and its end.
ResetEnds(k) ==
    /\ Answered(k) /\ click[k].kind = "all"
    /\ cleared' = {} /\ resetting' = FALSE /\ inherited' = FALSE
    /\ click' = [click EXCEPT ![k] = Over]
    /\ erased' = erased \cup Erases(k)
    /\ UNCHANGED <<served, carried, history, facts, posted, who, epoch, chat, clearing, shown,
                   load, audio, gaveUp, crossed, orphans, stray>>

\* An error, a 401, or CLEAR_REQUEST_TIMEOUT_MS: the request may yet be
\* carried out.
PostFails(k) ==
    /\ click[k].at = "post"
    /\ click' = [click EXCEPT ![k] = Over]
    /\ clearing' = StaysClearing(k)
    /\ IF click[k].kind = "all"
       THEN cleared' = Sections /\ resetting' = FALSE /\ inherited' = (k \in orphans)
       ELSE UNCHANGED <<cleared, resetting, inherited>>
    /\ orphans' = orphans \cup Overtaken(k)
    /\ done' = done \ {k}
    /\ UNCHANGED <<served, carried, history, facts, posted, who, epoch, chat, shown, load, audio,
                   gaveUp, crossed, erased, stray>>

-----------------------------------------------------------------------------
(***************************************************************************)
(* Sessions: login with its initial load, and handleLogout or a 401.       *)
(***************************************************************************)
Login ==
    /\ ~authed /\ logins < MaxLogins
    /\ authed' = TRUE /\ user' \in Users /\ logins' = logins + 1
    /\ load' = Loading(epoch)
    /\ UNCHANGED <<epoch, chat, server, click, flags, shown, audio, past>>

\* The epoch stays, and so do the flags and whatever is in flight.
Logout ==
    /\ authed
    /\ authed' = FALSE
    /\ messages' = {} /\ memories' = {} /\ load' = NoLoad
    /\ Stops({})
    /\ crossed' = (crossed \/ Active # {})
    /\ orphans' = orphans \cup {k \in Clicks : Underway(k)}
    /\ inherited' = ("conversation" \in cleared)
    /\ UNCHANGED <<user, logins, epoch, chat, server, click, flags, gaveUp, erased, stray>>

\* A GET that fails counts as an empty answer.
LoadRead ==
    /\ load.at = "sent"
    /\ \E m \in {{}, history \cap Of(user)}, f \in {{}, facts \cap Of(user)} :
          load' = [load EXCEPT !.at = "read", !.messages = m, !.memories = f]
    /\ UNCHANGED <<who, epoch, chat, server, click, flags, shown, audio, past>>

LoadArrives ==
    /\ load.at = "read"
    /\ load' = NoLoad
    /\ IF load.epoch = epoch
       THEN messages' = load.messages /\ memories' = load.memories
       ELSE UNCHANGED shown
    /\ UNCHANGED <<who, epoch, chat, server, click, flags, audio, past>>

Next ==
    \/ \E c \in Chats : Send(c) \/ Serve(c) \/ Reply(c) \/ ReplyFails(c) \/ Fetched(c) \/ Ends(c)
    \/ \E k \in Clicks : \/ ClearChat(k) \/ ClearMemories(k)
                         \/ Post(k) \/ Execute(k) \/ NoteClearedSection(k)
                         \/ FullReset(k) \/ ResetEnds(k) \/ PostFails(k)
    \/ Silences \/ Login \/ Logout \/ LoadRead \/ LoadArrives

Spec == Init /\ [][Next]_vars

-----------------------------------------------------------------------------
Click == [at : {"idle", "wait", "post", "over"}, kind : Kinds, awaits : SUBSET Chats]
Load == [at : {"none", "sent", "read"}, epoch : Nat, messages : SUBSET Chats, memories : SUBSET Chats]

TypeOK ==
    /\ user \in Users /\ authed \in BOOLEAN /\ logins \in Nat /\ epoch \in Nat
    /\ chat \in [Chats -> [at : {"none", "sent", "done"}, user : Users \cup {None}, epoch : Nat]]
    /\ served \in [Chats -> {"none", "pending", "stored"}] /\ carried \in [Chats -> SUBSET Chats]
    /\ click \in [Clicks -> Click]
    /\ posted \in [Clicks -> [user : Users \cup {None}, kind : Kinds]]
    /\ done \subseteq Clicks /\ cleared \subseteq Sections
    /\ clearing \in BOOLEAN /\ resetting \in BOOLEAN
    /\ crossed \in BOOLEAN /\ stray \in BOOLEAN /\ inherited \in BOOLEAN
    /\ orphans \subseteq Clicks /\ erased \subseteq Chats
    /\ history \subseteq Chats /\ facts \subseteq Chats
    /\ messages \subseteq Chats /\ memories \subseteq Chats
    /\ load \in Load
    /\ fetching \subseteq Chats /\ playing \subseteq Chats /\ stale \subseteq Chats
    /\ current \in Chats \cup {None} /\ gaveUp \subseteq Chats

\* What a clear was reported to have erased is gone for good on both sides: the
\* server does not store it again and no late reply and no load shows it,
\* although chats were in flight at the click.  Only a chat that the client gave
\* up on may be stored after the clear and then be found by a load (742, 396,
\* 872-877).  It is said of clears that keep their session and their flag: the
\* others, and a reset that counts the clear of an earlier session, may show
\* what they erase (387-396, 810, 828, 876-877).
ClearedIsGone == erased \cap (messages \cup history) \subseteq gaveUp

\* What is shown is stored or on its way: no clear of the client's removes a
\* turn from the server that it goes on showing, but one that outlives its
\* handler, its session or its flag (646-653, 671-679, 810, 857-884).
ShownIsStored == ~stray => messages \subseteq history \cup gaveUp \cup Active

\* The one voice that is heard is that of the newest reply, to this user
\* and of this epoch: a stop, a clear, a newer reply or a logout silences the others.
\* An audio still being fetched at that moment escapes, and frees the one it
\* supplants (535-592).
OneVoice ==
    \A c \in playing \ stale : c = current /\ chat[c].epoch = epoch /\ (~crossed => chat[c].user = user)

\* The state is of its type, and neither flag outlives the handler that is to
\* release it, which waits only for chats that end by their timeout: no failed
\* clear, late answer or second clear leaves the client refusing messages for
\* good (790-792, 825-834, 881-884).
FlagsAreHeld ==
    /\ TypeOK
    /\ clearing => \E k \in Clicks : click[k].kind = "conversation" /\ click[k].at \in {"wait", "post"}
    /\ resetting => \E k \in Clicks : click[k].kind = "all" /\ click[k].at \in {"wait", "post"}
=============================================================================
