------------------------------ MODULE Screens ------------------------------
(***************************************************************************)
(* The terminal user interface (tui/dashboard.py, screens.py, modals.py): a *)
(* stack of screens over the dashboard, tables that are filled again by    *)
(* timers and events while offers, pairings and connections come and go on  *)
(* other threads, and the keys of a user, which act on the row or device a  *)
(* screen has at the moment the key arrives.                                *)
(***************************************************************************)
EXTENDS Naturals, Sequences, SequencesExt

CONSTANTS
  Offers,    \* transfer ids that are offered to this user
  Contacts,   \* the other devices
  ByName,    \* the devices in the order of the names in the address book
  MaxStack,  \* bound: screens on top of each other
  MaxNews,   \* bound: what other threads do
  MaxKeys    \* bound: what the user does

NoOne == "none"

ASSUME ScreensAssumption ==
  /\ ByName \in Seq(Contacts) /\ NoOne \notin Offers \cup Contacts
  /\ MaxStack \in Nat \ {0} /\ MaxNews \in Nat /\ MaxKeys \in Nat

VARIABLES
  core,      \* the service: pending offers and pairings, newest first; the book
  paired,    \* devices this program has connected to: _outbound_pairings
  stack,     \* the screens; the first is the dashboard with its table of peers
  selected,  \* _selected_device
  events,    \* events of other threads that wait for the user interface
  dialing,   \* connections that worker threads are making
  answers,   \* what they found, waiting for the user interface
  running,   \* no exception has ended the program
  did,       \* history: the last decision of the user
  news, keys \* bounds

behindVars == <<paired, events, dialing, answers>>
screenVars == <<core, stack, selected, behindVars, running, did, news, keys>>

Key(kind, id) == [kind |-> kind, id |-> id]
NoKey == Key("none", NoOne)
Offered == {Key("offer", o) : o \in Offers}
Waiting == {Key("pairing", d) : d \in Contacts}
Known == {Key("device", d) : d \in Contacts}
RowKey == Offered \cup Waiting \cup Known

\* A screen: a table with its rows, its cursor, the row the user has put the
\* cursor on and the offer described below it, or a dialog about a device.
Screen(kind, device) ==
  [kind |-> kind, rows |-> <<>>, cursor |-> 1, picked |-> NoKey,
   detail |-> NoKey, device |-> device]

Tables == {"peers", "inbox", "trusted"}
Modal == {"connect", "send", "trust"}

ScreenState ==
  [kind : Tables \cup Modal, rows : Seq(RowKey), cursor : Nat \ {0},
   picked : RowKey \cup {NoKey}, detail : Offered \cup {NoKey},
   device : Contacts \cup {NoOne}]

Nothing == [act |-> "none", key |-> NoKey, wanted |-> NoKey, shown |-> NoKey]

ScreensTypeOK ==
  /\ core \in [pending : Seq(Offers), pairings : Seq(Contacts), book : SUBSET Contacts]
  /\ paired \in SUBSET Contacts /\ stack \in Seq(ScreenState) /\ stack # <<>>
  /\ Len(stack) \in 1..MaxStack /\ selected \in Contacts \cup {NoOne}
  /\ events \in SUBSET {"inbox", "trusted"} /\ dialing \in 0..MaxKeys
  /\ answers \in SUBSET [device : Contacts, trusted : BOOLEAN]
  /\ running \in BOOLEAN
  /\ did \in [act : {"none", "decide", "trust", "dismiss", "forget", "send"},
              key : RowKey \cup {NoKey}, wanted : RowKey \cup {NoKey},
              shown : RowKey \cup {NoKey}]
  /\ news \in 0..MaxNews /\ keys \in 0..MaxKeys

ScreensInit ==
  /\ core = [pending |-> <<>>, pairings |-> <<>>, book |-> {}] /\ paired = {}
  /\ stack = <<Screen("peers", NoOne)>> /\ selected = NoOne
  /\ events = {} /\ dialing = 0 /\ answers = {} /\ running = TRUE /\ did = Nothing
  /\ news = 0 /\ keys = 0

-----------------------------------------------------------------------------
(* Tables *)

KeysOf(kind, s) == [i \in DOMAIN s |-> Key(kind, s[i])]

Entries(c) == KeysOf("device", SelectSeq(ByName, LAMBDA d : d \in c.book))

RowsOf(kind, c) ==
  CASE kind = "inbox" -> KeysOf("offer", c.pending)
    [] kind = "trusted" -> KeysOf("pairing", c.pairings) \o Entries(c)
    [] OTHER -> Entries(c)

\* The row under the cursor of a table.
Current(s) == IF s.rows = <<>> THEN NoKey ELSE s.rows[s.cursor]

\* _show_selected: the request of the row, while it is pending.
Detail(s, c) ==
  IF s.kind = "inbox" /\ Current(s).id \in ToSet(c.pending)
  THEN Current(s) ELSE NoKey

Described(s, c) == [s EXCEPT !.detail = Detail(s, c)]

Without(s, x) == SelectSeq(s, LAMBDA y : y # x)

\* Where the cursor is once a table of n rows has been cleared and filled: it is
\* put back to the row of the same number, but not in the inbox.
CursorAfter(s, n) ==
  IF s.kind = "inbox" \/ n = 0 THEN 1 ELSE IF s.cursor > n THEN n ELSE s.cursor

Reshown(s, c) == Described(s, c)

\* refresh_rows and refresh_data
Refilled(s, c) ==
  LET rows == RowsOf(s.kind, c)
  IN IF s.kind \in Tables
     THEN Reshown([s EXCEPT !.rows = rows, !.cursor = CursorAfter(s, Len(rows))], c)
     ELSE s

Top == stack[Len(stack)]
Under == SubSeq(stack, 1, Len(stack) - 1)
WithTop(s) == Append(Under, s)

-----------------------------------------------------------------------------
(* Other threads *)

Others == running /\ news < MaxNews /\ news' = news + 1
NoKeys == UNCHANGED <<running, did, keys>>

\* A session publishes an offer, then the event that shows it.
Arrives(o) ==
  /\ Others /\ o \notin ToSet(core.pending)
  /\ core' = [core EXCEPT !.pending = <<o>> \o @]
  /\ events' = events \cup {"inbox"}
  /\ NoKeys /\ UNCHANGED <<stack, selected, paired, dialing, answers>>

\* It expires, or its sender takes it back.
Leaves(o) ==
  /\ Others /\ o \in ToSet(core.pending)
  /\ core' = [core EXCEPT !.pending = Without(@, o)]
  /\ NoKeys /\ UNCHANGED <<stack, selected, behindVars>>

\* A device introduces itself, perhaps once more.
Introduces(d) ==
  /\ Others
  /\ core' = [core EXCEPT !.pairings = <<d>> \o Without(@, d)]
  /\ events' = events \cup {"trusted"}
  /\ NoKeys /\ UNCHANGED <<stack, selected, paired, dialing, answers>>

IntroductionExpires(d) ==
  /\ Others /\ d \in ToSet(core.pairings)
  /\ core' = [core EXCEPT !.pairings = Without(@, d)]
  /\ NoKeys /\ UNCHANGED <<stack, selected, behindVars>>

\* A worker has paired with whoever answered and, if that device is trusted,
\* completed the handshake; or it has failed.
Answers(d) ==
  /\ running /\ dialing > 0 /\ dialing' = dialing - 1
  /\ \/ /\ paired' = paired \cup {d}
        /\ answers' = answers \cup {[device |-> d, trusted |-> d \in core.book]}
     \/ UNCHANGED <<paired, answers>>
  /\ NoKeys /\ UNCHANGED <<core, stack, selected, events, news>>

-----------------------------------------------------------------------------
(* The thread of the user interface, without the user *)

\* _apply_core_event: the screen on top is filled again if it is concerned.
Show(e) ==
  /\ running /\ e \in events /\ events' = events \ {e}
  /\ stack' = IF Top.kind = e THEN WithTop(Refilled(Top, core)) ELSE stack
  /\ NoKeys /\ UNCHANGED <<core, selected, paired, dialing, answers, news>>

\* Mutant of FilledByTimer: only what is on top is filled.
FilledIfPeers(s, kind) == IF s.kind = "peers" THEN Refilled(s, core) ELSE s

FilledByTimer(s, kind) == IF s.kind = kind THEN Refilled(s, core) ELSE s

\* The timer of every screen that is open.
Tick(kind) ==
  /\ running
  /\ stack' = [i \in DOMAIN stack |-> FilledByTimer(stack[i], kind)]
  /\ NoKeys /\ UNCHANGED <<core, selected, behindVars, news>>

Dashboard(st, c) == [st EXCEPT ![1] = Refilled(@, c)]

\* _connected, or _ask_trust on top of whatever is open.
Connected(r) ==
  /\ running /\ r \in answers /\ answers' = answers \ {r}
  /\ IF r.trusted
     THEN selected' = r.device /\ stack' = Dashboard(stack, core)
     ELSE /\ Len(stack) < MaxStack /\ UNCHANGED selected
          /\ stack' = Append(stack, Screen("trust", r.device))
  /\ NoKeys /\ UNCHANGED <<core, paired, events, dialing, news>>

-----------------------------------------------------------------------------
(* The user *)

Press == running /\ keys < MaxKeys /\ keys' = keys + 1 /\ UNCHANGED news

Decided(act, wanted, key) ==
  did' = [act |-> act, key |-> key, wanted |-> wanted, shown |-> Top.detail]

\* The cursor is put on a row.
MoveCursor(n) ==
  /\ Press /\ n \in DOMAIN Top.rows
  /\ stack' = WithTop(Described([Top EXCEPT !.cursor = n, !.picked = Top.rows[n]], core))
  /\ UNCHANGED <<core, selected, behindVars, running, did>>

\* The keys of the application work unless a dialog is open.
Open(kind) ==
  /\ Press /\ Top.kind \notin Modal /\ Len(stack) < MaxStack
  /\ stack' = Append(stack, Refilled(Screen(kind, NoOne), core))
  /\ UNCHANGED <<core, selected, behindVars, running, did>>

\* A screen is left, a dialog cancelled, a path entered that is not a file.
Leave ==
  /\ Press /\ Len(stack) > 1 /\ stack' = Under
  /\ UNCHANGED <<core, selected, behindVars, running, did>>

Connect ==
  /\ Press /\ Top.kind = "connect" /\ stack' = Under
  /\ dialing' = dialing + 1
  /\ UNCHANGED <<core, selected, paired, events, answers, running, did>>

\* Keys that decide on a row leave the screen open with its rows filled again.
Again(c) == WithTop([Refilled(Top, c) EXCEPT !.picked = NoKey])

\* action_accept and action_reject: an offer that is no longer pending is left.
Decide ==
  /\ Press /\ Top.kind = "inbox" /\ Current(Top).id \in ToSet(core.pending)
  /\ core' = [core EXCEPT !.pending = Without(@, Current(Top).id)]
  /\ stack' = Again(core') /\ Decided("decide", Top.picked, Current(Top))
  /\ UNCHANGED <<selected, behindVars, running>>

Trusting(d) ==
  [core EXCEPT !.book = @ \cup {d}, !.pairings = Without(@, d)]

\* Mutant of RowKeyOf: the row of this number in what the service has now.
RowKeyNow(s) ==
  LET rows == RowsOf(s.kind, core)
  IN IF s.cursor \in DOMAIN rows THEN rows[s.cursor] ELSE NoKey

RowKeyOf(s) == Current(s)

\* action_approve: trust raises KeyError for a pairing nobody knows any more.
Approve ==
  /\ Press /\ Top.kind = "trusted" /\ RowKeyOf(Top) \in Waiting
  /\ LET d == RowKeyOf(Top).id IN
       /\ Decided("trust", Top.picked, RowKeyOf(Top))
       /\ IF d \in paired \cup ToSet(core.pairings)
          THEN /\ core' = Trusting(d) /\ UNCHANGED running
               /\ stack' = Dashboard(Again(core'), core')
          ELSE running' = FALSE /\ UNCHANGED <<core, stack>>
  /\ UNCHANGED <<selected, behindVars>>

DismissPairing ==
  /\ Press /\ Top.kind = "trusted" /\ Current(Top) \in Waiting
  /\ Current(Top).id \in ToSet(core.pairings)
  /\ core' = [core EXCEPT !.pairings = Without(@, Current(Top).id)]
  /\ stack' = Dashboard(Again(core'), core')
  /\ Decided("dismiss", Top.picked, Current(Top))
  /\ UNCHANGED <<selected, behindVars, running>>

\* PeerStateChanged, which the service publishes on the caller's thread.
Republished(st, c) == Dashboard(st, c)

ForgetDevice ==
  /\ Press /\ Top.kind = "trusted" /\ Current(Top) \in Known
  /\ Current(Top).id \in core.book
  /\ core' = [core EXCEPT !.book = @ \ {Current(Top).id}]
  /\ stack' = Republished(Again(core'), core')
  /\ Decided("forget", Top.picked, Current(Top))
  /\ UNCHANGED <<selected, behindVars, running>>

\* _finish_trust: what the dialog was opened with is trusted.
FinishTrust ==
  /\ Press /\ Top.kind = "trust"
  /\ core' = Trusting(Top.device)
  /\ \E below \in {Under[Len(Under)], Refilled(Under[Len(Under)], core')} :
       stack' = Dashboard([Under EXCEPT ![Len(Under)] = below], core')
  /\ Decided("trust", Key("pairing", Top.device), Key("pairing", Top.device))
  /\ UNCHANGED <<selected, behindVars, running>>

\* action_send: the row under the cursor of the dashboard, whatever is on top.
AskFile ==
  /\ Press /\ Top.kind \notin Modal /\ Len(stack) < MaxStack
  /\ selected' = IF stack[1].rows = <<>> THEN selected ELSE Current(stack[1]).id
  /\ selected' # NoOne /\ stack' = Append(stack, Screen("send", selected'))
  /\ UNCHANGED <<core, behindVars, running, did>>

\* _send: send_files connects first, and what it raises ends the program.
Send ==
  /\ Press /\ Top.kind = "send" /\ stack' = Under
  /\ Decided("send", Key("device", Top.device), Key("device", selected))
  /\ \/ selected \in core.book /\ paired' = paired \cup {selected} /\ UNCHANGED running
     \/ running' = FALSE /\ UNCHANGED paired
  /\ UNCHANGED <<core, selected, events, dialing, answers>>

-----------------------------------------------------------------------------
ScreensNext ==
  \/ \E o \in Offers : Arrives(o) \/ Leaves(o)
  \/ \E d \in Contacts : Introduces(d) \/ IntroductionExpires(d) \/ Answers(d)
  \/ \E e \in {"inbox", "trusted"} : Show(e)
  \/ \E kind \in Tables : Tick(kind)
  \/ \E r \in answers : Connected(r)
  \/ \E n \in DOMAIN Top.rows : MoveCursor(n)
  \/ \E kind \in {"inbox", "trusted", "connect"} : Open(kind)
  \/ Leave \/ Connect \/ Decide \/ Approve \/ DismissPairing \/ ForgetDevice \/ FinishTrust
  \/ AskFile \/ Send

ScreensSpec == ScreensInit /\ [][ScreensNext]_screenVars

\* The timers of open screens go on.
FairScreensSpec == ScreensSpec /\ \A kind \in Tables : WF_screenVars(Tick(kind))

-----------------------------------------------------------------------------
(* Properties *)

\* A key acts on what the user is shown.  The offer that is decided is the one
\* whose files are described below the table, however often the table has been
\* filled again; a device becomes trusted only by a key, on a screen that shows
\* this device and its fingerprint, also when several dialogs have been opened by
\* connections that ended meanwhile ("Trust is never automatic").
ActsOnWhatIsShown ==
  /\ [](did.act = "decide" => did.shown \in {NoKey, did.key})
  /\ [][\A d \in core'.book \ core.book :
         /\ keys' # keys
         /\ \/ Top.kind = "trust" /\ Top.device = d
            \/ Key("pairing", d) = Current(Top)]_screenVars

\* An offer is in the inbox, if that is open, unless it does not wait any more.
InOpenInbox(o) ==
  Top.kind = "inbox" => Key("offer", o) \in ToSet(Top.rows)

OffersAreListed ==
  \A o \in Offers : o \in ToSet(core.pending) ~>
    InOpenInbox(o) \/ o \notin ToSet(core.pending) \/ ~running

\* "Select an offer. File data is not written until you accept." The offer that
\* is decided is the one the user has selected, if any.
DecidesTheSelected ==
  did.act = "decide" /\ did.wanted # NoKey => did.key = did.wanted

\* "... compare a cryptographic fingerprint, explicitly trust the device": the
\* device that is trusted is the one the user has selected, if any.
TrustsTheSelected ==
  did.act = "trust" /\ did.wanted # NoKey => did.key = did.wanted

\* "Connect to or select a trusted peer first": files go to the peer that was
\* selected when the dialog for them was opened.
SendsToTheSelected == did.act = "send" => did.key = did.wanted

\* "... resolution errors are shown while connecting": a connection that cannot
\* be made does not end the program.
SendErrorsAreShown == did.act = "send" => running

=============================================================================
