--------------------------- MODULE RecipientCache ---------------------------
(***************************************************************************)
(* How SignalClient addresses a message: a number is replaced by the       *)
(* service id that signal-cli prefers, if one is known from the envelopes  *)
(* that came in or can be found among the contacts.  The tasks of the      *)
(* gateway share the cache; the lock lets one of them list the contacts.   *)
(*                                                                         *)
(* Names begin with Cache where a module that extends this one has its own.*)
(***************************************************************************)
EXTENDS Naturals, Sequences

CONSTANTS
    Callers,        \* the tasks that send or react
    Numbers, Ids,   \* phone numbers and service ids
    Groups,         \* group chats
    ContactLists,   \* what listContacts may answer: sequences of contacts
    Nothing

Chats == Numbers \cup Ids \cup Groups
Contact == [number : Numbers \cup {Nothing}, recipient : Chats \cup {Nothing}, id : Ids \cup {Nothing}]

ASSUME CacheAssumption ==
    /\ Numbers \cap Ids = {} /\ Numbers \cap Groups = {} /\ Ids \cap Groups = {}
    /\ Nothing \notin Chats \cup Callers
    /\ ContactLists \subseteq Seq(Contact)

VARIABLES
    uuidByNumber,   \* _uuid_by_number
    holder,         \* the task that holds _cache_lock
    queue,          \* those waiting for it; an asyncio.Lock is fair
    client,         \* for every task its call: where it is, the chat, the recipient
    told            \* history: the number and id pairs signal-cli has reported

cacheVars == <<uuidByNumber, holder, queue, client, told>>

NoCall == [pc |-> "idle", chat |-> Nothing, to |-> Nothing]

CacheInit ==
    /\ uuidByNumber = [n \in Numbers |-> Nothing]
    /\ holder = Nothing
    /\ queue = << >>
    /\ client = [p \in Callers |-> NoCall]
    /\ told = {}

(* remember_identifiers.                                                   *)
Remembered(n, i) ==
    IF n = Nothing \/ i = Nothing THEN uuidByNumber ELSE [uuidByNumber EXCEPT ![n] = i]

(* An envelope is told as <<number, id>>; one may be missing.              *)
Heard(n, i) == IF n = Nothing \/ i = Nothing THEN told ELSE told \cup {<<n, i>>}

----------------------------------------------------------------------------
(* _resolve_recipient.                                                     *)

Resolved(known, c) == IF c \in Numbers /\ known[c] # Nothing THEN known[c] ELSE c
NeedsLookup(known, c) == c \in Numbers /\ known[c] = Nothing

(* The call of p to the chat c is now at pc, for the recipient r.          *)
NowAt(p, pc, c, r) == client' = [client EXCEPT ![p] = [pc |-> pc, chat |-> c, to |-> r]]

(* The task p begins a call to the chat c.  It may do so in the step in    *)
(* which its previous call is answered.                                    *)
Call(p, c, known) ==
    /\ client[p].pc \in {"idle", "rpc"}
    /\ \/ /\ ~NeedsLookup(known, c)
          /\ NowAt(p, "rpc", c, Resolved(known, c))
          /\ UNCHANGED <<holder, queue>>
       \/ /\ NeedsLookup(known, c) /\ holder = Nothing /\ queue = << >>
          /\ NowAt(p, "contacts", c, Nothing)
          /\ holder' = p
          /\ UNCHANGED queue
       \/ /\ NeedsLookup(known, c) /\ (holder # Nothing \/ queue # << >>)
          /\ NowAt(p, "lock", c, Nothing)
          /\ queue' = Append(queue, p)
          /\ UNCHANGED holder

(* A call on its own, and one made on receipt of an envelope.              *)
PlainCall(p, c) == Call(p, c, uuidByNumber) /\ UNCHANGED <<uuidByNumber, told>>

CallOnReceipt(p, c, n, i) ==
    /\ uuidByNumber' = Remembered(n, i)
    /\ told' = Heard(n, i)
    /\ Call(p, c, Remembered(n, i))

LockGrantedUnchecked(p) ==      \* mutant: the cache is not read again
    /\ holder = Nothing /\ queue # << >> /\ Head(queue) = p
    /\ queue' = Tail(queue)
    /\ NowAt(p, "contacts", client[p].chat, Nothing)
    /\ holder' = p
    /\ UNCHANGED <<uuidByNumber, told>>

(* The cache is read again: the wait may have been for the same number.    *)
LockGranted(p) ==
    /\ holder = Nothing /\ queue # << >> /\ Head(queue) = p
    /\ queue' = Tail(queue)
    /\ LET c == client[p].chat
       IN  IF NeedsLookup(uuidByNumber, c)
           THEN /\ NowAt(p, "contacts", c, Nothing)
                /\ holder' = p
           ELSE /\ NowAt(p, "rpc", c, uuidByNumber[c])
                /\ UNCHANGED holder
    /\ UNCHANGED <<uuidByNumber, told>>

(* A contact that is the chat c, and under what number it is remembered.   *)
Learns(contact, c) ==
    /\ contact.id # Nothing /\ contact.number # Nothing
    /\ c \in {contact.number, contact.recipient}

LearnedFromAnyone(list, c) ==    \* mutant: whoever the contact is
    LET some == {k \in DOMAIN list : list[k].id # Nothing}
    IN  IF some = {} THEN uuidByNumber
        ELSE [uuidByNumber EXCEPT ![c] = list[CHOOSE k \in some : TRUE].id]

Learned(list, c) ==
    LET of(n) == {k \in DOMAIN list : Learns(list[k], c) /\ list[k].number = n}
        last(n) == {k \in of(n) : \A l \in of(n) : l <= k}
    IN  [n \in Numbers |-> IF last(n) = {} THEN uuidByNumber[n]
                           ELSE list[CHOOSE k \in last(n) : TRUE].id]

Reported(list) == {<<list[k].number, list[k].id>> : k \in DOMAIN list}

ContactsFailedHolding(p) ==     \* mutant: a failed listing leaves the lock taken
    /\ client[p].pc = "contacts"
    /\ \E list \in ContactLists \cup {<< >>} :
          /\ uuidByNumber' = Learned(list, client[p].chat)
          /\ told' = told \cup Reported(list)
          /\ holder' = IF list = << >> THEN holder ELSE Nothing
    /\ NowAt(p, "rpc", client[p].chat, Resolved(uuidByNumber', client[p].chat))
    /\ UNCHANGED queue

ContactsAnsweredNoDefault(p) == \* mutant: no recipient if the number is not found
    /\ client[p].pc = "contacts"
    /\ \E list \in ContactLists \cup {<< >>} :
          /\ uuidByNumber' = Learned(list, client[p].chat)
          /\ told' = told \cup Reported(list)
    /\ NowAt(p, "rpc", client[p].chat, uuidByNumber'[client[p].chat])
    /\ holder' = Nothing
    /\ UNCHANGED queue

(* The contacts, or none if the call failed.                               *)
ContactsAnswered(p) ==
    /\ client[p].pc = "contacts"
    /\ \E list \in ContactLists \cup {<< >>} :
          /\ uuidByNumber' = Learned(list, client[p].chat)
          /\ told' = told \cup Reported(list)
    /\ NowAt(p, "rpc", client[p].chat, Resolved(uuidByNumber', client[p].chat))
    /\ holder' = Nothing
    /\ UNCHANGED queue

(* _rpc returns, whatever it returns.                                      *)
Answered(p) ==
    /\ client[p].pc = "rpc"
    /\ client' = [client EXCEPT ![p] = NoCall]
    /\ UNCHANGED <<uuidByNumber, holder, queue, told>>

(* The line without p, who is in it once at most.                          *)
Without(line, p) ==
    LET of == {k \in DOMAIN line : line[k] = p}
        at == CHOOSE k \in of : TRUE
    IN  IF of = {} THEN line ELSE SubSeq(line, 1, at - 1) \o SubSeq(line, at + 1, Len(line))

AbandonHolding(p) ==            \* mutant: the lock is not released
    /\ client' = [client EXCEPT ![p] = NoCall]
    /\ queue' = Without(queue, p)
    /\ UNCHANGED <<uuidByNumber, holder, told>>

(* The task is cancelled: it leaves the queue, or releases the lock.       *)
Abandon(p) ==
    /\ client' = [client EXCEPT ![p] = NoCall]
    /\ queue' = Without(queue, p)
    /\ holder' = IF holder = p THEN Nothing ELSE holder
    /\ UNCHANGED <<uuidByNumber, told>>

(* The process ends.                                                       *)
CacheGone ==
    /\ uuidByNumber' = [n \in Numbers |-> Nothing]
    /\ holder' = Nothing
    /\ queue' = << >>
    /\ client' = [p \in Callers |-> NoCall]
    /\ UNCHANGED told

CacheNext ==
    \/ \E p \in Callers, c \in Chats :
          \/ PlainCall(p, c)
          \/ \E n \in Numbers \cup {Nothing}, i \in Ids \cup {Nothing} : CallOnReceipt(p, c, n, i)
    \/ \E p \in Callers : LockGranted(p) \/ ContactsAnswered(p) \/ Answered(p) \/ Abandon(p)
    \/ CacheGone

CacheSpec == CacheInit /\ [][CacheNext]_cacheVars

----------------------------------------------------------------------------
CacheTypeOK ==
    /\ uuidByNumber \in [Numbers -> Ids \cup {Nothing}]
    /\ holder \in Callers \cup {Nothing}
    /\ queue \in Seq(Callers)
    /\ client \in [Callers -> {NoCall}
                               \cup [pc : {"lock", "contacts"}, chat : Numbers, to : {Nothing}]
                               \cup [pc : {"rpc"}, chat : Chats, to : Chats]]
    /\ told \subseteq (Numbers \cup {Nothing}) \X (Ids \cup {Nothing})

(***************************************************************************)
(* A message for a number goes to that number or to a service id that      *)
(* signal-cli has reported for that very number, however lookups for       *)
(* several people, incoming envelopes and failures interleave              *)
(* (signal_client.py:311-367).                                             *)
(***************************************************************************)
RightPerson ==
    \A p \in Callers : client[p].pc = "rpc" =>
        LET chat == client[p].chat
            to == client[p].to
        IN  to = chat \/ (chat \in Numbers /\ <<chat, to>> \in told)

(***************************************************************************)
(* The lock is held by the one task whose listing is out and wanted by     *)
(* each task in line once: no failure or cancellation leaves it taken, and *)
(* no two tasks list the contacts at a time (signal_client.py:354-367).    *)
(***************************************************************************)
LockExact ==
    /\ \A p \in Callers : holder = p <=> client[p].pc = "contacts"
    /\ \A p \in Callers : client[p].pc = "lock" <=> \E k \in DOMAIN queue : queue[k] = p
    /\ \A k, l \in DOMAIN queue : queue[k] = queue[l] => k = l

(***************************************************************************)
(* The contacts are listed only for a number that is unknown at that       *)
(* moment: whoever waited while someone else found it out does not ask     *)
(* again (signal_client.py:349-358).                                       *)
(***************************************************************************)
NoNeedlessLookup ==
    [][\A p \in Callers : client[p].pc # "contacts" /\ client'[p].pc = "contacts"
                             => uuidByNumber'[client'[p].chat] = Nothing]_cacheVars
=============================================================================
