----------------------------- MODULE SentMessages -----------------------------
(***************************************************************************)
(* The sent message list of the session context                          *)
(* (src/pool_session_context.c): Parse and Bind messages kept by kind and *)
(* name, each pointing to a query context that several messages may       *)
(* share.  Removing a message destroys its query context unless another   *)
(* message of the list still points to it (can_query_context_destroy).   *)
(*                                                                         *)
(* The callers, the extended-protocol handlers, are the environment: they *)
(* start queries with fresh query contexts, add messages for the current  *)
(* context (Parse) or for a prepared statement's context (Bind), and      *)
(* remove them on Close or at the end of a session.                       *)
(***************************************************************************)
EXTENDS Integers, Sequences, FiniteSets

CONSTANTS
    Names,          \* statement and portal names; "" is the unnamed one
    Contexts,       \* query contexts that may be created in a run
    NULL,           \* session_context->query_context = NULL
    InitListSize,   \* INIT_LIST_SIZE
    MaxMessages     \* bound on the list length the callers reach

ASSUME "" \in Names /\ NULL \notin Contexts
ASSUME InitListSize \in Nat \ {0} /\ MaxMessages \in Nat

MsgKinds == {"P", "B"}   \* Parse, Bind

Msgs == [kind : MsgKinds, name : Names, qc : Contexts]

VARIABLES
    msglist,      \* message_list.sent_messages[0 .. size-1]
    capacity,     \* message_list.capacity
    live,         \* query contexts allocated and not destroyed
    current,      \* session_context->query_context
    in_progress,  \* session_context->in_progress
    referenced    \* ghost: live contexts some message of the list has
                  \* pointed to since they were created

vars == <<msglist, capacity, live, current, in_progress, referenced>>

\* The parts of the session context the list operations change, as a record.
State == [list |-> msglist, live |-> live, current |-> current,
          inprog |-> in_progress]

Init ==
    /\ msglist = <<>>
    /\ capacity = InitListSize
    /\ live = {}
    /\ current = NULL
    /\ in_progress = FALSE
    /\ referenced = {}

-----------------------------------------------------------------------------
\* pool_get_sent_message: the index of the message of that kind and name,
\* 0 if there is none.
FindMsg(l, kind, name) ==
    LET hits == {i \in DOMAIN l : l[i].kind = kind /\ l[i].name = name}
    IN IF hits = {} THEN 0 ELSE CHOOSE i \in hits : \A j \in hits : i <= j

\* Fault variant: the message being removed is forgotten in the count.
CanQueryContextDestroySelfCounted(l, qc) ==
    Cardinality({i \in DOMAIN l : l[i].qc = qc}) = 0

\* can_query_context_destroy: no more than one message of the list points
\* to qc.
CanQueryContextDestroy(l, qc) == Cardinality({i \in DOMAIN l : l[i].qc = qc}) <= 1

\* The memmove closing the gap left by message idx.
Shift(l, idx) == [j \in 1 .. Len(l) - 1 |-> IF j < idx THEN l[j] ELSE l[j + 1]]

(***************************************************************************)
(* pool_sent_message_destroy of a message pointing to qc while the list   *)
(* is l: pool_query_context_destroy frees qc, clears the session's query   *)
(* context and in_progress, and the function puts back in_progress and a  *)
(* query context other than qc.                                           *)
(***************************************************************************)
SentMessageDestroy(st, l, qc) ==
    IF CanQueryContextDestroy(l, qc)
      THEN [st EXCEPT !.live = @ \ {qc},
                      !.current = IF @ = qc THEN NULL ELSE @]
      ELSE st

\* Fault variant: the message is taken out of the list before it is
\* destroyed, so the count no longer includes it.
RemoveAtShiftFirst(st, idx) ==
    LET l == Shift(st.list, idx)
    IN [SentMessageDestroy(st, l, st.list[idx].qc) EXCEPT !.list = l]

\* pool_remove_sent_message once the message is found at idx: destroy it
\* while it is still in the list, then close the gap.
RemoveAt(st, idx) ==
    [SentMessageDestroy(st, st.list, st.list[idx].qc) EXCEPT
        !.list = Shift(st.list, idx)]

\* pool_remove_sent_messages: remove every message of a kind, one by one.
RECURSIVE RemoveAllOfKind(_, _)
RemoveAllOfKind(st, kind) ==
    LET idx == {i \in DOMAIN st.list : st.list[i].kind = kind}
    IN IF idx = {} THEN st
       ELSE RemoveAllOfKind(RemoveAt(st, CHOOSE i \in idx :
                                          \A j \in idx : i <= j), kind)

\* pool_clear_sent_message_list: remove the kind of the first message until
\* the list is empty.
RECURSIVE ClearAll(_)
ClearAll(st) ==
    IF st.list = <<>> THEN st ELSE ClearAll(RemoveAllOfKind(st, st.list[1].kind))

\* Set the variables from a state record.
Apply(st) ==
    /\ msglist' = st.list
    /\ live' = st.live
    /\ current' = st.current
    /\ in_progress' = st.inprog

-----------------------------------------------------------------------------
\* Fault variant: the list grows only once it is over capacity.
GrowOverCapacity(size, cap) == IF size > cap THEN 2 * cap ELSE cap

\* The capacity check of pool_add_sent_message before the append.
Grow(size, cap) == IF size = cap THEN 2 * cap ELSE cap

(* pool_add_sent_message(pool_create_sent_message(kind, ..., name, qc))    *)
(* from state st.  A message with the same kind and name already in the   *)
(* list is replaced if unnamed; otherwise the new message is not added.   *)
AddSentMessage(st, kind, name, qc) ==
    LET old == FindMsg(st.list, kind, name)
        st1 == IF old /= 0 THEN RemoveAt(st, old) ELSE st
    IN IF old /= 0 /\ name /= ""
         THEN /\ Apply(st)
              /\ referenced' = IF qc \in live THEN referenced
                               ELSE referenced \ {qc}
              /\ UNCHANGED capacity
         ELSE /\ Apply([st1 EXCEPT !.list = Append(@, [kind |-> kind,
                                                  name |-> name, qc |-> qc])])
              /\ capacity' = Grow(Len(st1.list), capacity)
              /\ referenced' = referenced \cup {qc}

(* Parse: a new query begins with a new query context, made current and  *)
(* in progress, and the Parse message is kept for it.                     *)
Parse ==
    /\ Len(msglist) < MaxMessages
    /\ \E qc \in Contexts \ live, name \in Names :
          LET st == [State EXCEPT !.live = @ \cup {qc}, !.current = qc,
                                  !.inprog = TRUE]
          IN AddSentMessage(st, "P", name, qc)

(* Bind: a portal for a prepared statement, sharing its query context.    *)
Bind ==
    /\ Len(msglist) < MaxMessages
    /\ \E i \in DOMAIN msglist, name \in Names :
          /\ msglist[i].kind = "P"
          /\ AddSentMessage(State, "B", name, msglist[i].qc)

(* Close of a statement or a portal: pool_remove_sent_message.            *)
Close ==
    /\ \E kind \in MsgKinds, name \in Names :
          LET idx == FindMsg(msglist, kind, name)
          IN /\ idx /= 0
             /\ Apply(RemoveAt(State, idx))
    /\ UNCHANGED <<capacity, referenced>>

(* pool_remove_sent_messages for one kind (all portals at Sync, ...).     *)
RemoveSentMessages ==
    /\ \E kind \in MsgKinds :
          /\ \E i \in DOMAIN msglist : msglist[i].kind = kind
          /\ Apply(RemoveAllOfKind(State, kind))
    /\ UNCHANGED <<capacity, referenced>>

(* pool_clear_sent_message_list, at the end of a session.                 *)
ClearSentMessageList ==
    /\ msglist /= <<>>
    /\ Apply(ClearAll(State))
    /\ UNCHANGED <<capacity, referenced>>

(* A new query: pool_init_query_context and pool_start_query make a new    *)
(* context current and set the query in progress.  The memory of a        *)
(* destroyed context may be handed out again.                              *)
StartQuery ==
    /\ \E qc \in Contexts \ live :
          /\ live' = live \cup {qc}
          /\ current' = qc
          /\ referenced' = referenced \ {qc}
    /\ in_progress' = TRUE
    /\ UNCHANGED <<msglist, capacity>>

(* ReadyForQuery: pool_unset_query_in_progress, and the caller destroys   *)
(* the current query context unless a kept message points to it.          *)
EndQuery ==
    /\ in_progress
    /\ in_progress' = FALSE
    /\ IF current /= NULL /\ \A i \in DOMAIN msglist : msglist[i].qc /= current
         THEN live' = live \ {current} /\ current' = NULL
         ELSE UNCHANGED <<live, current>>
    /\ UNCHANGED <<msglist, capacity, referenced>>

Next ==
    \/ Parse
    \/ Bind
    \/ Close
    \/ RemoveSentMessages
    \/ ClearSentMessageList
    \/ StartQuery
    \/ EndQuery

Spec == Init /\ [][Next]_vars

-----------------------------------------------------------------------------
TypeOK ==
    /\ msglist \in Seq(Msgs)
    /\ capacity \in Nat \ {0}
    /\ live \subseteq Contexts
    /\ current \in Contexts \cup {NULL}
    /\ in_progress \in BOOLEAN
    /\ referenced \subseteq Contexts

(* No message of the list, and not the session, points to a destroyed     *)
(* query context: a context shared by a statement and its portals         *)
(* survives the removal of all but the last of them (the spec's           *)
(* reference count, kept by can_query_context_destroy).                   *)
NoDanglingReference ==
    /\ \A i \in DOMAIN msglist : msglist[i].qc \in live
    /\ current \in live \cup {NULL}

(* A query context is destroyed once the last message pointing to it has  *)
(* been removed, by Close, by removal of a kind, or by replacement of an  *)
(* unnamed message.                                                        *)
ReleasedWhenUnreferenced ==
    \A c \in live \cap referenced : \E i \in DOMAIN msglist : msglist[i].qc = c

(* pool_add_sent_message doubles the capacity in time: the list never     *)
(* holds more pointers than the array allocated for it.                   *)
WithinCapacity == Len(msglist) <= capacity
=============================================================================
