------------------------------ MODULE Handlers ------------------------------
(***************************************************************************)
(* The handlers of JsonrpcServer (src/jsonrpc-server.c): an array sorted   *)
(* by method, in which a call of a client is looked up with bsearch.  The  *)
(* program adds and removes handlers at any time, also from inside of a    *)
(* handler; several handlers may have the same method.  The data of a      *)
(* handler is destroyed by the server; its destroy notify is taken not to  *)
(* call back into the server.                                              *)
(*                                                                         *)
(* Methods are numbers, in the order of g_strcmp0.                         *)
(***************************************************************************)
EXTENDS Naturals, Sequences

CONSTANTS
    Methods,            \* names of methods, in the order of strcmp
    MaxHandlers         \* bound: how often add_handler is called

ASSUME MethodsAssumption == Methods \subseteq Nat
ASSUME MaxHandlersAssumption == MaxHandlers \in Nat

VARIABLES
    handlers,           \* the GArray of JsonrpcServerHandlerData
    lastHandlerId,
    disposed,           \* the program dropped the server
    destroyed,          \* destroyed[id]: calls of the destroy notify of id
    registered          \* history: what the program added and did not remove

vars == <<handlers, lastHandlerId, disposed, destroyed, registered>>

Ids == 1..MaxHandlers

\* JsonrpcServerHandlerData; the id stands for the function and its data.
Handler == [method : Methods, id : Ids]

TypeOK ==
    /\ handlers \in Seq(Handler)
    /\ lastHandlerId \in 0..MaxHandlers
    /\ disposed \in BOOLEAN
    /\ destroyed \in [Ids -> Nat]
    /\ registered \subseteq [method : Methods, id : 1..lastHandlerId]

Init ==
    /\ handlers = <<>>
    /\ lastHandlerId = 0
    /\ disposed = FALSE
    /\ destroyed = [id \in Ids |-> 0]
    /\ registered = {}

-----------------------------------------------------------------------------
(* External: what the code gets from bsearch and GArray.                   *)

\* bsearch as the C library does it, between two indices: the index of an
\* element with method m, 0 if it meets none.  The array has to be sorted for
\* that to mean much.
Bsearch(array, m) ==
    LET Between[r \in (0..Len(array)) \X (0..Len(array))] ==
            LET mid == (r[1] + r[2]) \div 2 IN
            IF r[1] >= r[2] THEN 0
            ELSE IF m = array[mid + 1].method THEN mid + 1
            ELSE IF m < array[mid + 1].method THEN Between[<<r[1], mid>>]
            ELSE Between[<<mid + 1, r[2]>>]
    IN  Between[<<0, Len(array)>>]

\* sort_by_method.
ByMethod(a, b) == a.method < b.method

\* g_array_sort with sort_by_method: handlers of one method stay in the order
\* in which they were, so that there is just one result.
Sorted(array) ==
    LET Places == 1..Len(array)
        IsPermutation(p) == \A k \in Places : \E i \in Places : p[i] = k
        PutsInOrder(p) == \A i, j \in Places : i < j =>
            \/ ByMethod(array[p[i]], array[p[j]])
            \/ ~ByMethod(array[p[j]], array[p[i]]) /\ p[i] < p[j]
    IN  {[i \in Places |-> array[p[i]]] :
            p \in {p \in [Places -> Places] : IsPermutation(p) /\ PutsInOrder(p)}}

\* Faulty: g_array_remove_index_fast, which moves the last element.
RemoveIndexFast(array, i) ==
    LET n == Len(array)
    IN  SubSeq([array EXCEPT ![i] = array[n]], 1, n - 1)

\* g_array_remove_index.
RemoveIndex(array, i) ==
    SubSeq(array, 1, i - 1) \o SubSeq(array, i + 1, Len(array))

\* jsonrpc_server_clear_handler_data, which the GArray calls for each element
\* that leaves it.
ClearHandlerData(ids) ==
    destroyed' = [id \in Ids |-> destroyed[id] + IF id \in ids THEN 1 ELSE 0]

-----------------------------------------------------------------------------
(* jsonrpc_server_add_handler and jsonrpc_server_remove_handler.           *)

\* Faulty: the id is not counted up.
AddHandlerUncounted(m) ==
    LET id == lastHandlerId + 1 IN
    /\ ~disposed /\ lastHandlerId < MaxHandlers
    /\ UNCHANGED lastHandlerId
    /\ handlers' \in Sorted(Append(handlers, [method |-> m, id |-> id]))
    /\ registered' = registered \cup {[method |-> m, id |-> id]}
    /\ UNCHANGED <<disposed, destroyed>>

AddHandler(m) ==
    LET id == lastHandlerId + 1 IN
    /\ ~disposed /\ lastHandlerId < MaxHandlers
    /\ lastHandlerId' = id
    /\ handlers' \in Sorted(Append(handlers, [method |-> m, id |-> id]))
    /\ registered' = registered \cup {[method |-> m, id |-> id]}
    /\ UNCHANGED <<disposed, destroyed>>

\* Faulty: takes the id for a position in the array.
IndexOfId(id) == IF id <= Len(handlers) THEN id ELSE 0

\* The index of handler_id in the array, 0 if it is not in it.
IndexOf(id) ==
    LET Has == {i \in 1..Len(handlers) : handlers[i].id = id}
    IN  IF Has = {} THEN 0 ELSE CHOOSE i \in Has : \A k \in Has : i <= k

\* The id may be one that was removed before, or that is yet to come.
RemoveHandler(id) ==
    /\ ~disposed
    /\ \/ /\ IndexOf(id) # 0
          /\ ClearHandlerData({handlers[IndexOf(id)].id})
          /\ handlers' = RemoveIndex(handlers, IndexOf(id))
       \/ IndexOf(id) = 0 /\ UNCHANGED <<handlers, destroyed>>
    /\ registered' = {h \in registered : h.id # id}
    /\ UNCHANGED <<lastHandlerId, disposed>>

\* jsonrpc_server_dispose: the program drops the server with all handlers.
Dispose ==
    /\ ~disposed
    /\ disposed' = TRUE
    /\ ClearHandlerData({handlers[i].id : i \in 1..Len(handlers)})
    /\ handlers' = <<>>
    /\ registered' = {}
    /\ UNCHANGED lastHandlerId

Next ==
    \/ \E m \in Methods : AddHandler(m)
    \/ \E id \in Ids : RemoveHandler(id)
    \/ Dispose

Spec == Init /\ [][Next]_vars

-----------------------------------------------------------------------------
\* jsonrpc_server_real_handle_call: the handler that gets the call, or none,
\* in which case the client answers with METHOD_NOT_FOUND.
HandlerFor(m) ==
    LET i == Bsearch(handlers, m)
    IN  IF i = 0 THEN {} ELSE {handlers[i]}

\* A call of method m gets to a handler that the program added for m and did
\* not remove, whenever there is one: no history of additions and removals
\* gets the array out of order or out of step with the ids.
DispatchIsExact ==
    \A m \in Methods :
        LET Wanted == {h \in registered : h.method = m} IN
        /\ HandlerFor(m) \subseteq Wanted
        /\ Wanted # {} => HandlerFor(m) # {}

\* The data of a handler lives exactly as long as the program has the handler
\* registered, and is destroyed once: remove_handler finds the handler that
\* add_handler returned the id of wherever sorting moved it, and the end of
\* the server takes the rest.
DataLivesWhileRegistered ==
    /\ \A i, k \in 1..Len(handlers) :
          handlers[i].id = handlers[k].id => i = k
    /\ {handlers[i] : i \in 1..Len(handlers)} = registered
    /\ \A id \in Ids :
          destroyed[id] =
              IF id <= lastHandlerId /\ \A h \in registered : h.id # id
              THEN 1 ELSE 0
=============================================================================
