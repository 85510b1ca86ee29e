-------------------------------- MODULE List --------------------------------
(***************************************************************************)
(* The intrusive lists of manos (list.h): circular, doubly linked, through *)
(* a ListHead that sits in the list's owner and one in each member.  A     *)
(* value l of these operators is every ListHead of one kind: l.next and    *)
(* l.prev are functions on nodes.                                          *)
(***************************************************************************)
EXTENDS Integers

Null == -1

INIT_LIST_HEAD(l, n) == [l EXCEPT !.next[n] = n, !.prev[n] = n]

(* __listAdd(): the four assignments, in their order. *)
listAdd(l, new, prev, next) ==
  [l EXCEPT !.prev[next] = new, !.next[new] = next, !.prev[new] = prev, !.next[prev] = new]

listAddAfter(l, new, head)  == listAdd(l, new, head, l.next[head])
listAddBeforeMutant(l, new, head) == listAddAfter(l, new, head)
listAddBefore(l, new, head) == listAdd(l, new, l.prev[head], head)

(* __listUnlink(). *)
unlinkBetween(l, prev, next) == [l EXCEPT !.prev[next] = prev, !.next[prev] = next]

listUnlink(l, n) ==
  [unlinkBetween(l, l.prev[n], l.next[n]) EXCEPT !.prev[n] = Null, !.next[n] = Null]

listUnlinkAndInit(l, n) == INIT_LIST_HEAD(unlinkBetween(l, l.prev[n], l.next[n]), n)

listIsEmpty(l, head) == l.next[head] = head

(* The cursor at the start of LIST_FOR_EACH_ENTRY, and the saved one of
   LIST_FOR_EACH_ENTRY_SAFE when the cursor is pos. *)
LIST_FIRST_ENTRY_OR_NULL(l, head) == IF listIsEmpty(l, head) THEN Null ELSE l.next[head]
LIST_NEXT_ENTRY_OR_NULL(l, pos, head) ==
  IF pos \in {head, Null} THEN Null ELSE l.next[pos]
=============================================================================
