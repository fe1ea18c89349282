--------------------------- MODULE UserHandleTable ---------------------------
(***************************************************************************)
(* The user handle table of the window manager (src/kernel/ntuser.cpp,     *)
(* lines 76-216): a fixed array of MaxUserHandles entries, shared          *)
(* read-only with every GUI process, whose free entries form an intrusive  *)
(* LIFO list threaded through the union object/next_free.  A handle is     *)
(* (highpart << 16) | index.                                               *)
(*                                                                         *)
(* The module is used two ways: on its own (Spec), with callers that       *)
(* allocate for some object and free only handles they own, and through    *)
(* INSTANCE by WindowManager, which uses its operators for the windows.    *)
(***************************************************************************)
EXTENDS Naturals, Sequences

CONSTANTS
    MaxUserHandles,   \* MAX_USER_HANDLES (0x200 in the code)
    Obj,              \* the objects handles are allocated for (windows)
    Owner,            \* the owning processes
    NoOwner           \* the NULL owner pointer of a free entry

ASSUME MaxUserHandles \in Nat /\ MaxUserHandles >= 3
ASSUME NoOwner \notin Owner

VARIABLES
    uobj,              \* user_handle_table[i].object, which shares its low 16
                       \* bits with .next_free: one field of the union
    uowner,            \* user_handle_table[i].owner
    utype,             \* user_handle_table[i].type (0 = free)
    uhigh,             \* user_handle_table[i].highpart
    next_user_handle,  \* head of the free list
    max_window_handle, \* user_shared->max_window_handle
    hlast              \* history: the handle value last issued for each index

htvars == <<uobj, uowner, utype, uhigh, next_user_handle, max_window_handle, hlast>>

USER_HANDLE_WINDOW == 1

Index == 0 .. MaxUserHandles - 1

\* (USHORT) handle: the low 16 bits select the entry.
LowPart(h) == h % 65536

\* (highpart << 16) | index, the value alloc_user_handle returns.
HandleOf(i) == uhigh[i] * 65536 + i

TypeOK ==
    /\ uobj \in [Index -> Index \cup Obj]
    /\ uowner \in [Index -> Owner \cup {NoOwner}]
    /\ utype \in [Index -> {0, USER_HANDLE_WINDOW}]
    /\ uhigh \in [Index -> {0, 1}]
    /\ next_user_handle \in Index
    /\ max_window_handle \in 0 .. MaxUserHandles
    /\ hlast \in [Index -> Nat]

(***************************************************************************)
(* init_user_handle_table: entries 1 .. MAX-2 are chained i -> i+1 with    *)
(* highpart 1.  The loop stops before MAX-1, so that entry keeps the       *)
(* zero-filled contents of the fresh section (next_free 0, highpart 0),    *)
(* as does entry 0.  max_window_handle is in the same zero-filled memory.  *)
(***************************************************************************)
InitUserHandleTable ==
    /\ uobj = [i \in Index |-> IF i \in 1 .. MaxUserHandles - 2 THEN i + 1 ELSE 0]
    /\ uowner = [i \in Index |-> NoOwner]
    /\ utype = [i \in Index |-> 0]
    /\ uhigh = [i \in Index |-> IF i \in 1 .. MaxUserHandles - 2 THEN 1 ELSE 0]
    /\ next_user_handle = 1
    /\ max_window_handle = 0
    /\ hlast = [i \in Index |-> 0]

\* Mutant of check_max_window_handle: the index is incremented twice.
CheckMaxWindowHandleTwice(n) ==
    max_window_handle' = IF max_window_handle < n + 2 THEN n + 2 ELSE max_window_handle

\* check_max_window_handle(n): the high-water mark is one past the index.
CheckMaxWindowHandle(n) ==
    max_window_handle' = IF max_window_handle < n + 1 THEN n + 1 ELSE max_window_handle

\* The four assertions of alloc_user_handle; a false one aborts the kernel.
AllocOk ==
    LET ret == next_user_handle
        next == uobj[ret]
    IN  /\ next # ret
        /\ utype[ret] = 0
        /\ uowner[ret] = NoOwner
        /\ next <= MaxUserHandles

\* alloc_user_handle(obj, USER_HANDLE_WINDOW, owner): take the head of the
\* free list.  The handle returned is HandleOf(next_user_handle).
AllocUserHandle(obj, owner) ==
    LET ret == next_user_handle IN
    /\ uobj' = [uobj EXCEPT ![ret] = obj]
    /\ utype' = [utype EXCEPT ![ret] = USER_HANDLE_WINDOW]
    /\ uowner' = [uowner EXCEPT ![ret] = owner]
    /\ next_user_handle' = uobj[ret]
    /\ CheckMaxWindowHandle(ret)
    /\ hlast' = [hlast EXCEPT ![ret] = HandleOf(ret)]
    /\ UNCHANGED uhigh

\* Mutants of free_user_handle: the entry is not pushed on the free list
\* (next_free keeps the stale object), or its type is not cleared.
FreeUserHandleNoPush(h) ==
    LET low == LowPart(h) IN
    /\ utype' = [utype EXCEPT ![low] = 0]
    /\ uowner' = [uowner EXCEPT ![low] = NoOwner]
    /\ UNCHANGED <<uobj, next_user_handle, uhigh, max_window_handle, hlast>>

FreeUserHandleKeepType(h) ==
    LET low == LowPart(h) IN
    /\ uowner' = [uowner EXCEPT ![low] = NoOwner]
    /\ uobj' = [uobj EXCEPT ![low] = next_user_handle]
    /\ next_user_handle' = low
    /\ UNCHANGED <<utype, uhigh, max_window_handle, hlast>>

\* free_user_handle(handle): clear the entry and push it on the free list.
\* The highpart is left as it is, and max_window_handle is never lowered.
FreeUserHandle(h) ==
    LET low == LowPart(h) IN
    /\ utype' = [utype EXCEPT ![low] = 0]
    /\ uowner' = [uowner EXCEPT ![low] = NoOwner]
    /\ uobj' = [uobj EXCEPT ![low] = next_user_handle]
    /\ next_user_handle' = low
    /\ UNCHANGED <<uhigh, max_window_handle, hlast>>

\* user_obj_from_handle(handle, type): the highpart is not checked.
UserObjFromHandle(h, type) ==
    LET low == LowPart(h) IN
    IF low = 0 \/ low > max_window_handle THEN 0
    ELSE IF type # utype[low] THEN 0
    ELSE uobj[low]

-----------------------------------------------------------------------------
(* The table on its own: any caller allocates for an object it owns and   *)
(* frees only a handle it holds (the single release path of section 4.4). *)

Init == InitUserHandleTable

Alloc(obj, owner) == AllocOk /\ AllocUserHandle(obj, owner)

Free(i) == utype[i] # 0 /\ FreeUserHandle(HandleOf(i))

Next ==
    \/ \E obj \in Obj, owner \in Owner : Alloc(obj, owner)
    \/ \E i \in Index : Free(i)

Spec == Init /\ [][Next]_htvars

-----------------------------------------------------------------------------
(* Properties *)

\* The indices on the free list, following next_free from the head until
\* the NULL index 0, at most MaxUserHandles steps (a longer walk is a cycle).
RECURSIVE FreeChain(_, _)
FreeChain(i, n) ==
    IF i = 0 \/ n = 0 THEN <<>>
    ELSE <<i>> \o FreeChain(uobj[i], n - 1)

\* The free list is acyclic, ends at index 0, and holds exactly the entries
\* whose type is 0 (every free entry is reachable, no used entry is on it).
\* A double free, a lost push or a pop that skips the list breaks it.
FreeListSound ==
    LET chain == FreeChain(next_user_handle, MaxUserHandles) IN
    /\ chain = FreeChain(next_user_handle, MaxUserHandles + 1)
    /\ \A a, b \in 1 .. Len(chain) : a # b => chain[a] # chain[b]
    /\ {chain[k] : k \in 1 .. Len(chain)} = {i \in 1 .. MaxUserHandles - 1 : utype[i] = 0}

\* Section 3 of the spec: a handle is (generation << 16) | index, so a
\* handle issued again for a reused index differs from the one the index was
\* last issued with, and a stale handle cannot name the new object.
HandleNotReissued ==
    [][\A i \in Index :
          (utype[i] = 0 /\ utype'[i] # 0 /\ hlast[i] # 0) => HandleOf(i) # hlast[i]
      ]_htvars

=============================================================================
