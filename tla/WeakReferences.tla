---------------------------- MODULE WeakReferences ---------------------------
(***************************************************************************)
(* An object with weak pointers: its WeakReferenceOwner, on one thread, and *)
(* WeakReferences that any thread copies and destroys. They share Flags,    *)
(* which are RefCountedThreadSafe: to count a reference up or down is one   *)
(* atomic operation, and who counts down to 0 deletes the flag, whose       *)
(* address may be used again. A WeakReference belongs to one thread at a    *)
(* time; it is asked whether it is valid on the owner's thread only.        *)
(***************************************************************************)
EXTENDS Naturals, FiniteSets

CONSTANTS Flags,       \* addresses of flags
          NoFlag,
          References   \* places that hold a WeakReference

ASSUME FlagsAssumption == NoFlag \notin Flags /\ IsFiniteSet(References)

VARIABLES
    flag,     \* flag_ of the WeakReferenceOwner
    refCount, \* ref_count_ of each flag; one that counts 0 does not exist
    valid,    \* flags with is_valid_
    ref,      \* of each place: flag_ of its WeakReference
    getting,  \* where the owner's GetRef is
    current   \* history: places whose reference stems from the object as it is
weakVars == <<flag, refCount, valid, ref, getting, current>>

WeakInit ==
    /\ flag = NoFlag /\ refCount = [f \in Flags |-> 0] /\ valid = {}
    /\ ref = [r \in References |-> NoFlag]
    /\ getting = "no" /\ current = {}

(* AddRef and Release, by scoped_refptr.                                    *)
AddRef(f) == refCount' = [refCount EXCEPT ![f] = @ + 1]
DecRef(f) == refCount' = [refCount EXCEPT ![f] = @ - 1]

-----------------------------------------------------------------------------
(* Slip: a flag is taken to be the owner's alone while one other has it.    *)
HasRefsOfTwo == flag # NoFlag /\ refCount[flag] > 2

HasRefs == flag # NoFlag /\ refCount[flag] # 1

(* GetRef: the owner asks whether there are references; they may all go     *)
(* before it makes another one.                                             *)
GetRef ==
    /\ getting = "no"
    /\ getting' = IF HasRefs THEN "copying" ELSE "renewing"
    /\ UNCHANGED <<flag, refCount, valid, ref, current>>

(* A new flag takes the place of the one that only the owner has.           *)
RenewFlag ==
    /\ getting = "renewing"
    /\ \E f \in Flags :
         /\ refCount[f] = 0
         /\ refCount' = [g \in Flags |-> IF g = f THEN 1
                                         ELSE IF g = flag THEN refCount[g] - 1 ELSE refCount[g]]
         /\ valid' = valid \union {f}
         /\ flag' = f
    /\ getting' = "copying"
    /\ UNCHANGED <<ref, current>>

ReturnReference(r) ==
    /\ getting = "copying" /\ ref[r] = NoFlag
    /\ AddRef(flag)
    /\ ref' = [ref EXCEPT ![r] = flag]
    /\ current' = current \union {r}
    /\ getting' = "no"
    /\ UNCHANGED <<flag, valid>>

(* Slip: the owner's flag is let go as it is.                               *)
InvalidateNothing ==
    /\ getting = "no" /\ flag # NoFlag
    /\ DecRef(flag)
    /\ flag' = NoFlag /\ current' = {}
    /\ UNCHANGED <<valid, ref, getting>>

(* WeakPtrFactory::InvalidateWeakPtrs, or the end of the object.            *)
Invalidate ==
    /\ getting = "no" /\ flag # NoFlag
    /\ valid' = valid \ {flag}
    /\ DecRef(flag)
    /\ flag' = NoFlag /\ current' = {}
    /\ UNCHANGED <<ref, getting>>

(* A thread copies a reference that it has, or destroys one.                *)
CopyReference(r, s) ==
    /\ ref[r] # NoFlag /\ ref[s] = NoFlag
    /\ AddRef(ref[r])
    /\ ref' = [ref EXCEPT ![s] = ref[r]]
    /\ current' = IF r \in current THEN current \union {s} ELSE current
    /\ UNCHANGED <<flag, valid, getting>>

DestroyReference(r) ==
    /\ ref[r] # NoFlag
    /\ DecRef(ref[r])
    /\ ref' = [ref EXCEPT ![r] = NoFlag]
    /\ current' = current \ {r}
    /\ UNCHANGED <<flag, valid, getting>>

WeakStep ==
    \/ GetRef \/ RenewFlag \/ Invalidate
    \/ \E r \in References : ReturnReference(r) \/ DestroyReference(r)
    \/ \E r, s \in References : CopyReference(r, s)

-----------------------------------------------------------------------------
WeakTypeOK ==
    /\ flag \in Flags \union {NoFlag}
    /\ refCount \in [Flags -> Nat]
    /\ valid \subseteq Flags
    /\ ref \in [References -> Flags \union {NoFlag}]
    /\ getting \in {"no", "copying", "renewing"}
    /\ current \subseteq References

Holders(f) == {r \in References : ref[r] = f}
RefsCounted ==
    \A f \in Flags : refCount[f] = Cardinality(Holders(f)) + (IF flag = f THEN 1 ELSE 0)

CurrentShareFlag == \A r \in current : ref[r] = flag /\ flag # NoFlag
ValidMeansCurrent ==
    \A r \in References : ref[r] # NoFlag => (ref[r] \in valid <=> r \in current)

(* What weak pointers promise (weak_ptr.h 5-20, weak_ptr.cc 46-63,          *)
(* ref_counted.cc 75-94): a weak pointer that was made, or copied from one  *)
(* that was made, since the object last invalidated its weak pointers is    *)
(* valid, and no other is, whoever copies and destroys weak pointers        *)
(* meanwhile; all of the valid ones share the object's flag; and a flag     *)
(* exists as long as somebody has it, and no longer.                        *)
WeakPromises == RefsCounted /\ CurrentShareFlag /\ ValidMeansCurrent
=============================================================================
