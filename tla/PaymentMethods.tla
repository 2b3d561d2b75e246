--------------------------- MODULE PaymentMethods ---------------------------
(***************************************************************************)
(* The payment methods of one tenant in services/billing.  Making one the  *)
(* default clears the flag everywhere and then sets it on one row, two     *)
(* statements without a transaction.                                       *)
(***************************************************************************)

CONSTANTS
    Methods,      \* ids that AddPaymentMethod may draw
    Cardholders   \* calls that may be in progress at the same time

VARIABLES
    method,       \* a row's is_default, or that it is not there yet or any more
    holder,       \* the method a SetDefaultPaymentMethod is about, and its next statement
    latest,       \* history: the last methods that a call made the default
    mishap        \* history: "overlap" once calls ran into each other, "stop" once
                  \* one stopped between its two writes

methodVars == <<method, holder, latest, mishap>>

NoCall == [at |-> "none", pm |-> "none"]

\* A default flag is on or off, and a call is before one of its two writes.
MethodsTypeOK ==
    /\ method \in [Methods -> {"new", "plain", "default", "removed"}]
    /\ holder \in [Cardholders -> {NoCall} \union [at : {"clear", "set"}, pm : Methods]]
    /\ latest \subseteq Methods
    /\ mishap \subseteq {"overlap", "stop"}

MethodsInit ==
    /\ method = [m \in Methods |-> "new"]
    /\ holder = [c \in Cardholders |-> NoCall]
    /\ latest = {} /\ mishap = {}

Saved == {m \in Methods : method[m] \in {"plain", "default"}}
Defaults == {m \in Methods : method[m] = "default"}

\* AddPaymentMethod: the handler leaves is_default false.
AddPaymentMethod(m) ==
    /\ method[m] = "new"
    /\ method' = [method EXCEPT ![m] = "plain"]
    /\ UNCHANGED <<holder, latest, mishap>>

\* RemovePaymentMethod: a DELETE that reports a row which is gone.  A call about to
\* make the method the default has read it already.
RemovePaymentMethod(m) ==
    /\ m \in Saved
    /\ method' = [method EXCEPT ![m] = "removed"]
    /\ mishap' = IF \E c \in Cardholders : holder[c].pm = m THEN mishap \union {"overlap"} ELSE mishap
    /\ UNCHANGED <<holder, latest>>

\* SetDefaultPaymentMethod reads the row.
SetDefaultPaymentMethod(c, m) ==
    /\ holder[c] = NoCall /\ m \in Saved
    /\ holder' = [holder EXCEPT ![c] = [at |-> "clear", pm |-> m]]
    /\ mishap' = IF \E d \in Cardholders \ {c} : holder[d] # NoCall
                 THEN mishap \union {"overlap"} ELSE mishap
    /\ UNCHANGED <<method, latest>>

\* Its first write takes the flag from every row of the tenant.
ClearDefaultPaymentMethods(c) ==
    /\ holder[c].at = "clear"
    /\ method' = [m \in Methods |-> IF method[m] = "default" THEN "plain" ELSE method[m]]
    /\ holder' = [holder EXCEPT ![c].at = "set"]
    /\ UNCHANGED <<latest, mishap>>

\* Mutant: the row is written back as it was read.
UpdateAsRead(c) ==
    /\ holder[c].at = "set"
    /\ latest' = IF holder[c].pm \in Saved THEN {holder[c].pm} ELSE latest
    /\ holder' = [holder EXCEPT ![c] = NoCall]
    /\ UNCHANGED <<method, mishap>>

\* Its second write, which finds no row if the method has been removed.
UpdatePaymentMethod(c) ==
    /\ holder[c].at = "set"
    /\ IF holder[c].pm \in Saved
       THEN method' = [method EXCEPT ![holder[c].pm] = "default"] /\ latest' = {holder[c].pm}
       ELSE UNCHANGED <<method, latest>>
    /\ holder' = [holder EXCEPT ![c] = NoCall]
    /\ UNCHANGED mishap

\* A statement fails or the process stops; the flags cleared stay cleared.
DefaultCallStops(c) ==
    /\ holder[c] # NoCall
    /\ mishap' = IF holder[c].at = "set" THEN mishap \union {"stop"} ELSE mishap
    /\ holder' = [holder EXCEPT ![c] = NoCall]
    /\ UNCHANGED <<method, latest>>

MethodsNext ==
    \/ \E m \in Methods : AddPaymentMethod(m) \/ RemovePaymentMethod(m)
    \/ \E c \in Cardholders :
          \/ ClearDefaultPaymentMethods(c) \/ UpdatePaymentMethod(c) \/ DefaultCallStops(c)
          \/ \E m \in Methods : SetDefaultPaymentMethod(c, m)

MethodsSpec == MethodsInit /\ [][MethodsNext]_methodVars

-----------------------------------------------------------------------------
(* Properties                                                              *)

\* SetDefaultPaymentMethod "designates one payment method as the default for automatic
\* charges": there are never two, wherever a call stops, unless two calls overlapped.
OneDefault == "overlap" \notin mishap => \A m, n \in Defaults : m = n

\* Between calls the default is the method that was last made it, and there is none
\* only if that one was removed: a default gets lost only when a call stops between
\* its two writes, or runs into another call or into the removal of its method.
DefaultIsLatest ==
    mishap = {} /\ (\A c \in Cardholders : holder[c].at # "set") => Defaults = latest \intersect Saved
=============================================================================
