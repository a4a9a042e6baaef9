--------------------------- MODULE EmergencyNumbers ---------------------------
(***************************************************************************)
(* The emergency numbers of tapi_call.c: a slot's list is a property of    *)
(* its Call interface, whose proxy is replaced with the others, and until  *)
(* that is read the one of its Modem interface; a number is looked for in  *)
(* the lists of all slots.                                                 *)
(***************************************************************************)
EXTENDS PropertyCache

Numbers == {"112", "120"}

\* What stands in a list, by the values of module PropertyTable.
NumbersOf(list) ==
    CASE list = "112 and 120" -> {"112", "120"}
      [] list = "112"         -> {"112"}
      [] OTHER                -> {}

CallList(s)  == <<s, "call_emergency">>
ModemList(s) == <<s, "modem_emergency">>
Lists        == {CallList(s) : s \in Slots} \cup {ModemList(s) : s \in Slots}

\* Variant: without the list of the modem to fall back on.
OnlyCallList(s) ==
    IF ~ready THEN Failed("EAGAIN")
    ELSE IF proxy[Object(CallList(s))] = 0 THEN Failed("EIO")
    ELSE IF Cached(CallList(s)) = Missing THEN Failed("EINVAL")
    ELSE [result |-> "OK", told |-> NumbersOf(Cached(CallList(s)))]

tapi_call_get_ecc_list(s) ==
    IF ~ready THEN Failed("EAGAIN")
    ELSE IF proxy[Object(CallList(s))] = 0 THEN Failed("EIO")
    ELSE IF Cached(CallList(s)) # Missing
    THEN [result |-> "OK", told |-> NumbersOf(Cached(CallList(s)))]
    ELSE IF Cached(ModemList(s)) # Missing
    THEN [result |-> "OK", told |-> NumbersOf(Cached(ModemList(s)))]
    ELSE Failed("EINVAL")

HasNumbers(list) == list.result = "OK" /\ list.told # {}

\* Variant: only the first slot is looked at.
InFirstList(number) ==
    HasNumbers(tapi_call_get_ecc_list(DEFAULT_SLOT_ID))
    /\ number \in tapi_call_get_ecc_list(DEFAULT_SLOT_ID).told

\* Whether the number is found: the loop over the slots ends at the first list that
\* cannot be had or is empty.
tapi_call_is_emergency_number(number) ==
    \E s \in Slots :
        /\ \A t \in 0..s : HasNumbers(tapi_call_get_ecc_list(t))
        /\ number \in tapi_call_get_ecc_list(s).told

-----------------------------------------------------------------------------
(* Properties *)

LooksAtLists == Lists \subseteq Cells /\ ready

\* A number in every list the phone has had is an emergency number at every moment, also
\* while the proxies of Call are replaced and have nothing yet ("no EmergencyNumbers in
\* CALL, use default").
FoundThroughout ==
    LooksAtLists /\ (\A s \in Slots : cache[ModemList(s)] # 0
                                      /\ proxy[Object(CallList(s))] # 0) =>
        \A number \in Numbers :
            (\A c \in Lists : \A i \in 1..Len(history[c]) : number \in NumbersOf(history[c][i]))
                => tapi_call_is_emergency_number(number)

\* When nothing is under way and every slot has a list, a number is found exactly if it
\* is in the list of one of the slots.
FoundOnAnySlot ==
    LooksAtLists /\ Quiet
    /\ (\A s \in Slots : Known(CallList(s)) /\ NumbersOf(Held(CallList(s))) # {}) =>
        \A number \in Numbers :
            tapi_call_is_emergency_number(number)
                <=> \E s \in Slots : number \in NumbersOf(Held(CallList(s)))

\* "-1: not emergency number" (tapi_call.h): a number in the list of some slot is not
\* denied.  Does not hold: a slot before it that has no list ends the lookup.
DeniedIsInNoList ==
    LooksAtLists /\ Quiet =>
        \A number \in Numbers :
            ~tapi_call_is_emergency_number(number)
                => \A s \in Slots : Known(CallList(s))
                                        => number \notin NumbersOf(Held(CallList(s)))
=============================================================================
