------------------------------- MODULE ListTable -------------------------------
(***************************************************************************)
(* The functions of TAPI that take a list out of a message, one record     *)
(* each: how many entries the array has and when the function looks        *)
(* whether it is full, which blocks an entry needs and which more it has   *)
(* for its properties, whether entries are freed after the callback and    *)
(* whether a property an entry does not have leaves its pointer unset, and *)
(* the kinds of entries there can be.  Module Lists runs them.             *)
(***************************************************************************)
EXTENDS Integers

\* Strings or paths that stay in the message.
Plain(capacity) ==
    [capacity |-> capacity, test |-> "after", blocks |-> <<>>, fields |-> {},
     frees |-> FALSE, raw |-> FALSE, errors |-> TRUE, kinds |-> {"whole"}]

\* A list that is no reply: of a property, or of a signal.
NoReply(decoder) == [decoder EXCEPT !.errors = FALSE]

\* A structure for each entry.
Allocated(capacity, blocks) == [Plain(capacity) EXCEPT !.blocks = blocks, !.frees = TRUE]

-----------------------------------------------------------------------------
modem_list_query_done == Plain(10)
merge_call_complete   == Plain(6)

\* A number and its category and condition are one entry.
tapi_call_get_ecc_list    == NoReply(Plain(30))
tapi_call_property_change == NoReply(Plain(30))
modem_ecc_list_change     == NoReply(Plain(30))

oem_ril_request_strings_cb == [Plain(20) EXCEPT !.test = "before"]

\* ip_settings is NULL, so that the addresses are not looked at.
apn_list_loaded == Allocated(10, <<"context">>)

\* Contexts that are not active are passed over.
data_connection_list_query_done ==
    [Allocated(10, <<"context", "ip_settings">>) EXCEPT
        !.fields = {"ipv4", "ipv6"}, !.kinds = {"whole", "partial", "passed"}]

cellinfo_list_changed      == NoReply(Allocated(30, <<"cell">>))
cell_list_request_complete == Allocated(30, <<"cell">>)
operator_scan_complete     == Allocated(30, <<"operator">>)

call_list_query_complete == [Plain(10) EXCEPT !.test = "never"]

message_list_query_complete ==
    [Plain(200) EXCEPT
        !.test = "never", !.fields = {"sender", "text", "sent_time", "local_sent_time"},
        !.frees = TRUE, !.raw = TRUE, !.kinds = {"whole", "partial"}]

AllDecoders ==
    {modem_list_query_done, merge_call_complete, tapi_call_get_ecc_list,
     tapi_call_property_change, modem_ecc_list_change, oem_ril_request_strings_cb,
     apn_list_loaded, data_connection_list_query_done, cellinfo_list_changed,
     cell_list_request_complete, operator_scan_complete, call_list_query_complete,
     message_list_query_complete}
=============================================================================
