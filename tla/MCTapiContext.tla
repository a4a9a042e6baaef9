---------------------------- MODULE MCTapiContext ----------------------------
EXTENDS TapiContext

\* Three interfaces stand for the fifteen of the table: one that is read, one that
\* the filter leaves unread and one that is turned off.
Servers3 == <<"Radio", "Message", "Ims">>
Message  == {"Message"}
Ims      == {"Ims"}
=============================================================================
