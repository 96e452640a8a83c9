--------------------------- MODULE MCMultiLookup ---------------------------
(***************************************************************************)
(* Small instances of MultiLookup: command lines of up to three data       *)
(* files, of which "missing" cannot be opened, and pools of two or three.  *)
(***************************************************************************)
EXTENDS MultiLookup

CONSTANTS one, pill, bad, missing,  \* data files
          long_name,                \* a file name or line array_put rejects
          x, y                      \* hostnames

MCHosts    == {x, y, long_name, POISON}
MCContents == [f \in {one, pill, bad} |-> CASE f = one  -> <<x, y>>
                                           [] f = pill -> <<x, POISON>>
                                           [] f = bad  -> <<x, long_name, y>>]

\* y has an IPv6 address first, the others have none or an IPv4 address.
MCAddresses == [h \in MCHosts |-> CASE h = x -> <<"AF_INET">>
                                    [] h = y -> <<"AF_INET6", "AF_INET">>
                                    [] OTHER -> << >>]

\* Files that are found, that end a thread each, that are not accepted.
AnyCommand == {<<missing, one, pill>>, <<one, bad>>, <<missing, missing, one>>,
               <<long_name>>, << >>, <<one, one, one, one, one>>}
MissingOne == {<<missing, one>>}

None       == {}
AnyFailure == {"args_malloc", "pthread_create"}
=============================================================================
