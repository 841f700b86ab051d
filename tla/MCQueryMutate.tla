----------------------------- MODULE MCQueryMutate -----------------------------
(* QueryMutate for TLC.                                                        *)
EXTENDS QueryMutate

AllModes  == MutateModes
AllFaults == {"query", "open", "mutate", "cancel"}
AutoMode  == {"auto"}
SizeLimit == {"mutate"}

================================================================================
