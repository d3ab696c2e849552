--------------------------- MODULE MCClientStores ----------------------------
(* Two terminals: one sets a server of two instances, its key and a git host *)
(* up, the other changes the same server and other parts of the file.        *)
(* Not run: `local clear-hooks` writes what an edit to an empty list does,   *)
(* and setting an entry that is there what adding it does.                   *)
EXTENDS ClientStores, TLC

CONSTANTS t1, t2, s, i1, i2, host, v, line, k1, k2

Do(do, name, value, to) == [do |-> do, name |-> name, value |-> value, to |-> to]
ToServer(do)            == Do(do, s, line, "entry")

TwoTerminals ==
  (t1 :> ({Do("add", s, "ssm-ssh", i) : i \in Instances}
          \cup {ToServer(do) : do \in {"setup", "key"}}
          \cup {Do(do, host, v, "git_hosts") : do \in {"login", "logout"}}))
  @@
  (t2 :> ({ToServer(do) : do \in {"password", "remove", "add_hook", "clear_hooks", "edit_hooks"}}
          \cup {Do(do, "local", line, "local") : do \in LocalCommand \ {"local_clear"}}
          \cup {Do(do, host, v, "projects") : do \in TableCommand \ {"set_entry"}}))

\* Both terminals set up and sign in.
BothSetUp == (t1 :> TwoTerminals[t1]) @@ (t2 :> TwoTerminals[t1])

Alike == Permutations({i1, i2}) \cup Permutations({k1, k2})
=============================================================================
