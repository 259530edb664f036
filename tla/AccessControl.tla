---------------------------- MODULE AccessControl ----------------------------
(***************************************************************************)
(* The gateway's IP access control (gateway/security.rs): the whitelist,   *)
(* the blacklist and the mode, each kept in a table of the database        *)
(* (security_db.rs) and in memory, the commands that change them           *)
(* (commands/security.rs), and the verdict that the two middlewares give   *)
(* on a request (security.rs, auth.rs).                                    *)
(*                                                                         *)
(* A command is a sequence of steps; a step on a table is one statement    *)
(* under the connection's lock, and the one on memory that follows it is   *)
(* separate.  The program may end between any two steps; the next start    *)
(* reads the tables.  Left out: descriptions, reasons and times of rows,   *)
(* the columns of security_config other than the mode (nothing reads       *)
(* them), and errors of the database itself.                               *)
(***************************************************************************)
EXTENDS Integers, Sequences, FiniteSets

CONSTANTS
  Calls,        \* bound: commands under way at a time
  Addresses,    \* the addresses clients may have
  Typed,        \* the entries a user types
  Lans,         \* what get_lan_ip may answer; << >> when it finds none
  MaxIds,       \* bound: rows ever inserted in each table
  MaxShown,     \* bound: rows that the pages hold and the user means to remove
  Overlap       \* commands that change the same entry, or the mode, may overlap

Octets == 0..255
Exact == 33     \* the "prefix" of an entry written without a slash

ASSUME AddressesAssumption == Addresses \subseteq [1..4 -> Octets]
ASSUME TypedAssumption == Typed \subseteq [1..4 -> Octets] \X (0..Exact)
ASSUME LansAssumption == Lans \subseteq Addresses \cup {<< >>}
ASSUME MaxIdsAssumption == MaxIds \in [{"white", "black"} -> Nat]
ASSUME MaxShownAssumption == MaxShown \in Nat
ASSUME OverlapAssumption == Overlap \in BOOLEAN

Lists == {"white", "black"}
Modes == {"off", "whitelist", "blacklist"}
Loopback == <<127, 0, 0, 1>>

VARIABLES
  rows,         \* the tables ip_whitelist and ip_blacklist
  ids,          \* the last id each table gave: AUTOINCREMENT, never used again
  mode,         \* security_config.mode
  mem,          \* the two DashSets of SecurityState
  memMode,      \* its mode
  bind,         \* gateway_config.bind_address, saved
  shown,        \* rows that a listing gave the pages and that they still hold
  todo,         \* the steps each command has left
  job           \* what each command was asked for

vars == <<rows, ids, mode, mem, memMode, bind, shown, todo, job>>

----------------------------------------------------------------------------
(* Addresses *)

\* The first k bits of two octets are the same.
SameBits(a, b, k) == a \div (2 ^ (8 - k)) = b \div (2 ^ (8 - k))

\* Mutant: the mask keeps a bit too many.
InCidrWide(a, net, prefix) ==
  \A i \in 1..4 :
    LET kept == prefix + 1 - 8 * (i - 1)
    IN  kept > 0 => SameBits(a[i], net[i], IF kept > 8 THEN 8 ELSE kept)

\* ipv4_in_cidr, octet by octet: the bits that the mask keeps are the same.
InCidr(a, net, prefix) ==
  \A i \in 1..4 :
    LET kept == prefix - 8 * (i - 1)
    IN  kept > 0 => SameBits(a[i], net[i], IF kept > 8 THEN 8 ELSE kept)

\* Whether entry e is the address a itself or a range that holds it.
Covers(e, a) == IF e[2] = Exact THEN e[1] = a ELSE InCidr(a, e[1], e[2])

\* Mutant: one network too many.
IsRfc1918Wide(a) ==
  \/ a[1] = 10
  \/ a[1] = 172 /\ a[2] \in 16..32
  \/ a[1] = 192 /\ a[2] = 168

IsRfc1918(a) ==
  \/ a[1] = 10
  \/ a[1] = 172 /\ a[2] \in 16..31
  \/ a[1] = 192 /\ a[2] = 168

\* What "LAN sharing" adds for this machine's address: its /24, or itself alone.
LanEntry(a) ==
  IF IsRfc1918(a) THEN <<<<a[1], a[2], a[3], 0>>, 24>> ELSE <<a, Exact>>

Hosts == {<<Loopback, Exact>>} \cup {LanEntry(a) : a \in Lans \ {<< >>}}
Entries == Typed \cup Hosts

\* ip_check_middleware; the blacklist has no ranges.
Admits(a) ==
  CASE memMode = "off" -> TRUE
    [] memMode = "whitelist" -> \E e \in mem["white"] : Covers(e, a)
    [] memMode = "blacklist" -> <<a, Exact>> \notin mem["black"]

\* auth_middleware
Authorized(path, key) == path = "/health" \/ key = "right"

\* ip_check_middleware is the outer one of the two.
Verdict(path, a, key) ==
  IF path # "/health" /\ ~Admits(a) THEN "forbidden"
  ELSE IF Authorized(path, key) THEN "served" ELSE "unauthorized"

----------------------------------------------------------------------------
Row == [id : Nat, entry : Entries, expires : {"never", "due", "past"},
        lan : {<< >>, Loopback} \cup Lans]
Listed == [list : Lists, id : Nat, entry : Entries]
NoJob == [op |-> "none", lan |-> << >>, on |-> {}]

Init ==
  /\ rows = [l \in Lists |-> {}]
  /\ ids = [l \in Lists |-> 0]
  /\ mode = "off" /\ memMode = "off"
  /\ mem = [l \in Lists |-> {}]
  /\ bind = "127.0.0.1"
  /\ shown = {}
  /\ todo = [c \in Calls |-> << >>]
  /\ job = [c \in Calls |-> NoJob]

\* Steps.  "lan" names the address an automatic entry was made for.
AddStep(l, e, x, lan) == [do |-> "add", list |-> l, entry |-> e, expires |-> x, lan |-> lan]
MemStep(do, l, e) == [do |-> do, list |-> l, entry |-> e]
RemoveStep(r) == [do |-> "remove", list |-> r.list, entry |-> r.entry, id |-> r.id]
ModeSteps(m) == <<[do |-> "mode", to |-> m], [do |-> "apply", to |-> m]>>
BindStep(to) == [do |-> "bind", to |-> to]

\* What a step changes, so that overlapping commands can be told apart.
Touches(s) == CASE s.do \in {"add", "insert", "remove", "erase"} -> {<<s.list, s.entry>>}
                [] s.do \in {"mode", "apply"} -> {<<"mode">>}
                [] s.do = "bind" -> {<<"bind">>}
TouchedBy(steps) == UNION {Touches(steps[i]) : i \in DOMAIN steps}

Start(c, op, lan, steps) ==
  /\ todo[c] = << >>
  /\ ~Overlap => \A d \in Calls : job[d].on \cap TouchedBy(steps) = {}
  /\ todo' = [todo EXCEPT ![c] = steps]
  /\ job' = [job EXCEPT ![c] = [op |-> op, lan |-> lan, on |-> TouchedBy(steps)]]

----------------------------------------------------------------------------
(* Commands *)

\* list_whitelist and list_blacklist, for a row that the user is going to remove:
\* two listings may be answered out of order, so that a page may hold rows that
\* are gone.
List(l) ==
  \E r \in rows[l] :
    /\ Cardinality(shown) < MaxShown
    /\ shown' = shown \cup {[list |-> l, id |-> r.id, entry |-> r.entry]}
    /\ UNCHANGED <<rows, ids, mode, mem, memMode, bind, todo, job>>

Add(c) ==
  \E l \in Lists, e \in Typed, x \in {"never", "due"} :
    /\ l = "white" => x = "never"
    /\ Start(c, "add", << >>, <<AddStep(l, e, x, << >>)>>)
    /\ UNCHANGED <<rows, ids, mode, mem, memMode, bind, shown>>

\* The page takes the row off its list at once.
Remove(c) ==
  \E r \in shown :
    /\ Start(c, "remove", << >>, <<RemoveStep(r)>>)
    /\ shown' = shown \ {r}
    /\ UNCHANGED <<rows, ids, mode, mem, memMode, bind>>

UpdateConfig(c) ==
  \E m \in Modes :
    /\ Start(c, "config", << >>, ModeSteps(m))
    /\ UNCHANGED <<rows, ids, mode, mem, memMode, bind, shown>>

EnableLanSharing(c) ==
  \E lan \in Lans :
    /\ Start(c, "enable", lan,
             <<BindStep("0.0.0.0"),
               AddStep("white", <<Loopback, Exact>>, "never", Loopback)>>
             \o (IF lan = << >> THEN << >>
                 ELSE <<AddStep("white", LanEntry(lan), "never", lan)>>)
             \o ModeSteps("whitelist"))
    /\ UNCHANGED <<rows, ids, mode, mem, memMode, bind, shown>>

DisableLanSharing(c) ==
  /\ Start(c, "disable", << >>, <<BindStep("127.0.0.1")>> \o ModeSteps("off"))
  /\ UNCHANGED <<rows, ids, mode, mem, memMode, bind, shown>>

----------------------------------------------------------------------------
(* Steps *)

At(c, do) == todo[c] # << >> /\ Head(todo[c]).do = do
\* The step is done and followed by more; the command returns after its last one.
Then(c, more) ==
  /\ todo' = [todo EXCEPT ![c] = more \o Tail(@)]
  /\ job' = IF todo'[c] = << >> THEN [job EXCEPT ![c] = NoJob] ELSE job

Bind(c) ==
  /\ At(c, "bind")
  /\ bind' = Head(todo[c]).to
  /\ Then(c, << >>)
  /\ UNCHANGED <<rows, ids, mode, mem, memMode, shown>>

\* Mutants: the table does not refuse an address that is there; an id is given again
\* when its row is gone.
AddRowTwice(c) ==
  /\ At(c, "add")
  /\ LET s == Head(todo[c])
     IN  /\ ids[s.list] < MaxIds[s.list]
         /\ ids' = [ids EXCEPT ![s.list] = @ + 1]
         /\ rows' = [rows EXCEPT ![s.list] = @ \cup
              {[id |-> ids[s.list] + 1, entry |-> s.entry,
                expires |-> s.expires, lan |-> s.lan]}]
         /\ Then(c, <<MemStep("insert", s.list, s.entry)>>)
  /\ UNCHANGED <<mode, mem, memMode, bind, shown>>
AddRowReusesIds(c) ==
  /\ At(c, "add")
  /\ LET s == Head(todo[c])
         free == (1..MaxIds[s.list]) \ {r.id : r \in rows[s.list]}
         id == CHOOSE i \in free : \A k \in free : i <= k
     IN  /\ free # {} /\ \A r \in rows[s.list] : r.entry # s.entry
         /\ ids' = [ids EXCEPT ![s.list] = IF id > @ THEN id ELSE @]
         /\ rows' = [rows EXCEPT ![s.list] = @ \cup
              {[id |-> id, entry |-> s.entry, expires |-> s.expires, lan |-> s.lan]}]
         /\ Then(c, <<MemStep("insert", s.list, s.entry)>>)
  /\ UNCHANGED <<mode, mem, memMode, bind, shown>>

\* INSERT, which the UNIQUE constraint refuses for an address that is there: the
\* command fails, and LAN sharing, which ignores the error, goes on.
AddRow(c) ==
  /\ At(c, "add")
  /\ LET s == Head(todo[c])
     IN  IF \E r \in rows[s.list] : r.entry = s.entry
         THEN Then(c, << >>) /\ UNCHANGED <<rows, ids>>
         ELSE /\ ids[s.list] < MaxIds[s.list]
              /\ ids' = [ids EXCEPT ![s.list] = @ + 1]
              /\ rows' = [rows EXCEPT ![s.list] = @ \cup
                   {[id |-> ids[s.list] + 1, entry |-> s.entry,
                     expires |-> s.expires, lan |-> s.lan]}]
              /\ Then(c, <<MemStep("insert", s.list, s.entry)>>)
  /\ UNCHANGED <<mode, mem, memMode, bind, shown>>

\* DELETE by id; the address taken from memory is the one the page named.
RemoveRow(c) ==
  /\ At(c, "remove")
  /\ LET s == Head(todo[c])
         gone == {r \in rows[s.list] : r.id = s.id}
     IN  /\ rows' = [rows EXCEPT ![s.list] = @ \ gone]
         /\ Then(c, IF gone = {} THEN << >> ELSE <<MemStep("erase", s.list, s.entry)>>)
  /\ UNCHANGED <<ids, mode, mem, memMode, bind, shown>>

Insert(c) ==
  /\ At(c, "insert")
  /\ mem' = [mem EXCEPT ![Head(todo[c]).list] = @ \cup {Head(todo[c]).entry}]
  /\ Then(c, << >>)
  /\ UNCHANGED <<rows, ids, mode, memMode, bind, shown>>

Erase(c) ==
  /\ At(c, "erase")
  /\ mem' = [mem EXCEPT ![Head(todo[c]).list] = @ \ {Head(todo[c]).entry}]
  /\ Then(c, << >>)
  /\ UNCHANGED <<rows, ids, mode, memMode, bind, shown>>

\* update_security_config, with the row that set_mode read just before.
WriteMode(c) ==
  /\ At(c, "mode")
  /\ mode' = Head(todo[c]).to
  /\ Then(c, << >>)
  /\ UNCHANGED <<rows, ids, mem, memMode, bind, shown>>

ApplyMode(c) ==
  /\ At(c, "apply")
  /\ memMode' = Head(todo[c]).to
  /\ Then(c, << >>)
  /\ UNCHANGED <<rows, ids, mode, mem, bind, shown>>

\* Time passes the expires_at of a ban.
Expire ==
  \E r \in rows["black"] :
    /\ r.expires = "due"
    /\ rows' = [rows EXCEPT !["black"] = (@ \ {r}) \cup {[r EXCEPT !.expires = "past"]}]
    /\ UNCHANGED <<ids, mode, mem, memMode, bind, shown, todo, job>>

\* Mutant: only bans without an end are read.
ReloadForever(l) == {r.entry : r \in {s \in rows[l] : s.expires = "never"}}

\* reload: the entries in force
Reload(l) == {r.entry : r \in {s \in rows[l] : s.expires # "past"}}

\* The program ends, whatever is under way, and starts again.
Restart ==
  /\ memMode' = mode
  /\ mem' = [l \in Lists |-> Reload(l)]
  /\ shown' = {}
  /\ todo' = [c \in Calls |-> << >>]
  /\ job' = [c \in Calls |-> NoJob]
  /\ UNCHANGED <<rows, ids, mode, bind>>

Next ==
  \/ \E l \in Lists : List(l)
  \/ \E c \in Calls :
       \/ Add(c) \/ Remove(c) \/ UpdateConfig(c)
       \/ EnableLanSharing(c) \/ DisableLanSharing(c)
       \/ Bind(c) \/ AddRow(c) \/ RemoveRow(c)
       \/ Insert(c) \/ Erase(c) \/ WriteMode(c) \/ ApplyMode(c)
  \/ Expire
  \/ Restart

Spec == Init /\ [][Next]_vars

----------------------------------------------------------------------------
(* Properties *)

\* Every variable has its type; an id names at most one row, none above the last
\* one given, and an entry has at most one row in a table.
TypeOK ==
  /\ \A l \in Lists :
       /\ rows[l] \subseteq Row
       /\ mem[l] \subseteq Entries
       /\ ids[l] \in 0..MaxIds[l]
       /\ \A r, s \in rows[l] : (r.id = s.id \/ r.entry = s.entry) => r = s
       /\ \A r \in rows[l] : r.id <= ids[l]
  /\ mode \in Modes /\ memMode \in Modes
  /\ bind \in {"127.0.0.1", "0.0.0.0"}
  /\ shown \subseteq Listed
  /\ \A c \in Calls : job[c].op \in {"none", "add", "remove", "config", "enable", "disable"}

\* A command has changed the table and not yet the memory that goes with it.
Between(what, steps) ==
  \E c \in Calls : At(c, steps) /\ what \in Touches(Head(todo[c]))

\* What the gateway enforces is what a restart would enforce: outside the instant
\* between the two writes of a command, the whitelist and the mode in memory are
\* those of the tables, whatever commands failed, were given rows that are gone,
\* or were cut short by the end of the program (security.rs, "write SQLite first,
\* then update memory").
MemoryMatchesTables ==
  /\ \A e \in Entries :
       ~Between(<<"white", e>>, "insert") /\ ~Between(<<"white", e>>, "erase") =>
         (e \in mem["white"] <=> \E r \in rows["white"] : r.entry = e)
  /\ ~Between(<<"mode">>, "apply") => memMode = mode

\* A ban that is in the table and has not expired is enforced, and nobody is banned
\* without a row: an unban is not undone by another command or by a restart.  A ban
\* that has expired may go on being enforced, see ExpiredBanEnds.
BansInForce ==
  \A e \in Entries :
    ~Between(<<"black", e>>, "insert") /\ ~Between(<<"black", e>>, "erase") =>
      /\ (\E r \in rows["black"] : r.entry = e /\ r.expires # "past") => e \in mem["black"]
      /\ e \in mem["black"] => \E r \in rows["black"] : r.entry = e

\* A ban is over when it expires, as security_db::is_blacklisted and its test have it
\* (security_db.rs:322-336, 633-643).  False in the code: the gateway asks the set in
\* memory (security.rs:89), which forgets an expired ban at the next start only.
ExpiredBanEnds ==
  \A e \in Entries :
    ~Between(<<"black", e>>, "insert") /\ ~Between(<<"black", e>>, "erase") =>
      (e \in mem["black"] => \E r \in rows["black"] : r.entry = e /\ r.expires # "past")

\* The ranges of RFC 1918, as the comment of lan_ip_to_slash_24 gives them.
Private(a) ==
  \/ InCidr(a, <<10, 0, 0, 0>>, 8)
  \/ InCidr(a, <<172, 16, 0, 0>>, 12)
  \/ InCidr(a, <<192, 168, 0, 0>>, 16)

\* Whatever network the machine was on each time LAN sharing was turned on, an entry
\* added by it admits, besides this machine, only private addresses of that subnet.
AutoEntriesStayLocal ==
  \A r \in rows["white"] :
    r.lan # << >> =>
      \A a \in Addresses :
        Covers(r.entry, a) =>
          \/ a = r.lan
          \/ Private(a) /\ Private(r.lan) /\ \A i \in 1..3 : a[i] = r.lan[i]

\* a is this machine, whose address in the network is lan, or one beside it there.
IsNeighbour(a, lan) ==
  \/ a \in {Loopback, lan}
  \/ lan # << >> /\ Private(lan) /\ \A i \in 1..3 : a[i] = lan[i]

\* When enable_lan_sharing returns Ok, this machine and, on a private network, every
\* device of its subnet are served with the right key, whatever the lists held
\* before and whatever other commands did meanwhile.
EnableAdmits ==
  [][\A c \in Calls :
       ApplyMode(c) /\ job[c].op = "enable" =>
         \A a \in Addresses : IsNeighbour(a, job[c].lan) =>
           (Verdict("/v1/messages", a, "right") = "served")']_vars
=============================================================================
