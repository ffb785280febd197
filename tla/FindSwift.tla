------------------------------ MODULE FindSwift ------------------------------
(***************************************************************************)
(* findSwift/findSwift.py: a one-shot scanner that probes every host of a *)
(* subnet for a Swift proxy (GET /info), authenticates at each one found  *)
(* (GET /auth/v1.0), reads each authorized account with swiftclient       *)
(* (head_account, get_account, get_capabilities), and prints a report.    *)
(*                                                                         *)
(* The program is sequential; what varies is how each host answers, and   *)
(* every call is an \E over the answers the host can give.  Data is       *)
(* abstracted to which fields of a SwiftNode hold a value read from the   *)
(* host: the container count, the container names, the policies.          *)
(***************************************************************************)
EXTENDS Naturals, Sequences

CONSTANTS
  Net   \* the hosts scanned, in order: ip_network(...).hosts(), or the
        \* four fixed addresses of --debug

(* What GET http://host:port/info can give (dumpSwiftInfo, scanSubnet):    *)
(* no answer (ConnectionError or the 0.01 s Timeout), a 4xx/5xx (HTTPError *)
(* from raise_for_status), a Swift /info document, a 2xx JSON document    *)
(* without a 'swift' key (KeyError), a 2xx body that is not JSON          *)
(* (ValueError from req.json()).                                            *)
InfoReplies == {"unreachable", "http_error", "swift", "json_not_swift", "not_json"}
CaughtInfo  == {"unreachable", "http_error"}   \* scanSubnet's except clause

(* What GET /auth/v1.0 can give (getAuthKeys): 200 with both headers, 200  *)
(* without x-auth-token or without x-storage-url (KeyError), a 4xx/5xx or  *)
(* no answer, and a 2xx other than 200, which neither raises nor is read.  *)
AuthReplies == {"ok", "no_token", "no_url", "error", "other_2xx"}

(* Each of head_account, get_account, get_capabilities either answers or  *)
(* raises (ClientException, a connection error); none is caught.          *)
ClientReplies == {"ok", "raises"}

Unauthorized == "Unauthorized"

VARIABLES
  pc,         \* "scan", "auth", "client", "report", "exited", "aborted"
  i,          \* the loop index of the current phase
  swiftList   \* the SwiftNodes found, in order

vars == <<pc, i, swiftList>>

(* SwiftNode.__init__: authKey and authURL are 0, the counts 0, the lists *)
(* empty; "none" stands for a field not read from the host.               *)
SwiftNode(host) ==
  [hostIP |-> host, authKey |-> FALSE, authURL |-> FALSE,
   containerCount |-> "none", containers |-> "none", bytesInUse |-> "none",
   policies |-> "none"]

Node == [hostIP : {Net[k] : k \in 1..Len(Net)}, authKey : BOOLEAN, authURL : BOOLEAN,
         containerCount : {"none", "read", Unauthorized},
         containers : {"none", "read", Unauthorized},
         bytesInUse : {"none", "read", Unauthorized}, policies : {"none", "read"}]

Init == pc = "scan" /\ i = 1 /\ swiftList = <<>>

(* scanSubnet, one host: a Swift /info appends a SwiftNode; the caught    *)
(* errors skip the host; any other exception leaves main().               *)
scanSubnet_host ==
  /\ pc = "scan" /\ i <= Len(Net)
  /\ \E r \in InfoReplies :
       \/ r \in CaughtInfo /\ i' = i + 1 /\ UNCHANGED <<pc, swiftList>>
       \/ r = "swift" /\ i' = i + 1 /\ swiftList' = Append(swiftList, SwiftNode(Net[i]))
          /\ UNCHANGED pc
       \/ r \in {"json_not_swift", "not_json"} /\ pc' = "aborted" /\ UNCHANGED <<i, swiftList>>

(* The end of scanSubnet; main() calls getAuthKeys next. *)
scanSubnet_done ==
  /\ pc = "scan" /\ i > Len(Net)
  /\ pc' = "auth" /\ i' = 1 /\ UNCHANGED swiftList

(* The three fields getAuthKeys' except clause sets. *)
MarkUnauthorized(n) ==
  [n EXCEPT !.containerCount = Unauthorized, !.containers = Unauthorized,
            !.bytesInUse = Unauthorized]

(* getAuthKeys, one node: 200 sets authKey and then authURL, a missing    *)
(* header raising KeyError between or before them; every exception is     *)
(* caught and marks the node Unauthorized; another 2xx changes nothing.    *)
AuthResult(n, r) ==
  CASE r = "ok"        -> [n EXCEPT !.authKey = TRUE, !.authURL = TRUE]
    [] r = "no_url"    -> MarkUnauthorized([n EXCEPT !.authKey = TRUE])
    [] r = "other_2xx" -> n
    [] OTHER           -> MarkUnauthorized(n)

getAuthKeys_node ==
  /\ pc = "auth" /\ i <= Len(swiftList)
  /\ \E r \in AuthReplies : swiftList' = [swiftList EXCEPT ![i] = AuthResult(@, r)]
  /\ i' = i + 1 /\ UNCHANGED pc

getAuthKeys_done ==
  /\ pc = "auth" /\ i > Len(swiftList)
  /\ pc' = "client" /\ i' = 1 /\ UNCHANGED swiftList

(* testSwiftClient, one node: a node without url or token is skipped;     *)
(* otherwise head_account fills the counts, get_account the container     *)
(* names and get_capabilities the policies, and an exception from any of  *)
(* them propagates out of main().                                         *)
testSwiftClient_node ==
  /\ pc = "client" /\ i <= Len(swiftList)
  /\ LET n == swiftList[i] IN
       \/ ~(n.authURL /\ n.authKey) /\ i' = i + 1 /\ UNCHANGED <<pc, swiftList>>
       \/ n.authURL /\ n.authKey
          /\ \E head, account, caps \in ClientReplies :
               IF head = "ok" /\ account = "ok" /\ caps = "ok"
               THEN /\ swiftList' = [swiftList EXCEPT ![i] =
                          [n EXCEPT !.containerCount = "read", !.bytesInUse = "read",
                                    !.containers = "read", !.policies = "read"]]
                    /\ i' = i + 1 /\ UNCHANGED pc
               ELSE pc' = "aborted" /\ UNCHANGED <<i, swiftList>>

(* The end of testSwiftClient: "Done Scanning!" and dumpSwiftNodes. *)
testSwiftClient_done ==
  /\ pc = "client" /\ i > Len(swiftList)
  /\ pc' = "report" /\ UNCHANGED <<i, swiftList>>

(* dumpSwiftNodes prints the list, and main() calls sys.exit(0). *)
dumpSwiftNodes ==
  /\ pc = "report"
  /\ pc' = "exited" /\ UNCHANGED <<i, swiftList>>

Next ==
  \/ scanSubnet_host \/ scanSubnet_done
  \/ getAuthKeys_node \/ getAuthKeys_done
  \/ testSwiftClient_node \/ testSwiftClient_done
  \/ dumpSwiftNodes

(* The process runs its loops to the end unless an exception stops it. *)
Spec == Init /\ [][Next]_vars /\ WF_vars(Next)

TypeOK ==
  /\ pc \in {"scan", "auth", "client", "report", "exited", "aborted"}
  /\ i \in 1..(Len(Net) + 1)
  /\ swiftList \in Seq(Node)

(* The scan reports: whatever the hosts of the subnet answer, the run      *)
(* reaches dumpSwiftNodes, as scanSubnet's "Ignore all connection errors"  *)
(* and testSwiftClient's "Skip nodes we couldn't authorize" intend.         *)
ScanReported == <>(pc = "exited")
=============================================================================
