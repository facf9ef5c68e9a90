--------------------------------- MODULE Profiles ---------------------------------
(***************************************************************************)
(* Device profiles, MultiDeviceProfileManager of                           *)
(* src/shinvpn/crypto/profiles.py.  The GUI process and the command line   *)
(* each hold a copy of profiles.json, read once when they start, and write *)
(* it back whole; a new profile is entered into server.json too, which is  *)
(* read and written back.  A process may die, or its disk be full, in the  *)
(* middle of a write.                                                      *)
(*                                                                         *)
(* The n-th keypair is the number n, an address 10.8.0.x is x, and what    *)
(* matters of server.json are the keys it allows.                          *)
(***************************************************************************)
EXTENDS Naturals, FiniteSets, JsonFiles

CONSTANTS
    Procs,       \* the processes that use the profiles
    MaxProfiles, \* bound: profiles made
    MaxLaunches, \* bound: processes started
    MaxFaults    \* bound: processes that die and writes that fail

VARIABLES
    up,           \* the processes that run
    memory,       \* the profiles of each process
    profilesFile, \* profiles.json
    serverFile,   \* server.json
    job,          \* what each process is about to write
    made,         \* keypairs made so far (MaxProfiles)
    second,       \* int(time.time()), as far as it moved between two profiles
    launches,     \* processes started so far (MaxLaunches)
    faults,       \* deaths and failed writes so far (MaxFaults)
    promised,     \* history: the profiles that were returned to the user, less the deleted
    enrolled,     \* history: the keys that were saved in server.json
    sound,        \* history: no file was torn, and no two processes ran at a time
    deleted       \* history: a profile was deleted

files == <<profilesFile, serverFile>>
history == <<promised, enrolled, sound, deleted>>
profileVars == <<up, memory, profilesFile, serverFile, job, made, second, launches, faults,
                 promised, enrolled, sound, deleted>>

Keys == 1..MaxProfiles
Profile == [id : Nat \X Nat, vip : Nat, key : Keys]
NoProfile == [id |-> <<0, 0>>, vip |-> 0, key |-> 0]

\* A process writes profiles.json, reads server.json for a new profile, and writes it.
Stages == {"idle", "write", "read", "save"}
Idle == [stage |-> "idle", profile |-> NoProfile, peers |-> {}]

----------------------------------------------------------------------------------

\* A process starts: load_profiles.
Launch(p) ==
    /\ p \notin up
    /\ launches < MaxLaunches
    /\ launches' = launches + 1
    /\ up' = up \cup {p}
    /\ memory' = [memory EXCEPT ![p] = profilesFile.has]
    /\ sound' = (sound /\ up = {})
    /\ UNCHANGED <<files, job, made, second, faults, promised, enrolled, deleted>>

\* Variant: the id is the second alone.
NewProfileTimed(p, s) ==
    [id |-> <<s, 0>>, vip |-> Cardinality(memory[p]) + 2, key |-> made + 1]

\* A dictionary keeps one profile under an id.
NewProfile(p, s) ==
    [id |-> <<s, Cardinality(memory[p]) + 1>>, vip |-> Cardinality(memory[p]) + 2, key |-> made + 1]
Put(profiles, q) == {r \in profiles : r.id # q.id} \cup {q}

CreateProfile(p) ==
    /\ p \in up /\ job[p] = Idle
    /\ made < MaxProfiles
    /\ made' = made + 1
    /\ second' \in {second, second + 1}
    /\ LET q == NewProfile(p, second') IN
       /\ memory' = [memory EXCEPT ![p] = Put(@, q)]
       /\ job' = [job EXCEPT ![p] = [stage |-> "write", profile |-> q, peers |-> {}]]
    /\ UNCHANGED <<up, files, launches, faults, history>>

\* delete_profile and update_usage change the copy in memory and save it; server.json
\* keeps the key.  The amount of usage is left out.
DeleteProfile(p, q) ==
    /\ p \in up /\ job[p] = Idle
    /\ q \in memory[p]
    /\ memory' = [memory EXCEPT ![p] = @ \ {q}]
    /\ job' = [job EXCEPT ![p].stage = "write"]
    /\ promised' = promised \ {q}
    /\ deleted' = TRUE
    /\ UNCHANGED <<up, files, made, second, launches, faults, enrolled, sound>>

UpdateUsage(p) ==
    /\ p \in up /\ job[p] = Idle
    /\ memory[p] # {}
    /\ job' = [job EXCEPT ![p].stage = "write"]
    /\ UNCHANGED <<up, memory, files, made, second, launches, faults, history>>

\* save_profiles: the whole copy, whatever the file holds by now.
SaveProfiles(p) ==
    /\ job[p].stage = "write"
    /\ profilesFile' = Json(memory[p])
    /\ job' = [job EXCEPT ![p] = IF @.profile = NoProfile THEN Idle ELSE [@ EXCEPT !.stage = "read"]]
    /\ UNCHANGED <<up, memory, serverFile, made, second, launches, faults, history>>

\* The write fails, on a full disk for instance: it is logged, and create_profile goes on.
SaveFails(p) ==
    /\ job[p].stage = "write"
    /\ faults < MaxFaults
    /\ faults' = faults + 1
    /\ profilesFile' = Torn
    /\ sound' = FALSE
    /\ job' = [job EXCEPT ![p] = IF @.profile = NoProfile THEN Idle ELSE [@ EXCEPT !.stage = "read"]]
    /\ UNCHANGED <<up, memory, serverFile, made, second, launches, promised, enrolled, deleted>>

Return(p) == promised' = promised \cup {job[p].profile}

\* server.json is read, if it is there and JSON; otherwise the profile is returned as it is.
ReadPeers(p) ==
    /\ job[p].stage = "read"
    /\ IF serverFile.is # "json"
       THEN Return(p) /\ job' = [job EXCEPT ![p] = Idle]
       ELSE UNCHANGED promised /\ job' = [job EXCEPT ![p].stage = "save", ![p].peers = serverFile.has]
    /\ UNCHANGED <<up, memory, files, made, second, launches, faults, enrolled, sound, deleted>>

\* add_peer, and server.json is written back.
SavePeers(p) ==
    /\ job[p].stage = "save"
    /\ serverFile' = Json(job[p].peers \cup {job[p].profile.key})
    /\ enrolled' = enrolled \cup {job[p].profile.key}
    /\ Return(p)
    /\ job' = [job EXCEPT ![p] = Idle]
    /\ UNCHANGED <<up, memory, profilesFile, made, second, launches, faults, sound, deleted>>

\* A process ends at any moment: main() returns when the window is closed, and the thread
\* that serves requests dies with it.  A file it was about to write is as it was, or cut off;
\* saving tells that another handler of the process was about to write server.json.
Tear(file) == faults < MaxFaults /\ faults' = faults + 1 /\ file' = Torn /\ sound' = FALSE

Quit(p, saving) ==
    /\ p \in up
    /\ up' = up \ {p}
    /\ memory' = [memory EXCEPT ![p] = {}]
    /\ job' = [job EXCEPT ![p] = Idle]
    /\ \/ UNCHANGED <<files, faults, sound>>
       \/ job[p].stage = "write" /\ Tear(profilesFile) /\ UNCHANGED serverFile
       \/ (job[p].stage = "save" \/ saving) /\ Tear(serverFile) /\ UNCHANGED profilesFile
    /\ UNCHANGED <<made, second, launches, promised, enrolled, deleted>>

----------------------------------------------------------------------------------
(* The specification *)

Init ==
    /\ up = {}
    /\ memory = [p \in Procs |-> {}]
    /\ profilesFile = Absent
    /\ serverFile \in {Absent, Json({})}
    /\ job = [p \in Procs |-> Idle]
    /\ made = 0 /\ second = 0 /\ launches = 0 /\ faults = 0
    /\ promised = {} /\ enrolled = {}
    /\ sound = TRUE /\ deleted = FALSE

Work(p) == SaveProfiles(p) \/ SaveFails(p) \/ ReadPeers(p) \/ SavePeers(p)

Ask(p) ==
    \/ CreateProfile(p)
    \/ \E q \in memory[p] : DeleteProfile(p, q)
    \/ UpdateUsage(p)

Next == \E p \in Procs : Launch(p) \/ Ask(p) \/ Work(p) \/ Quit(p, FALSE)

Spec == Init /\ [][Next]_profileVars

----------------------------------------------------------------------------------
(* Properties *)

TypeOK ==
    /\ up \subseteq Procs
    /\ \A p \in Procs : memory[p] \subseteq Profile
    /\ profilesFile.is \in {"json", "absent", "torn"} /\ profilesFile.has \subseteq Profile
    /\ serverFile.is \in {"json", "absent", "torn"} /\ serverFile.has \subseteq Nat
    /\ \A p \in Procs : job[p].stage \in Stages /\ job[p].profile \in Profile \cup {NoProfile}
    /\ made \in 0..MaxProfiles /\ second \in Nat
    /\ launches \in 0..MaxLaunches /\ faults \in 0..MaxFaults
    /\ promised \subseteq Profile /\ enrolled \subseteq Nat
    /\ sound \in BOOLEAN /\ deleted \in BOOLEAN
    /\ \A p \in Procs : p \notin up => memory[p] = {} /\ job[p] = Idle

\* "Provisions a new device profile with a dedicated keypair and VIP" (profiles.py): through
\* any quits and restarts, what the user was given stays in the file, under an id and an
\* address of its own - as long as one process at a time uses the files, no write is cut
\* off and no profile is deleted, none of which the code looks after.
DevicesKept ==
    sound /\ ~deleted =>
        /\ promised \subseteq profilesFile.has
        /\ \A q, r \in promised : q # r => q.id # r.id /\ q.vip # r.vip

\* A key that was saved in server.json is never dropped from it, whichever handlers and
\* processes write it - as long as one process at a time does.
PeersKept == sound => enrolled \subseteq serverFile.has
==================================================================================
