------------------------------ MODULE OuterProofs ------------------------------
(***************************************************************************)
(* What holds of the three parts around the core for any of their inputs:  *)
(* the registry of projects and its databases, the hook installer, and the *)
(* crawler with the indexing of its pages.                                 *)
(***************************************************************************)
EXTENDS Outer, Sequences, Selection, TLAPS, FiniteSetTheorems, SequenceTheorems, WellFoundedInduction

-----------------------------------------------------------------------------
(* The registry of projects and its databases.                              *)

(* A row's slug is that of its remote, the default project's excepted.     *)
RowInv == \A p \in rows : p.remote # DefaultRemote => p.slug = SlugOf[p.remote]

(* What a command works with.                                              *)
CliInv ==
    \A c \in Clis :
        /\ cli[c].pc # "idle" => cli[c].slug \in Slugs
        /\ cli[c].pc \in {"overwrite", "register", "open"} =>
               cli[c].remote \in Remotes /\ cli[c].slug = SlugOf[cli[c].remote]

ReqInv == \A r \in Requests : req[r].pc # "idle" => req[r].slug \in Slugs

BootInv == server.todo # {} => server.pc = "warm"

BasicInv == TypeOK /\ RowInv /\ CliInv /\ ReqInv /\ BootInv

(* Slug s has a row, or there is a reason why it has none.                 *)
Accounted(s) ==
    \/ Registered(s) \/ s \in kept \cup refused \cup crossed
    \/ \E c \in Clis : cli[c].pc = "register" /\ cli[c].slug = s

Purging(s) == \E c \in Clis : cli[c].pc = "purge" /\ cli[c].slug = s

(* Whoever is about to open a database knows its project accounted for.    *)
DataInv ==
    /\ \A s \in Slugs : disk[s] # 0 => Accounted(s) \/ Purging(s)
    /\ \A c \in Clis : cli[c].pc = "open" => Accounted(cli[c].slug)
    /\ server.pc = "open" => Accounted(default)
    /\ \A s \in server.todo : Accounted(s)
    /\ \A r \in Requests : req[r].pc = "serve" => Accounted(req[r].slug)

(* The model starts well typed, with nothing in its tables.                *)
LEMMA InitBasic == Init => BasicInv
<1> SUFFICES ASSUME Init PROVE BasicInv
  OBVIOUS
<1> USE ProjectsAssumption DEF Init, IdleCli, IdleReq, Starting
<1>1. TypeOK
  BY DEF TypeOK, CliStates
<1>2. RowInv /\ CliInv /\ ReqInv /\ BootInv
  BY DEF RowInv, CliInv, ReqInv, BootInv
<1> QED
  BY <1>1, <1>2 DEF BasicInv

(* Every step of a command, the server or a request keeps the types.       *)
LEMMA NextTypeOK == BasicInv /\ [Next]_vars => TypeOK'
<1> SUFFICES ASSUME BasicInv, [Next]_vars PROVE TypeOK'
  OBVIOUS
<1> USE ProjectsAssumption DEF BasicInv, TypeOK, CliStates, CliInv, ReqInv, BootInv, IdleCli, IdleReq
<1>1. ASSUME NEW c \in Clis, NEW remote \in Remotes, RegisterCmd(c, remote) PROVE TypeOK'
  BY <1>1 DEF RegisterCmd, Begin
<1>2. ASSUME NEW c \in Clis, NEW remote \in Remotes, NEW force \in BOOLEAN, InitGet(c, remote, force) PROVE TypeOK'
  <2>1. SlugOf[remote] \in Slugs
    OBVIOUS
  <2>2. cli' \in [Clis -> CliStates]
    <3>1. \/ cli' = cli
          \/ cli' = [cli EXCEPT ![c] = [pc |-> "overwrite", slug |-> SlugOf[remote], remote |-> remote, flag |-> TRUE]]
          \/ cli' = [cli EXCEPT ![c] = [pc |-> "register", slug |-> SlugOf[remote], remote |-> remote, flag |-> TRUE]]
      BY <1>2, Zenon DEF InitGet
    <3>2. ASSUME NEW step \in {"overwrite", "register"},
                 cli' = [cli EXCEPT ![c] = [pc |-> step, slug |-> SlugOf[remote], remote |-> remote, flag |-> TRUE]]
          PROVE  cli' \in [Clis -> CliStates]
      BY <2>1, <3>2
    <3> QED
      BY <3>1, <3>2
  <2> QED
    BY <1>2, <2>1, <2>2 DEF InitGet, Begin
<1>3. ASSUME NEW c \in Clis, NEW slug \in Slugs, NEW purge \in BOOLEAN, DeleteCmd(c, slug, purge) PROVE TypeOK'
  <2>1. cli' \in [Clis -> CliStates]
    BY <1>3 DEF DeleteCmd
  <2> QED
    BY <1>3, <2>1 DEF DeleteCmd, Begin
<1>4. ASSUME NEW c \in Clis, InitDelete(c) PROVE TypeOK'
  BY <1>4 DEF InitDelete
<1>5. ASSUME NEW c \in Clis, Register(c) PROVE TypeOK'
  BY <1>5 DEF Register, Insert
<1>6. ASSUME NEW c \in Clis, InitOpen(c) PROVE TypeOK'
  BY <1>6 DEF InitOpen, Opened
<1>7. ASSUME NEW c \in Clis, Purge(c) PROVE TypeOK'
  BY <1>7 DEF Purge
<1>8. ASSUME NEW c \in Clis, Killed(c) PROVE TypeOK'
  BY <1>8 DEF Killed
<1>9. ASSUME NEW r \in Requests, NEW slug \in Slugs, Request(r, slug) PROVE TypeOK'
  BY <1>9 DEF Request, Begin, AfterGet
<1>10. ASSUME NEW r \in Requests, RegisterDefault(r) PROVE TypeOK'
  BY <1>10 DEF RegisterDefault, InsertDefault, Insert
<1>11. ASSUME NEW r \in Requests, Serve(r) PROVE TypeOK'
  BY <1>11 DEF Serve, GetStore, Opened
<1>12. CASE BootGet
  BY <1>12 DEF BootGet
<1>13. CASE BootRegister
  BY <1>13 DEF BootRegister, InsertDefault, Insert
<1>14. CASE BootOpen
  BY <1>14 DEF BootOpen, GetStore, Opened
<1>15. CASE BootList
  BY <1>15 DEF BootList
<1>16. CASE BootWarm
  BY <1>16 DEF BootWarm, GetStore, Opened
<1>17. ASSUME NEW d \in Defaults, Restart(d) PROVE TypeOK'
  BY <1>17 DEF Restart, Starting
<1>18. CASE UNCHANGED vars
  BY <1>18 DEF vars
<1> HIDE DEF BasicInv, TypeOK, CliStates, CliInv, ReqInv, BootInv, IdleCli, IdleReq
<1> QED
  BY <1>1, <1>2, <1>3, <1>4, <1>5, <1>6, <1>7, <1>8, <1>9, <1>10, <1>11, <1>12, <1>13, <1>14, <1>15, <1>16, <1>17, <1>18 DEF Next

(* Every step keeps rows, commands, requests and the boot in order.        *)
LEMMA NextParts == BasicInv /\ [Next]_vars => (RowInv /\ CliInv /\ ReqInv /\ BootInv)'
<1> SUFFICES ASSUME BasicInv, [Next]_vars PROVE (RowInv /\ CliInv /\ ReqInv /\ BootInv)'
  OBVIOUS
<1> USE ProjectsAssumption DEF BasicInv, TypeOK, CliStates, RowInv, CliInv, ReqInv, BootInv, IdleCli, IdleReq
<1>1. ASSUME NEW c \in Clis, NEW remote \in Remotes, RegisterCmd(c, remote) PROVE (RowInv /\ CliInv /\ ReqInv /\ BootInv)'
  BY <1>1 DEF RegisterCmd, Begin
<1>2. ASSUME NEW c \in Clis, NEW remote \in Remotes, NEW force \in BOOLEAN, InitGet(c, remote, force) PROVE (RowInv /\ CliInv /\ ReqInv /\ BootInv)'
  BY <1>2 DEF InitGet, Begin
<1>3. ASSUME NEW c \in Clis, NEW slug \in Slugs, NEW purge \in BOOLEAN, DeleteCmd(c, slug, purge) PROVE (RowInv /\ CliInv /\ ReqInv /\ BootInv)'
  BY <1>3 DEF DeleteCmd, Begin, Registered
<1>4. ASSUME NEW c \in Clis, InitDelete(c) PROVE (RowInv /\ CliInv /\ ReqInv /\ BootInv)'
  BY <1>4 DEF InitDelete
<1>5. ASSUME NEW c \in Clis, Register(c) PROVE (RowInv /\ CliInv /\ ReqInv /\ BootInv)'
  BY <1>5 DEF Register, Insert
<1>6. ASSUME NEW c \in Clis, InitOpen(c) PROVE (RowInv /\ CliInv /\ ReqInv /\ BootInv)'
  BY <1>6 DEF InitOpen, Opened
<1>7. ASSUME NEW c \in Clis, Purge(c) PROVE (RowInv /\ CliInv /\ ReqInv /\ BootInv)'
  BY <1>7 DEF Purge
<1>8. ASSUME NEW c \in Clis, Killed(c) PROVE (RowInv /\ CliInv /\ ReqInv /\ BootInv)'
  BY <1>8 DEF Killed
<1>9. ASSUME NEW r \in Requests, NEW slug \in Slugs, Request(r, slug) PROVE (RowInv /\ CliInv /\ ReqInv /\ BootInv)'
  BY <1>9 DEF Request, Begin, AfterGet
<1>10. ASSUME NEW r \in Requests, RegisterDefault(r) PROVE (RowInv /\ CliInv /\ ReqInv /\ BootInv)'
  BY <1>10 DEF RegisterDefault, InsertDefault, Insert
<1>11. ASSUME NEW r \in Requests, Serve(r) PROVE (RowInv /\ CliInv /\ ReqInv /\ BootInv)'
  BY <1>11 DEF Serve, GetStore, Opened
<1>12. CASE BootGet
  BY <1>12 DEF BootGet
<1>13. CASE BootRegister
  BY <1>13 DEF BootRegister, InsertDefault, Insert
<1>14. CASE BootOpen
  BY <1>14 DEF BootOpen, GetStore, Opened
<1>15. CASE BootList
  BY <1>15 DEF BootList
<1>16. CASE BootWarm
  BY <1>16 DEF BootWarm, GetStore, Opened
<1>17. ASSUME NEW d \in Defaults, Restart(d) PROVE (RowInv /\ CliInv /\ ReqInv /\ BootInv)'
  BY <1>17 DEF Restart, Starting
<1>18. CASE UNCHANGED vars
  BY <1>18 DEF vars
<1> HIDE DEF BasicInv, TypeOK, CliStates, RowInv, CliInv, ReqInv, BootInv, IdleCli, IdleReq
<1> QED
  BY <1>1, <1>2, <1>3, <1>4, <1>5, <1>6, <1>7, <1>8, <1>9, <1>10, <1>11, <1>12, <1>13, <1>14, <1>15, <1>16, <1>17, <1>18 DEF Next

(* The basic invariant holds in every state.                               *)
THEOREM BasicInvariant == Spec => []BasicInv
<1>1. BasicInv /\ [Next]_vars => BasicInv'
  BY NextTypeOK, NextParts DEF BasicInv
<1> QED
  BY InitBasic, <1>1, PTL DEF Spec

(* Tables, files, commands and requests are well typed in every state.     *)
THEOREM TypeCorrect == Spec => []TypeOK
<1>1. BasicInv => TypeOK
  BY DEF BasicInv
<1> QED
  BY BasicInvariant, <1>1, PTL

-----------------------------------------------------------------------------
(* Opening and purging keep the cached stores on the databases on disk.    *)
LEMMA NextOpen == BasicInv /\ OpenIsOnDisk /\ [Next]_vars => OpenIsOnDisk'
<1> SUFFICES ASSUME BasicInv, OpenIsOnDisk, [Next]_vars PROVE OpenIsOnDisk'
  OBVIOUS
<1> USE ProjectsAssumption DEF BasicInv, TypeOK, CliStates, CliInv, ReqInv, BootInv, OpenIsOnDisk
<1>1. ASSUME NEW c \in Clis, NEW remote \in Remotes, RegisterCmd(c, remote) PROVE OpenIsOnDisk'
  BY <1>1 DEF RegisterCmd, Begin
<1>2. ASSUME NEW c \in Clis, NEW remote \in Remotes, NEW force \in BOOLEAN, InitGet(c, remote, force) PROVE OpenIsOnDisk'
  BY <1>2 DEF InitGet, Begin
<1>3. ASSUME NEW c \in Clis, NEW slug \in Slugs, NEW purge \in BOOLEAN, DeleteCmd(c, slug, purge) PROVE OpenIsOnDisk'
  BY <1>3 DEF DeleteCmd, Begin, Registered
<1>4. ASSUME NEW c \in Clis, InitDelete(c) PROVE OpenIsOnDisk'
  BY <1>4 DEF InitDelete
<1>5. ASSUME NEW c \in Clis, Register(c) PROVE OpenIsOnDisk'
  BY <1>5 DEF Register, Insert
<1>6. ASSUME NEW c \in Clis, InitOpen(c) PROVE OpenIsOnDisk'
  BY <1>6 DEF InitOpen, Opened
<1>7. ASSUME NEW c \in Clis, Purge(c) PROVE OpenIsOnDisk'
  BY <1>7 DEF Purge
<1>8. ASSUME NEW c \in Clis, Killed(c) PROVE OpenIsOnDisk'
  BY <1>8 DEF Killed
<1>9. ASSUME NEW r \in Requests, NEW slug \in Slugs, Request(r, slug) PROVE OpenIsOnDisk'
  BY <1>9 DEF Request, Begin, AfterGet
<1>10. ASSUME NEW r \in Requests, RegisterDefault(r) PROVE OpenIsOnDisk'
  BY <1>10 DEF RegisterDefault, InsertDefault, Insert
<1>11. ASSUME NEW r \in Requests, Serve(r) PROVE OpenIsOnDisk'
  BY <1>11 DEF Serve, GetStore, Opened
<1>12. CASE BootGet
  BY <1>12 DEF BootGet
<1>13. CASE BootRegister
  BY <1>13 DEF BootRegister, InsertDefault, Insert
<1>14. CASE BootOpen
  BY <1>14 DEF BootOpen, GetStore, Opened
<1>15. CASE BootList
  BY <1>15 DEF BootList
<1>16. CASE BootWarm
  BY <1>16 DEF BootWarm, GetStore, Opened
<1>17. ASSUME NEW d \in Defaults, Restart(d) PROVE OpenIsOnDisk'
  BY <1>17 DEF Restart, Starting
<1>18. CASE UNCHANGED vars
  BY <1>18 DEF vars
<1> HIDE DEF BasicInv, TypeOK, CliStates, CliInv, ReqInv, BootInv, OpenIsOnDisk
<1> QED
  BY <1>1, <1>2, <1>3, <1>4, <1>5, <1>6, <1>7, <1>8, <1>9, <1>10, <1>11, <1>12, <1>13, <1>14, <1>15, <1>16, <1>17, <1>18 DEF Next

(* What the server has open is the database on disk, unless purged since.  *)
THEOREM OpenIsOnDiskHolds == Spec => []OpenIsOnDisk
<1>1. Init => OpenIsOnDisk
  BY DEF Init, OpenIsOnDisk
<1> QED
  BY BasicInvariant, NextOpen, <1>1, PTL DEF Spec

-----------------------------------------------------------------------------
(* Register puts the slug into the table unless a row has it or its remote. *)
LEMMA InsertRegisters ==
    ASSUME NEW slug, NEW remote, Insert(slug, remote)
    PROVE  /\ CanRegister(slug, remote) => Registered(slug)'
           /\ rows \subseteq rows'
           /\ \A s \in kept : s \in kept' \/ Registered(s)'
<1>1. CASE CanRegister(slug, remote)
  <2> DEFINE new == [slug |-> slug, remote |-> remote]
  <2>1. rows' = rows \cup {new} /\ kept' = kept \ {slug}
    BY <1>1 DEF Insert
  <2>2. new \in rows' /\ new.slug = slug
    BY <2>1
  <2> QED
    BY <2>1, <2>2 DEF Registered
<1>2. CASE ~CanRegister(slug, remote)
  BY <1>2 DEF Insert
<1> QED
  BY <1>1, <1>2

(* Only projects delete --purge makes a project unaccounted for, and only  *)
(* while nobody is at it.                                                  *)
LEMMA AccountedStays ==
    ASSUME BasicInv, [Next]_vars, NEW s \in Slugs, Accounted(s)
    PROVE  Accounted(s)' \/ (~Busy(s) /\ Purging(s)')
<1> DEFINE Goal == Accounted(s)' \/ (~Busy(s) /\ Purging(s)')
<1> USE ProjectsAssumption DEF BasicInv, TypeOK, CliStates, RowInv, CliInv, IdleCli, Accounted, Purging, Registered
<1>1. ASSUME NEW c \in Clis, NEW remote \in Remotes, RegisterCmd(c, remote) PROVE Goal
  BY <1>1 DEF RegisterCmd, Begin
<1>2. ASSUME NEW c \in Clis, NEW remote \in Remotes, NEW force \in BOOLEAN, InitGet(c, remote, force) PROVE Goal
  BY <1>2 DEF InitGet, Begin
<1>3. ASSUME NEW c \in Clis, NEW slug \in Slugs, NEW purge \in BOOLEAN, DeleteCmd(c, slug, purge) PROVE Goal
  BY <1>3 DEF DeleteCmd, Begin
<1>4. ASSUME NEW c \in Clis, InitDelete(c) PROVE Goal
  BY <1>4 DEF InitDelete
<1>5. ASSUME NEW c \in Clis, Register(c) PROVE Goal
  <2> DEFINE q == cli[c]
  <2>1. Insert(q.slug, q.remote) /\ UNCHANGED <<refused, crossed>>
    BY <1>5 DEF Register
  <2>2. rows \subseteq rows' /\ (\A k \in kept : k \in kept' \/ Registered(k)')
    BY <2>1, InsertRegisters
  <2>3. CASE s = q.slug
    <3>1. CASE CanRegister(q.slug, q.remote)
      BY <2>1, <2>3, <3>1, InsertRegisters
    <3>2. CASE ~CanRegister(q.slug, q.remote)
      <4>1. q.remote \in Remotes /\ q.slug = SlugOf[q.remote]
        BY <1>5 DEF Register
      <4>2. PICK p \in rows : p.slug = q.slug \/ p.remote = q.remote
        BY <3>2 DEF CanRegister
      <4>3. p.slug = s
        BY <2>3, <4>1, <4>2
      <4> QED
        BY <2>2, <4>3
    <3> QED
      BY <3>1, <3>2
  <2>4. CASE s # q.slug
    <3>1. \A e \in Clis : e # c => cli'[e] = cli[e]
      BY <1>5 DEF Register
    <3>2. CASE \E e \in Clis : cli[e].pc = "register" /\ cli[e].slug = s
      BY <2>4, <3>1, <3>2
    <3> QED
      BY <2>1, <2>2, <3>2
  <2> QED
    BY <2>3, <2>4
<1>6. ASSUME NEW c \in Clis, InitOpen(c) PROVE Goal
  BY <1>6 DEF InitOpen
<1>7. ASSUME NEW c \in Clis, Purge(c) PROVE Goal
  BY <1>7 DEF Purge
<1>8. ASSUME NEW c \in Clis, Killed(c) PROVE Goal
  BY <1>8 DEF Killed
<1>9. ASSUME NEW r \in Requests, NEW slug \in Slugs, Request(r, slug) PROVE Goal
  BY <1>9 DEF Request, Begin
<1>10. ASSUME NEW r \in Requests, RegisterDefault(r) PROVE Goal
  <2>1. Insert(req[r].slug, DefaultRemote) /\ refused \subseteq refused' /\ UNCHANGED <<cli, crossed>>
    BY <1>10 DEF RegisterDefault, InsertDefault
  <2> QED
    BY <2>1, InsertRegisters
<1>11. ASSUME NEW r \in Requests, Serve(r) PROVE Goal
  BY <1>11 DEF Serve
<1>12. CASE BootGet
  BY <1>12 DEF BootGet
<1>13. CASE BootRegister
  <2>1. Insert(default, DefaultRemote) /\ refused \subseteq refused' /\ UNCHANGED <<cli, crossed>>
    BY <1>13 DEF BootRegister, InsertDefault
  <2> QED
    BY <2>1, InsertRegisters
<1>14. CASE BootOpen
  BY <1>14 DEF BootOpen
<1>15. CASE BootList
  BY <1>15 DEF BootList
<1>16. CASE BootWarm
  BY <1>16 DEF BootWarm
<1>17. ASSUME NEW d \in Defaults, Restart(d) PROVE Goal
  BY <1>17 DEF Restart
<1>18. CASE UNCHANGED vars
  BY <1>18 DEF vars
<1> HIDE DEF BasicInv, TypeOK, CliStates, RowInv, CliInv, IdleCli, Accounted, Purging, Registered
<1> QED
  BY <1>1, <1>2, <1>3, <1>4, <1>5, <1>6, <1>7, <1>8, <1>9, <1>10, <1>11, <1>12, <1>13, <1>14, <1>15, <1>16, <1>17, <1>18 DEF Next

(* A database comes up only for a project that is accounted for, and       *)
(* whoever was purging one goes on, has purged it or was killed.           *)
LEMMA DatabaseStep ==
    ASSUME BasicInv, DataInv, [Next]_vars, NEW s \in Slugs
    PROVE  /\ disk'[s] # 0 => disk[s] # 0 \/ Accounted(s)
           /\ Purging(s) => Purging(s)' \/ disk'[s] = 0 \/ s \in crossed'
<1> DEFINE Goal == /\ disk'[s] # 0 => disk[s] # 0 \/ Accounted(s)
                   /\ Purging(s) => Purging(s)' \/ disk'[s] = 0 \/ s \in crossed'
<1> USE ProjectsAssumption
        DEF BasicInv, TypeOK, CliStates, CliInv, ReqInv, BootInv, IdleCli, DataInv, Purging
<1>1. ASSUME NEW c \in Clis, NEW remote \in Remotes, RegisterCmd(c, remote) PROVE Goal
  BY <1>1 DEF RegisterCmd, Begin
<1>2. ASSUME NEW c \in Clis, NEW remote \in Remotes, NEW force \in BOOLEAN, InitGet(c, remote, force) PROVE Goal
  BY <1>2 DEF InitGet, Begin
<1>3. ASSUME NEW c \in Clis, NEW slug \in Slugs, NEW purge \in BOOLEAN, DeleteCmd(c, slug, purge) PROVE Goal
  BY <1>3 DEF DeleteCmd, Begin
<1>4. ASSUME NEW c \in Clis, InitDelete(c) PROVE Goal
  BY <1>4 DEF InitDelete
<1>5. ASSUME NEW c \in Clis, Register(c) PROVE Goal
  BY <1>5 DEF Register
<1>6. ASSUME NEW c \in Clis, InitOpen(c) PROVE Goal
  BY <1>6 DEF InitOpen, Opened
<1>7. ASSUME NEW c \in Clis, Purge(c) PROVE Goal
  BY <1>7 DEF Purge
<1>8. ASSUME NEW c \in Clis, Killed(c) PROVE Goal
  BY <1>8 DEF Killed
<1>9. ASSUME NEW r \in Requests, NEW slug \in Slugs, Request(r, slug) PROVE Goal
  BY <1>9 DEF Request, Begin, AfterGet
<1>10. ASSUME NEW r \in Requests, RegisterDefault(r) PROVE Goal
  BY <1>10 DEF RegisterDefault, InsertDefault
<1>11. ASSUME NEW r \in Requests, Serve(r) PROVE Goal
  BY <1>11 DEF Serve, GetStore, Opened
<1>12. CASE BootGet
  BY <1>12 DEF BootGet
<1>13. CASE BootRegister
  BY <1>13 DEF BootRegister, InsertDefault
<1>14. CASE BootOpen
  BY <1>14 DEF BootOpen, GetStore, Opened
<1>15. CASE BootList
  BY <1>15 DEF BootList
<1>16. CASE BootWarm
  BY <1>16 DEF BootWarm, GetStore, Opened
<1>17. ASSUME NEW d \in Defaults, Restart(d) PROVE Goal
  BY <1>17 DEF Restart, Starting
<1>18. CASE UNCHANGED vars
  BY <1>18 DEF vars
<1> HIDE DEF BasicInv, TypeOK, CliStates, CliInv, ReqInv, BootInv, IdleCli, DataInv, Purging
<1> QED
  BY <1>1, <1>2, <1>3, <1>4, <1>5, <1>6, <1>7, <1>8, <1>9, <1>10, <1>11, <1>12, <1>13, <1>14, <1>15, <1>16, <1>17, <1>18 DEF Next

(* Whoever comes to open a database has seen the row or tried to put it    *)
(* there: commands, and requests of the server.                            *)
LEMMA OpenerStep ==
    ASSUME BasicInv, [Next]_vars
    PROVE  /\ \A c \in Clis : cli'[c].pc = "open" => cli'[c] = cli[c] \/ Accounted(cli[c].slug)'
           /\ \A r \in Requests : req'[r].pc = "serve" => req'[r] = req[r] \/ Accounted(req[r].slug)'
<1> DEFINE Goal ==
        /\ \A k \in Clis : cli'[k].pc = "open" => cli'[k] = cli[k] \/ Accounted(cli[k].slug)'
        /\ \A q \in Requests : req'[q].pc = "serve" => req'[q] = req[q] \/ Accounted(req[q].slug)'
<1> USE ProjectsAssumption
        DEF BasicInv, TypeOK, CliStates, CliInv, ReqInv, IdleCli, IdleReq, Accounted, Registered
<1>1. ASSUME NEW c \in Clis, NEW remote \in Remotes, RegisterCmd(c, remote) PROVE Goal
  BY <1>1 DEF RegisterCmd, Begin
<1>2. ASSUME NEW c \in Clis, NEW remote \in Remotes, NEW force \in BOOLEAN, InitGet(c, remote, force) PROVE Goal
  BY <1>2 DEF InitGet, Begin
<1>3. ASSUME NEW c \in Clis, NEW slug \in Slugs, NEW purge \in BOOLEAN, DeleteCmd(c, slug, purge) PROVE Goal
  BY <1>3 DEF DeleteCmd, Begin
<1>4. ASSUME NEW c \in Clis, InitDelete(c) PROVE Goal
  BY <1>4 DEF InitDelete
<1>5. ASSUME NEW c \in Clis, Register(c) PROVE Goal
  <2>1. /\ UNCHANGED req
        /\ \A k \in Clis : k # c => cli'[k] = cli[k]
        /\ cli'[c].pc = "open" => /\ CanRegister(cli[c].slug, cli[c].remote)
                                 /\ cli'[c].slug = cli[c].slug
    BY <1>5 DEF Register
  <2>2. PICK slug : slug = cli[c].slug
    OBVIOUS
  <2>3. CanRegister(slug, cli[c].remote) => Registered(slug)'
    BY <1>5, <2>2, InsertRegisters DEF Register
  <2>4. cli'[c].pc = "open" => Registered(cli[c].slug)'
    BY <2>1, <2>2, <2>3
  <2> QED
    BY <2>1, <2>4 DEF Accounted
<1>6. ASSUME NEW c \in Clis, InitOpen(c) PROVE Goal
  BY <1>6 DEF InitOpen, Opened
<1>7. ASSUME NEW c \in Clis, Purge(c) PROVE Goal
  BY <1>7 DEF Purge
<1>8. ASSUME NEW c \in Clis, Killed(c) PROVE Goal
  BY <1>8 DEF Killed
<1>9. ASSUME NEW r \in Requests, NEW slug \in Slugs, Request(r, slug) PROVE Goal
  <2>1. /\ UNCHANGED <<cli, rows>>
        /\ \A q \in Requests : q # r => req'[q] = req[q]
        /\ req'[r].slug = slug
    BY <1>9 DEF Request
  <2>2. req'[r].pc = "serve" => Registered(slug)'
    BY <1>9, <2>1 DEF Request, AfterGet
  <2>3. req'[r].pc = "serve" => Registered(req[r].slug)'
    BY <2>1, <2>2
  <2> QED
    BY <2>1, <2>3
<1>10. ASSUME NEW r \in Requests, RegisterDefault(r) PROVE Goal
  <2>1. PICK slug \in Slugs : slug = req[r].slug
    BY <1>10 DEF RegisterDefault
  <2>2. /\ UNCHANGED cli
        /\ \A q \in Requests : q # r => req'[q] = req[q]
        /\ req'[r].slug = slug
    BY <1>10, <2>1 DEF RegisterDefault
  <2>3. Registered(slug)' \/ slug \in refused'
    <3>1. CASE CanRegister(slug, DefaultRemote)
      BY <1>10, <2>1, <3>1, InsertRegisters DEF RegisterDefault, InsertDefault
    <3>2. CASE ~CanRegister(slug, DefaultRemote)
      BY <1>10, <2>1, <3>2 DEF RegisterDefault, InsertDefault
    <3> QED
      BY <3>1, <3>2
  <2>4. Registered(req[r].slug)' \/ req'[r].slug \in refused'
    BY <2>2, <2>3
  <2> QED
    BY <2>2, <2>4
<1>11. ASSUME NEW r \in Requests, Serve(r) PROVE Goal
  BY <1>11 DEF Serve, GetStore, Opened
<1>12. CASE BootGet
  BY <1>12 DEF BootGet
<1>13. CASE BootRegister
  BY <1>13 DEF BootRegister, InsertDefault
<1>14. CASE BootOpen
  BY <1>14 DEF BootOpen, GetStore, Opened
<1>15. CASE BootList
  BY <1>15 DEF BootList
<1>16. CASE BootWarm
  BY <1>16 DEF BootWarm, GetStore, Opened
<1>17. ASSUME NEW d \in Defaults, Restart(d) PROVE Goal
  BY <1>17 DEF Restart, Starting
<1>18. CASE UNCHANGED vars
  BY <1>18 DEF vars
<1> HIDE DEF BasicInv, TypeOK, CliStates, CliInv, ReqInv, IdleCli, IdleReq, Accounted, Registered
<1> QED
  BY <1>1, <1>2, <1>3, <1>4, <1>5, <1>6, <1>7, <1>8, <1>9, <1>10, <1>11, <1>12, <1>13, <1>14, <1>15, <1>16, <1>17, <1>18 DEF Next

(* The same of the server while it starts.                                 *)
LEMMA BootStep ==
    ASSUME BasicInv, [Next]_vars
    PROVE  /\ server'.pc = "open" => (server.pc = "open" /\ default' = default) \/ Accounted(default)'
           /\ \A s \in server'.todo : s \in server.todo \/ Accounted(s)'
<1> DEFINE Goal ==
        /\ server'.pc = "open" => (server.pc = "open" /\ default' = default) \/ Accounted(default)'
        /\ \A s \in server'.todo : s \in server.todo \/ Accounted(s)'
<1> USE ProjectsAssumption
        DEF BasicInv, TypeOK, CliStates, BootInv, Accounted, Registered
<1>1. ASSUME NEW c \in Clis, NEW remote \in Remotes, RegisterCmd(c, remote) PROVE Goal
  BY <1>1 DEF RegisterCmd, Begin
<1>2. ASSUME NEW c \in Clis, NEW remote \in Remotes, NEW force \in BOOLEAN, InitGet(c, remote, force) PROVE Goal
  BY <1>2 DEF InitGet, Begin
<1>3. ASSUME NEW c \in Clis, NEW slug \in Slugs, NEW purge \in BOOLEAN, DeleteCmd(c, slug, purge) PROVE Goal
  BY <1>3 DEF DeleteCmd, Begin
<1>4. ASSUME NEW c \in Clis, InitDelete(c) PROVE Goal
  BY <1>4 DEF InitDelete
<1>5. ASSUME NEW c \in Clis, Register(c) PROVE Goal
  BY <1>5 DEF Register
<1>6. ASSUME NEW c \in Clis, InitOpen(c) PROVE Goal
  BY <1>6 DEF InitOpen, Opened
<1>7. ASSUME NEW c \in Clis, Purge(c) PROVE Goal
  BY <1>7 DEF Purge
<1>8. ASSUME NEW c \in Clis, Killed(c) PROVE Goal
  BY <1>8 DEF Killed
<1>9. ASSUME NEW r \in Requests, NEW slug \in Slugs, Request(r, slug) PROVE Goal
  BY <1>9 DEF Request, Begin, AfterGet
<1>10. ASSUME NEW r \in Requests, RegisterDefault(r) PROVE Goal
  BY <1>10 DEF RegisterDefault, InsertDefault
<1>11. ASSUME NEW r \in Requests, Serve(r) PROVE Goal
  BY <1>11 DEF Serve, GetStore, Opened
<1>12. CASE BootGet
  BY <1>12 DEF BootGet
<1>13. CASE BootRegister
  <2>1. Insert(default, DefaultRemote) /\ default' = default /\ server'.todo = server.todo
    BY <1>13 DEF BootRegister, InsertDefault
  <2>2. CASE CanRegister(default, DefaultRemote)
    BY <2>1, <2>2, InsertRegisters
  <2>3. CASE ~CanRegister(default, DefaultRemote)
    BY <1>13, <2>1, <2>3 DEF BootRegister, InsertDefault
  <2> QED
    BY <2>2, <2>3
<1>14. CASE BootOpen
  BY <1>14 DEF BootOpen, GetStore, Opened
<1>15. CASE BootList
  BY <1>15 DEF BootList
<1>16. CASE BootWarm
  BY <1>16 DEF BootWarm, GetStore, Opened
<1>17. ASSUME NEW d \in Defaults, Restart(d) PROVE Goal
  BY <1>17 DEF Restart, Starting
<1>18. CASE UNCHANGED vars
  BY <1>18 DEF vars
<1> HIDE DEF BasicInv, TypeOK, CliStates, BootInv, Accounted, Registered
<1> QED
  BY <1>1, <1>2, <1>3, <1>4, <1>5, <1>6, <1>7, <1>8, <1>9, <1>10, <1>11, <1>12, <1>13, <1>14, <1>15, <1>16, <1>17, <1>18 DEF Next

(* A database without a project that is accounted for never comes to be.   *)
LEMMA NextData == BasicInv /\ DataInv /\ [Next]_vars => DataInv'
<1> SUFFICES ASSUME BasicInv, DataInv, [Next]_vars PROVE DataInv'
  OBVIOUS
<1>1. \A s \in Slugs : Accounted(s) => Accounted(s)' \/ (~Busy(s) /\ Purging(s)')
  BY AccountedStays
<1>2. \A s \in Slugs : disk'[s] # 0 => Accounted(s)' \/ Purging(s)'
  <2> SUFFICES ASSUME NEW s \in Slugs, disk'[s] # 0 PROVE Accounted(s)' \/ Purging(s)'
    OBVIOUS
  <2>1. disk[s] # 0 \/ Accounted(s)
    BY DatabaseStep
  <2>2. Accounted(s) \/ Purging(s)
    BY <2>1 DEF DataInv
  <2>3. Purging(s) => Purging(s)' \/ s \in crossed'
    BY DatabaseStep
  <2>4. s \in crossed' => Accounted(s)'
    BY DEF Accounted
  <2> QED
    BY <1>1, <2>2, <2>3, <2>4
<1>3. \A c \in Clis : cli'[c].pc = "open" => Accounted(cli[c].slug)'
  <2> SUFFICES ASSUME NEW c \in Clis, cli'[c].pc = "open", cli'[c] = cli[c]
               PROVE  Accounted(cli[c].slug)'
    BY OpenerStep
  <2>1. PICK s \in Slugs : s = cli[c].slug
    BY DEF BasicInv, CliInv
  <2>2. Accounted(s) /\ Busy(s)
    BY <2>1 DEF DataInv, Busy
  <2>3. Accounted(s)' /\ s = cli'[c].slug
    BY <1>1, <2>1, <2>2
  <2> QED
    BY <2>3
<1>4. server'.pc = "open" => Accounted(default)'
  <2> SUFFICES ASSUME server.pc = "open", default' = default PROVE Accounted(default)'
    BY BootStep
  <2>1. PICK s \in Slugs : s = default
    BY DEF BasicInv, TypeOK
  <2>2. Accounted(s) /\ Busy(s)
    BY <2>1 DEF DataInv, Busy
  <2>3. Accounted(s)' /\ s = default'
    BY <1>1, <2>1, <2>2
  <2> QED
    BY <2>3
<1>5. \A s \in server'.todo : Accounted(s)'
  <2> SUFFICES ASSUME NEW s \in server.todo PROVE Accounted(s)'
    BY BootStep
  <2>1. s \in Slugs /\ Accounted(s) /\ Busy(s)
    BY DEF BasicInv, TypeOK, BootInv, DataInv, Busy
  <2> QED
    BY <1>1, <2>1
<1>6. \A r \in Requests : req'[r].pc = "serve" => Accounted(req[r].slug)'
  <2> SUFFICES ASSUME NEW r \in Requests, req'[r].pc = "serve", req'[r] = req[r]
               PROVE  Accounted(req[r].slug)'
    BY OpenerStep
  <2>1. PICK s \in Slugs : s = req[r].slug
    BY DEF BasicInv, ReqInv
  <2>2. Accounted(s) /\ Busy(s)
    BY <2>1 DEF DataInv, Busy
  <2>3. Accounted(s)' /\ s = req'[r].slug
    BY <1>1, <2>1, <2>2
  <2> QED
    BY <2>3
<1> QED
  BY <1>2, <1>3, <1>4, <1>5, <1>6 DEF DataInv

(* A project that has a database is in the registry, unless it was deleted *)
(* without --purge, refused as the default, or handled by two at once or   *)
(* by a command that was killed; a command may be about to put it there or *)
(* to purge it.                                                            *)
THEOREM DataIsRegisteredHolds == Spec => []DataIsRegistered
<1>1. Init => DataInv
  BY DEF Init, DataInv, IdleCli, IdleReq, Starting
<1>2. DataInv => DataIsRegistered
  BY DEF DataInv, DataIsRegistered, Accounted, Purging
<1> QED
  BY BasicInvariant, NextData, <1>1, <1>2, PTL DEF Spec

-----------------------------------------------------------------------------
(* The order of a set of numbers, and what Select returns.                   *)

(* The numbers of a finite set, each at its rank.                          *)
LEMMA RankType ==
    ASSUME NEW I \in SUBSET Int, IsFiniteSet(I), NEW i \in I
    PROVE  Rank(I, i) \in 1 .. Cardinality(I)
<1> DEFINE below == {j \in I : j <= i}
<1>1. /\ IsFiniteSet(below) /\ Cardinality(below) \in Nat
      /\ Cardinality(I) \in Nat /\ Cardinality(below) <= Cardinality(I)
  BY FS_Subset, FS_CardinalityType
<1>2. Cardinality(below) # 0
  BY <1>1, FS_EmptySet
<1> QED
  BY <1>1, <1>2 DEF Rank

(* A greater number of a finite set has a greater rank.                     *)
LEMMA RankIsMonotonic ==
    ASSUME NEW I \in SUBSET Int, IsFiniteSet(I), NEW i \in I, NEW k \in I, i < k
    PROVE  Rank(I, i) < Rank(I, k)
<1> DEFINE below(n) == {j \in I : j <= n}
<1>1. \A n \in I : IsFiniteSet(below(n)) /\ Cardinality(below(n)) \in Nat
  BY FS_Subset, FS_CardinalityType
<1>2. below(i) \subseteq below(k) \ {k}
  <2> SUFFICES ASSUME NEW j \in I, j <= i PROVE j <= k /\ j # k
    OBVIOUS
  <2>1. i \in Int /\ j \in Int /\ k \in Int
    OBVIOUS
  <2> QED
    BY <2>1
<1>3. Cardinality(below(k) \ {k}) = Cardinality(below(k)) - 1 /\ IsFiniteSet(below(k) \ {k})
  <2>1. k \in below(k)
    OBVIOUS
  <2> QED
    BY <1>1, <2>1, FS_RemoveElement
<1>4. Cardinality(below(i)) <= Cardinality(below(k)) - 1
  BY <1>2, <1>3, FS_Subset
<1> QED
  BY <1>1, <1>4 DEF Rank

(* Every rank up to the number of elements is the rank of one of them.     *)
LEMMA RankIsOnto ==
    ASSUME NEW I \in SUBSET Int, IsFiniteSet(I), NEW k \in 1 .. Cardinality(I)
    PROVE  \E i \in I : Rank(I, i) = k
<1> DEFINE f == [i \in I |-> Rank(I, i)]
<1>1. Cardinality(I) \in Nat
  BY FS_CardinalityType
<1>2. f \in [I -> 1 .. Cardinality(I)]
  BY RankType
<1>3. \A i, j \in I : f[i] = f[j] => i = j
  <2> SUFFICES ASSUME NEW i \in I, NEW j \in I, Rank(I, i) = Rank(I, j) PROVE i = j
    OBVIOUS
  <2>1. Rank(I, i) \in Int /\ Rank(I, j) \in Int
    BY <1>1, RankType
  <2>2. ~(i < j) /\ ~(j < i)
    BY <2>1, RankIsMonotonic
  <2> QED
    BY <2>2
<1>4. f \in Injection(I, 1 .. Cardinality(I))
  <2>1. DOMAIN f = I
    OBVIOUS
  <2>2. IsInjective(f)
    BY <1>3, <2>1, Zenon DEF IsInjective
  <2> HIDE DEF f
  <2> QED
    BY <1>2, <2>2, Zenon DEF Injection
<1>5. IsFiniteSet(1 .. Cardinality(I)) /\ Cardinality(1 .. Cardinality(I)) = Cardinality(I)
  BY <1>1, FS_Interval
<1>6. f \in Surjection(I, 1 .. Cardinality(I))
  <2> HIDE DEF f
  <2> QED
    BY <1>4, <1>5, FS_Injection
<1>7. PICK i \in I : f[i] = k
  <2>1. \A t \in 1 .. Cardinality(I) : \E s \in I : f[s] = t
    <3> HIDE DEF f
    <3> QED
      BY <1>6 DEF Surjection
  <2> QED
    BY <2>1
<1> QED
  BY <1>7

(* InOrder(I) lists the elements of I, each once, in increasing order.      *)
LEMMA InOrderProperties ==
    ASSUME NEW I \in SUBSET Int, IsFiniteSet(I)
    PROVE  /\ Cardinality(I) \in Nat
           /\ InOrder(I) \in [1 .. Cardinality(I) -> I]
           /\ \A k \in 1 .. Cardinality(I) : Rank(I, InOrder(I)[k]) = k
           /\ \A i \in I : Rank(I, i) \in 1 .. Cardinality(I) /\ InOrder(I)[Rank(I, i)] = i
           /\ \A k, l \in 1 .. Cardinality(I) : k < l => InOrder(I)[k] < InOrder(I)[l]
<1>1. Cardinality(I) \in Nat
  BY FS_CardinalityType
<1>2. \A k \in 1 .. Cardinality(I) : InOrder(I)[k] \in I /\ Rank(I, InOrder(I)[k]) = k
  BY RankIsOnto DEF InOrder
<1>3. InOrder(I) \in [1 .. Cardinality(I) -> I]
  BY <1>2 DEF InOrder
<1>4. ASSUME NEW i \in I, NEW j \in I, Rank(I, i) = Rank(I, j) PROVE i = j
  <2>1. Rank(I, i) \in Int /\ Rank(I, j) \in Int
    BY <1>1, RankType
  <2>2. ~(i < j) /\ ~(j < i)
    BY <1>4, <2>1, RankIsMonotonic
  <2> QED
    BY <2>2
<1>5. \A i \in I : Rank(I, i) \in 1 .. Cardinality(I) /\ InOrder(I)[Rank(I, i)] = i
  BY <1>2, <1>4, RankType
<1>6. ASSUME NEW k \in 1 .. Cardinality(I), NEW l \in 1 .. Cardinality(I), k < l
      PROVE  InOrder(I)[k] < InOrder(I)[l]
  <2>1. PICK i \in I : i = InOrder(I)[k] /\ Rank(I, i) = k
    BY <1>2
  <2>2. PICK j \in I : j = InOrder(I)[l] /\ Rank(I, j) = l
    BY <1>2
  <2>3. ~(j < i) /\ i # j
    BY <1>1, <1>6, <2>1, <2>2, RankIsMonotonic
  <2> QED
    BY <2>1, <2>2, <2>3
<1> QED
  BY <1>1, <1>2, <1>3, <1>5, <1>6

(* The elements of a selection are those at the positions selected.        *)
LEMMA SelectProperties ==
    ASSUME NEW S, NEW s \in Seq(S), NEW I \in SUBSET DOMAIN s
    PROVE  /\ I \in SUBSET Int /\ IsFiniteSet(I) /\ Cardinality(I) \in Nat
           /\ Select(s, I) \in Seq(S) /\ DOMAIN Select(s, I) = 1 .. Cardinality(I)
           /\ \A k \in DOMAIN Select(s, I) : InOrder(I)[k] \in I /\ Select(s, I)[k] = s[InOrder(I)[k]]
           /\ \A i \in I : Rank(I, i) \in DOMAIN Select(s, I) /\ Select(s, I)[Rank(I, i)] = s[i]
<1>1. Len(s) \in Nat /\ DOMAIN s = 1 .. Len(s)
  OBVIOUS
<1>2. I \in SUBSET Int /\ IsFiniteSet(I)
  <2>1. IsFiniteSet(1 .. Len(s))
    BY <1>1, FS_Interval
  <2> QED
    BY <1>1, <2>1, FS_Subset
<1>3. /\ Cardinality(I) \in Nat
      /\ InOrder(I) \in [1 .. Cardinality(I) -> I]
      /\ \A i \in I : Rank(I, i) \in 1 .. Cardinality(I) /\ InOrder(I)[Rank(I, i)] = i
  BY <1>2, InOrderProperties
<1>4. /\ DOMAIN Select(s, I) = 1 .. Cardinality(I)
      /\ \A k \in 1 .. Cardinality(I) : Select(s, I)[k] = s[InOrder(I)[k]]
  BY DEF Select
<1>5. Select(s, I) \in Seq(S)
  <2>1. \A k \in 1 .. Cardinality(I) : s[InOrder(I)[k]] \in S
    BY <1>1, <1>3
  <2>2. Select(s, I) \in [1 .. Cardinality(I) -> S]
    BY <2>1 DEF Select
  <2> QED
    BY <1>3, <2>2
<1> QED
  BY <1>2, <1>3, <1>4, <1>5

(* A bijection that keeps the order keeps the ranks.                       *)
LEMMA RankOfImage ==
    ASSUME NEW J \in SUBSET Int, IsFiniteSet(J), NEW f \in [J -> Int],
           \A a, b \in J : a < b => f[a] < f[b],
           NEW k \in J
    PROVE  Rank({f[j] : j \in J}, f[k]) = Rank(J, k)
<1> DEFINE I == {f[j] : j \in J}
           A == {j \in J : j <= k}
           B == {i \in I : i <= f[k]}
           g == [j \in A |-> f[j]]
<1>1. IsFiniteSet(A)
  BY FS_Subset
<1>2. \A a, b \in J : f[a] = f[b] => a = b
  OBVIOUS
<1>3. \A j \in J : j <= k <=> f[j] <= f[k]
  OBVIOUS
<1>4. g \in [A -> B]
  BY <1>3
<1>5. \A a, b \in A : g[a] = g[b] => a = b
  BY <1>2
<1>6. \A b \in B : \E a \in A : g[a] = b
  BY <1>3
<1>7. g \in Bijection(A, B)
  <2>1. DOMAIN g = A
    OBVIOUS
  <2> HIDE DEF g, A, B
  <2> QED
    BY <1>4, <1>5, <1>6, <2>1, Zenon DEF Bijection, Injection, Surjection, IsInjective
<1>8. Cardinality(B) = Cardinality(A)
  <2>1. ExistsBijection(A, B)
    <3> HIDE DEF g, A, B
    <3> QED
      BY <1>7 DEF ExistsBijection
  <2> HIDE DEF A, B
  <2> QED
    BY <1>1, <2>1, FS_Bijection
<1> QED
  BY <1>8 DEF Rank

(* To select from a selection is to select once.                           *)
LEMMA SelectSelect ==
    ASSUME NEW S, NEW s \in Seq(S), NEW I \in SUBSET DOMAIN s, NEW J \in SUBSET DOMAIN Select(s, I)
    PROVE  Select(Select(s, I), J) = Select(s, {InOrder(I)[k] : k \in J})
<1> DEFINE t == Select(s, I)
           f == InOrder(I)
           H == {f[k] : k \in J}
           h == [k \in J |-> f[k]]
<1>1. /\ I \in SUBSET Int /\ IsFiniteSet(I) /\ t \in Seq(S) /\ DOMAIN t = 1 .. Cardinality(I)
      /\ Cardinality(I) \in Nat
      /\ \A k \in DOMAIN t : f[k] \in I /\ t[k] = s[f[k]]
  BY SelectProperties
<1>2. \A k, l \in DOMAIN t : k < l => f[k] < f[l]
  BY <1>1, InOrderProperties
<1>3. /\ J \in SUBSET Int /\ IsFiniteSet(J) /\ Cardinality(J) \in Nat
      /\ \A k \in 1 .. Cardinality(J) : InOrder(J)[k] \in J /\ Rank(J, InOrder(J)[k]) = k
  <2>1. J \in SUBSET Int /\ IsFiniteSet(J)
    BY <1>1, SelectProperties
  <2> QED
    BY <2>1, InOrderProperties
<1>4. H \in SUBSET I /\ H \in SUBSET DOMAIN s /\ H \in SUBSET Int
  BY <1>1
<1>5. IsFiniteSet(H)
  BY <1>1, <1>4, FS_Subset
<1>6. \A k \in J : Rank(H, f[k]) = Rank(J, k)
  <2> SUFFICES ASSUME NEW k \in J PROVE Rank(H, f[k]) = Rank(J, k)
    OBVIOUS
  <2>1. h \in [J -> Int]
    BY <1>1
  <2>2. \A a, b \in J : a < b => h[a] < h[b]
    BY <1>2
  <2>3. H = {h[j] : j \in J}
    OBVIOUS
  <2>4. Rank({h[j] : j \in J}, h[k]) = Rank(J, k)
    <3> HIDE DEF h
    <3> QED
      BY <1>3, <2>1, <2>2, RankOfImage
  <2> QED
    BY <2>3, <2>4
<1>7. \A i \in H : Rank(H, i) \in 1 .. Cardinality(H) /\ InOrder(H)[Rank(H, i)] = i
  BY <1>4, <1>5, InOrderProperties
<1>8. Cardinality(H) = Cardinality(J)
  <2>1. h \in [J -> H] /\ DOMAIN h = J
    OBVIOUS
  <2>2. \A a, b \in J : h[a] = h[b] => a = b
    <3> SUFFICES ASSUME NEW a \in J, NEW b \in J, f[a] = f[b] PROVE a = b
      OBVIOUS
    <3>1. f[a] \in Int /\ f[b] \in Int /\ a \in Int /\ b \in Int
      BY <1>1, <1>3
    <3>2. ~(a < b) /\ ~(b < a)
      BY <1>2, <3>1
    <3> QED
      BY <3>1, <3>2
  <2>3. \A i \in H : \E k \in J : h[k] = i
    OBVIOUS
  <2>4. h \in Bijection(J, H)
    <3> HIDE DEF h, H
    <3> QED
      BY <2>1, <2>2, <2>3, Zenon DEF Bijection, Injection, Surjection, IsInjective
  <2>5. ExistsBijection(J, H)
    <3> HIDE DEF h, H
    <3> QED
      BY <2>4 DEF ExistsBijection
  <2> HIDE DEF H
  <2> QED
    BY <1>3, <2>5, FS_Bijection
<1>9. \A k \in 1 .. Cardinality(J) : InOrder(H)[k] = f[InOrder(J)[k]]
  <2> SUFFICES ASSUME NEW k \in 1 .. Cardinality(J) PROVE InOrder(H)[k] = f[InOrder(J)[k]]
    OBVIOUS
  <2>1. PICK j \in J : j = InOrder(J)[k] /\ Rank(J, j) = k
    BY <1>3
  <2>2. f[j] \in H /\ Rank(H, f[j]) = k
    BY <1>6, <2>1
  <2> HIDE DEF H, f
  <2> QED
    BY <1>7, <2>1, <2>2
<1>10. \A k \in 1 .. Cardinality(J) : t[InOrder(J)[k]] = s[InOrder(H)[k]]
  BY <1>1, <1>3, <1>9
<1>11. Select(t, J) = Select(s, H)
  <2> HIDE DEF t, f, H
  <2>1. Select(t, J) = [k \in 1 .. Cardinality(J) |-> t[InOrder(J)[k]]]
    BY DEF Select
  <2>2. Select(s, H) = [k \in 1 .. Cardinality(J) |-> s[InOrder(H)[k]]]
    BY <1>8 DEF Select
  <2> QED
    BY <1>10, <2>1, <2>2
<1> QED
  BY <1>11

(* What is not selected does not matter.                                   *)
LEMMA SelectSame ==
    ASSUME NEW s, NEW t, NEW I \in SUBSET Int, IsFiniteSet(I), \A i \in I : s[i] = t[i]
    PROVE  Select(s, I) = Select(t, I)
<1>1. \A k \in 1 .. Cardinality(I) : InOrder(I)[k] \in I
  BY InOrderProperties
<1> QED
  BY <1>1 DEF Select

-----------------------------------------------------------------------------
(* The hook installer.                                                       *)

(* Settings that docsiq, the assistant or the user can have written.        *)
HCommands == SUBSET (Paths \cup {User})
HSettings == [ok : BOOLEAN, other : BOOLEAN, start : Seq(HCommands),
              events : {"none", "proper", "odd", "blank"}]

HProc == [pc : {"idle", "extract", "next", "write"}, cmd : {"none", "install", "uninstall"},
          path : Paths \cup {User}, todo : SUBSET Clients, client : Clients \cup {"none"},
          copy : HSettings, stale : BOOLEAN]

HTypeOK == file \in [Clients -> HSettings] /\ proc \in [Procs -> HProc] /\ script \subseteq Paths

(* Settings that name each script at most once, and only if it is there.   *)
HSound(f, there) ==
    \A path \in Paths :
        /\ \A i, j \in DOMAIN f.start : path \in f.start[i] /\ path \in f.start[j] => i = j
        /\ \A i \in DOMAIN f.start : path \in f.start[i] => path \in there

(* What command cmd keeps of f when it makes g of it.                      *)
HOnlyOurs(cmd, c, f, g) ==
    /\ g.ok = f.ok /\ g.other = f.other
    /\ c = "claude" => g.events = f.events
    /\ c = "claude" \/ cmd = "uninstall" => K!NotOurs(g) = K!NotOurs(f)
    /\ c \in {"codex", "copilot"} => (f.events = "proper" <=> g.events = "proper")

(* What command x knows of the settings and of the scripts there are.       *)
HProcOK(x, settings, there) ==
    /\ x.pc # "idle" => x.cmd \in {"install", "uninstall"}
    /\ x.pc = "extract" => x.cmd = "install"
    /\ x.cmd = "install" /\ x.pc # "idle" => x.path \in Paths
    /\ x.cmd = "install" /\ x.pc \in {"next", "write"} => x.path \in there
    /\ x.pc = "write" =>
           /\ x.client \in Clients
           /\ HSound(x.copy, there)
           /\ ~x.stale => HOnlyOurs(x.cmd, x.client, settings[x.client], x.copy)

HInv ==
    /\ HTypeOK
    /\ \A p \in Procs : HProcOK(proc[p], file, script)
    /\ \A c \in Clients : HSound(file[c], script)

(* The operators of the instance are those of the libraries.               *)
LEMMA KCardinality == ASSUME NEW S PROVE K!Cardinality(S) = Cardinality(S)
BY DEF K!Cardinality, Cardinality

(* The instance's Select is the module's.                                   *)
LEMMA KSelect == ASSUME NEW s, NEW I PROVE K!Select(s, I) = Select(s, I)
BY DEF K!Select, Select, K!InOrder, InOrder, K!Rank, Rank, K!Cardinality, Cardinality

-----------------------------------------------------------------------------
(* What the installers make of "hooks" is well typed and has the entries    *)
(* that were asked for; Claude's other events stay, and a map of strings    *)
(* keeps its proper ones.                                                   *)
LEMMA HHooks ==
    ASSUME K!HookAssumption, NEW c \in Clients, NEW f \in HSettings, NEW start \in Seq(HCommands)
    PROVE  LET g == K!Hooks(c, f, start)
           IN  /\ g \in HSettings /\ g.start = start /\ g.ok = f.ok /\ g.other = f.other
               /\ c = "claude" => g.events = f.events
               /\ c \in {"codex", "copilot"} => (f.events = "proper" <=> g.events = "proper")
<1> DEFINE P(g) == /\ g \in HSettings /\ g.start = start /\ g.ok = f.ok /\ g.other = f.other
                   /\ c = "claude" => g.events = f.events
                   /\ c \in {"codex", "copilot"} => (f.events = "proper" <=> g.events = "proper")
<1>1. CASE c = "claude"
  <2>1. K!Hooks(c, f, start) = [f EXCEPT !.start = start]
    BY <1>1 DEF K!Hooks, K!ClaudeHooks
  <2>2. P([f EXCEPT !.start = start])
    BY <1>1 DEF HSettings
  <2> QED
    BY <2>1, <2>2
<1>2. CASE c = "cursor"
  <2>1. K!Hooks(c, f, start) = [f EXCEPT !.start = start, !.events = "none"]
    BY <1>2 DEF K!Hooks, K!CursorHooks
  <2>2. P([f EXCEPT !.start = start, !.events = "none"])
    BY <1>2 DEF HSettings
  <2> QED
    BY <2>1, <2>2
<1>3. CASE c \in {"codex", "copilot"}
  <2> DEFINE e == IF f.events = "odd" THEN "blank" ELSE f.events
  <2>1. K!Hooks(c, f, start) = [f EXCEPT !.start = start, !.events = e]
    BY <1>3 DEF K!Hooks, K!CodexHooks, K!CopilotHooks
  <2>2. P([f EXCEPT !.start = start, !.events = e])
    <3>1. e \in {"none", "proper", "odd", "blank"} /\ (e = "proper" <=> f.events = "proper")
      BY DEF HSettings
    <3> HIDE DEF e
    <3> QED
      BY <1>3, <3>1 DEF HSettings
  <2> QED
    BY <2>1, <2>2
<1> QED
  BY <1>1, <1>2, <1>3 DEF K!HookAssumption

(* A part of sound entries is sound.                                        *)
LEMMA HSelectSound ==
    ASSUME NEW f \in HSettings, NEW there, HSound(f, there), NEW I \in SUBSET DOMAIN f.start,
           NEW g, g.start = Select(f.start, I)
    PROVE  HSound(g, there)
<1>1. f.start \in Seq(HCommands)
  BY DEF HSettings
<1>2. /\ I \in SUBSET Int /\ IsFiniteSet(I)
      /\ DOMAIN g.start = 1 .. Cardinality(I)
      /\ \A k \in DOMAIN g.start : InOrder(I)[k] \in I /\ g.start[k] = f.start[InOrder(I)[k]]
  BY <1>1, SelectProperties
<1>3. \A k \in 1 .. Cardinality(I) : Rank(I, InOrder(I)[k]) = k
  BY <1>2, InOrderProperties
<1> SUFFICES ASSUME NEW path \in Paths
             PROVE  /\ \A i, j \in DOMAIN g.start : path \in g.start[i] /\ path \in g.start[j] => i = j
                    /\ \A i \in DOMAIN g.start : path \in g.start[i] => path \in there
  BY DEF HSound
<1>4. ASSUME NEW i \in DOMAIN g.start, NEW j \in DOMAIN g.start, path \in g.start[i], path \in g.start[j]
      PROVE  i = j
  <2>1. InOrder(I)[i] = InOrder(I)[j]
    BY <1>2, <1>4 DEF HSound
  <2> QED
    BY <1>2, <1>3, <2>1
<1>5. \A i \in DOMAIN g.start : path \in g.start[i] => path \in there
  BY <1>2 DEF HSound
<1> QED
  BY <1>4, <1>5

(* A part of the entries that has all that are not docsiq's keeps those.    *)
LEMMA HSelectKeeps ==
    ASSUME NEW f, f.start \in Seq(HCommands), NEW I \in SUBSET DOMAIN f.start,
           \A i \in DOMAIN f.start : f.start[i] \cap Paths = {} => i \in I,
           NEW g, g.start = Select(f.start, I)
    PROVE  K!NotOurs(g) = K!NotOurs(f)
<1> DEFINE N == {i \in DOMAIN f.start : f.start[i] \cap Paths = {}}
           J == {k \in DOMAIN g.start : g.start[k] \cap Paths = {}}
<1>1. /\ I \in SUBSET Int /\ IsFiniteSet(I)
      /\ \A k \in DOMAIN g.start : InOrder(I)[k] \in I /\ g.start[k] = f.start[InOrder(I)[k]]
      /\ \A i \in I : Rank(I, i) \in DOMAIN g.start /\ g.start[Rank(I, i)] = f.start[i]
  BY SelectProperties
<1>2. \A i \in I : InOrder(I)[Rank(I, i)] = i
  BY <1>1, InOrderProperties
<1>3. N = {InOrder(I)[k] : k \in J}
  <2>1. ASSUME NEW i \in N PROVE \E k \in J : i = InOrder(I)[k]
    <3>1. i \in I
      OBVIOUS
    <3>2. Rank(I, i) \in J /\ InOrder(I)[Rank(I, i)] = i
      BY <1>1, <1>2, <3>1
    <3> QED
      BY <3>2
  <2>2. ASSUME NEW k \in J PROVE InOrder(I)[k] \in N
    BY <1>1
  <2> QED
    BY <2>1, <2>2
<1>4. J \in SUBSET DOMAIN Select(f.start, I)
  OBVIOUS
<1>5. Select(Select(f.start, I), J) = Select(f.start, {InOrder(I)[k] : k \in J})
  <2> HIDE DEF J
  <2> QED
    BY <1>4, SelectSelect
<1> QED
  BY <1>3, <1>5, KSelect DEF K!NotOurs

(* Install: the entries are sound again with the one of the new script.     *)
LEMMA HInstalled ==
    ASSUME K!HookAssumption, NEW c \in Clients, NEW f \in HSettings, NEW there, HSound(f, there),
           NEW path \in Paths, path \in there
    PROVE  /\ K!Installed(c, f, path) \in HSettings
           /\ HSound(K!Installed(c, f, path), there)
           /\ HOnlyOurs("install", c, f, K!Installed(c, f, path))
<1> DEFINE I == {i \in DOMAIN f.start : path \notin f.start[i]}
           remains == Select(f.start, I)
           start == IF c = "claude" THEN Append(remains, {path}) ELSE <<{path}>>
           g == K!Hooks(c, f, start)
<1>1. K!Installed(c, f, path) = g
  BY KSelect DEF K!Installed, K!Others, K!Ours
<1>2. f.start \in Seq(HCommands) /\ {path} \in HCommands
  BY DEF HSettings, HCommands
<1>3. remains \in Seq(HCommands)
  <2>1. I \in SUBSET DOMAIN f.start
    OBVIOUS
  <2> HIDE DEF I
  <2> QED
    BY <1>2, <2>1, SelectProperties
<1>4. start \in Seq(HCommands)
  <2> HIDE DEF remains
  <2> QED
    BY <1>2, <1>3
<1>5. /\ g \in HSettings /\ g.start = start /\ g.ok = f.ok /\ g.other = f.other
      /\ c = "claude" => g.events = f.events
      /\ c \in {"codex", "copilot"} => (f.events = "proper" <=> g.events = "proper")
  <2> HIDE DEF start
  <2> QED
    BY <1>4, HHooks
<1>6. \A k \in DOMAIN remains : path \notin remains[k]
  <2>1. \A i \in I : path \notin f.start[i]
    OBVIOUS
  <2>2. I \in SUBSET DOMAIN f.start
    OBVIOUS
  <2>3. \A k \in DOMAIN remains : \E i \in I : remains[k] = f.start[i]
    <3> HIDE DEF I
    <3> QED
      BY <1>2, <2>2, SelectProperties
  <2> HIDE DEF I, remains
  <2> QED
    BY <2>1, <2>3
<1>7. HSound(g, there)
  <2>1. HSound([start |-> remains], there)
    <3>1. I \in SUBSET DOMAIN f.start
      OBVIOUS
    <3> HIDE DEF I
    <3> QED
      BY <3>1, HSelectSound
  <2>2. CASE c = "claude"
    <3>1. g.start = Append(remains, {path})
      BY <1>5, <2>2
    <3> HIDE DEF remains, g
    <3>2. /\ DOMAIN g.start = 1 .. Len(remains) + 1 /\ g.start[Len(remains) + 1] = {path}
          /\ \A k \in DOMAIN remains : k \in DOMAIN g.start /\ g.start[k] = remains[k] /\ k # Len(remains) + 1
          /\ \A k \in DOMAIN g.start : k \in DOMAIN remains \/ k = Len(remains) + 1
      BY <1>2, <1>3, <3>1
    <3> SUFFICES ASSUME NEW q \in Paths
                 PROVE  /\ \A i, j \in DOMAIN g.start : q \in g.start[i] /\ q \in g.start[j] => i = j
                        /\ \A i \in DOMAIN g.start : q \in g.start[i] => q \in there
      BY DEF HSound
    <3>3. CASE q = path
      <4>1. \A k \in DOMAIN g.start : q \in g.start[k] => k = Len(remains) + 1
        BY <1>6, <3>2, <3>3
      <4> QED
        BY <3>3, <4>1
    <3>4. CASE q # path
      <4>1. \A k \in DOMAIN g.start : q \in g.start[k] => k \in DOMAIN remains /\ q \in remains[k]
        BY <3>2, <3>4
      <4> QED
        BY <2>1, <4>1 DEF HSound
    <3> QED
      BY <3>3, <3>4
  <2>3. CASE c # "claude"
    <3>1. g.start = <<{path}>>
      BY <1>5, <2>3
    <3> HIDE DEF g
    <3> QED
      BY <3>1 DEF HSound
  <2> QED
    BY <2>2, <2>3
<1>8. c = "claude" => K!NotOurs(g) = K!NotOurs(f)
  <2> SUFFICES ASSUME c = "claude" PROVE K!NotOurs(g) = K!NotOurs(f)
    OBVIOUS
  <2>1. g.start = Append(remains, {path})
    BY <1>5
  <2>2. K!NotOurs(g) = K!NotOurs([start |-> remains])
    <3> HIDE DEF remains, g
    <3> DEFINE J == {i \in DOMAIN remains : remains[i] \cap Paths = {}}
    <3>1. {path} \cap Paths # {}
      OBVIOUS
    <3>2. /\ \A k \in DOMAIN remains : k \in DOMAIN g.start /\ g.start[k] = remains[k]
          /\ \A k \in DOMAIN g.start : k \in DOMAIN remains \/ g.start[k] = {path}
      BY <1>2, <1>3, <2>1
    <3>3. {i \in DOMAIN g.start : g.start[i] \cap Paths = {}} = J
      BY <3>1, <3>2
    <3>4. K!NotOurs(g) = Select(g.start, J) /\ K!NotOurs([start |-> remains]) = Select(remains, J)
      BY <3>3, KSelect DEF K!NotOurs
    <3>5. J \in SUBSET DOMAIN remains
      OBVIOUS
    <3>6. \A i \in J : g.start[i] = remains[i]
      BY <3>2
    <3> HIDE DEF J
    <3>7. J \in SUBSET Int /\ IsFiniteSet(J)
      BY <1>3, <3>5, SelectProperties
    <3> QED
      BY <3>4, <3>6, <3>7, SelectSame
  <2>3. K!NotOurs([start |-> remains]) = K!NotOurs(f)
    BY <1>2, HSelectKeeps
  <2> QED
    BY <2>2, <2>3
<1> HIDE DEF g
<1> QED
  BY <1>1, <1>5, <1>7, <1>8 DEF HOnlyOurs

(* Uninstall: what is left is sound.                                        *)
LEMMA HUninstalled ==
    ASSUME K!HookAssumption, NEW c \in Clients, NEW f \in HSettings, NEW there, HSound(f, there), NEW cmd
    PROVE  /\ K!Uninstalled(c, f) \in HSettings
           /\ HSound(K!Uninstalled(c, f), there)
           /\ HOnlyOurs(cmd, c, f, K!Uninstalled(c, f))
<1> DEFINE I == {i \in DOMAIN f.start : f.start[i] \cap Marked = {}}
           remains == Select(f.start, I)
           g == K!Hooks(c, f, remains)
<1>1. K!Uninstalled(c, f) = g
  BY KSelect DEF K!Uninstalled, K!OursByMarker
<1>2. f.start \in Seq(HCommands)
  BY DEF HSettings
<1>3. I \in SUBSET DOMAIN f.start
  OBVIOUS
<1>4. remains \in Seq(HCommands)
  <2> HIDE DEF I
  <2> QED
    BY <1>2, <1>3, SelectProperties
<1>5. /\ g \in HSettings /\ g.start = remains /\ g.ok = f.ok /\ g.other = f.other
      /\ c = "claude" => g.events = f.events
      /\ c \in {"codex", "copilot"} => (f.events = "proper" <=> g.events = "proper")
  <2> HIDE DEF remains
  <2> QED
    BY <1>4, HHooks
<1>6. \A i \in DOMAIN f.start : f.start[i] \cap Paths = {} => i \in I
  BY DEF K!HookAssumption
<1>7. K!NotOurs(g) = K!NotOurs(f)
  <2> HIDE DEF I, g
  <2> QED
    BY <1>2, <1>3, <1>5, <1>6, HSelectKeeps
<1>8. HSound(g, there)
  <2> HIDE DEF I, g
  <2> QED
    BY <1>3, <1>5, HSelectSound
<1> HIDE DEF g
<1> QED
  BY <1>1, <1>5, <1>7, <1>8 DEF HOnlyOurs

-----------------------------------------------------------------------------
(* A missing file and a malformed one are settings, and name nothing.       *)
LEMMA HSettingsThere ==
    /\ K!NoFile \in HSettings /\ K!Malformed \in HSettings
    /\ \A there : HSound(K!NoFile, there) /\ HSound(K!Malformed, there)
<1>1. <<>> \in Seq(HCommands)
  OBVIOUS
<1>2. K!NoFile \in HSettings /\ K!NoFile.start = <<>>
  BY <1>1 DEF K!NoFile, HSettings
<1>3. K!Malformed \in HSettings /\ K!Malformed.start = <<>>
  BY <1>2 DEF K!Malformed, HSettings
<1> QED
  BY <1>2, <1>3 DEF HSound

(* A process that runs no command is one.                                   *)
LEMMA HIdle == K!Idle \in HProc /\ K!Idle.pc = "idle"
BY HSettingsThere DEF K!Idle, HProc

(* A command that has just started. *)
HNew(cmd, path, S, step) == [K!Idle EXCEPT !.cmd = cmd, !.path = path, !.todo = S, !.pc = step]

(* A command that has just started is well typed.                           *)
LEMMA HStarts ==
    ASSUME NEW cmd \in {"install", "uninstall"}, NEW path \in Paths \cup {User}, NEW S \in SUBSET Clients,
           NEW step \in {"extract", "next"}
    PROVE  /\ HNew(cmd, path, S, step) \in HProc
           /\ HNew(cmd, path, S, step).cmd = cmd
           /\ HNew(cmd, path, S, step).path = path
           /\ HNew(cmd, path, S, step).pc = step
BY HIdle DEF HProc, HNew

(* More scripts, or settings of other clients, change nothing a command     *)
(* relies on.                                                               *)
LEMMA HProcStays ==
    ASSUME NEW x, NEW settings, NEW there, HProcOK(x, settings, there),
           NEW later, there \subseteq later, NEW after,
           x.pc = "write" /\ ~x.stale => after[x.client] = settings[x.client]
    PROVE  HProcOK(x, after, later)
BY DEF HProcOK, HSound

(* Commands whose copy is outdated say so; nothing else changes in them.    *)
LEMMA HOutdated ==
    ASSUME NEW ps \in [Procs -> HProc], NEW c
    PROVE  /\ K!Outdated(ps, c) \in [Procs -> HProc]
           /\ \A q \in Procs :
                  LET x == K!Outdated(ps, c)[q]
                  IN  /\ x.pc = ps[q].pc /\ x.cmd = ps[q].cmd /\ x.path = ps[q].path
                      /\ x.client = ps[q].client /\ x.copy = ps[q].copy
                      /\ x.pc = "write" /\ ~x.stale => x.client # c /\ x = ps[q]
<1>1. ASSUME NEW q \in Procs, NEW x, x = K!Outdated(ps, c)[q]
      PROVE  /\ x \in HProc
             /\ x.pc = ps[q].pc /\ x.cmd = ps[q].cmd /\ x.path = ps[q].path
             /\ x.client = ps[q].client /\ x.copy = ps[q].copy
             /\ x.pc = "write" /\ ~x.stale => x.client # c /\ x = ps[q]
  <2>1. CASE ps[q].pc = "write" /\ ps[q].client = c
    <3>1. x = [ps[q] EXCEPT !.stale = TRUE]
      BY <1>1, <2>1 DEF K!Outdated
    <3> QED
      BY <3>1 DEF HProc
  <2>2. CASE ~(ps[q].pc = "write" /\ ps[q].client = c)
    <3>1. x = ps[q]
      BY <1>1, <2>2 DEF K!Outdated
    <3> QED
      BY <2>2, <3>1
  <2> QED
    BY <2>1, <2>2
<1>2. K!Outdated(ps, c) \in [Procs -> HProc]
  BY <1>1 DEF K!Outdated
<1> QED
  BY <1>1, <1>2

(* After a write the command goes on with its next client.                  *)
LEMMA HWritten ==
    ASSUME HTypeOK, NEW p \in Procs
    PROVE  /\ K!Written(p) \in [Procs -> HProc]
           /\ K!Written(p)[p].pc = "next"
           /\ K!Written(p)[p].cmd = proc[p].cmd /\ K!Written(p)[p].path = proc[p].path
           /\ \A q \in Procs : q # p => K!Written(p)[q] = proc[q]
<1> DEFINE x == [proc[p] EXCEPT !.pc = "next", !.copy = K!NoFile, !.client = "none", !.stale = FALSE]
<1>1. x \in HProc /\ x.pc = "next" /\ x.cmd = proc[p].cmd /\ x.path = proc[p].path
  BY HSettingsThere DEF HTypeOK, HProc
<1>2. K!Written(p) = [proc EXCEPT ![p] = x]
  BY DEF K!Written
<1> HIDE DEF x
<1> QED
  BY <1>1, <1>2 DEF HTypeOK

-----------------------------------------------------------------------------
(* Nothing is installed, and no command runs.                               *)
LEMMA HInit == ASSUME K!HookAssumption PROVE K!Init => HInv
<1> SUFFICES ASSUME K!Init PROVE HInv
  OBVIOUS
<1>1. HTypeOK
  BY HSettingsThere, HIdle DEF K!Init, HTypeOK
<1>2. \A p \in Procs : HProcOK(proc[p], file, script)
  <2>1. \A p \in Procs : proc[p] = K!Idle
    BY DEF K!Init
  <2> QED
    BY <2>1, HIdle DEF HProcOK
<1>3. \A c \in Clients : HSound(file[c], script)
  BY HSettingsThere DEF K!Init
<1> QED
  BY <1>1, <1>2, <1>3 DEF HInv

(* A command starts. *)
LEMMA HStart ==
    ASSUME HInv, NEW p \in Procs, NEW cmd \in {"install", "uninstall"}, NEW path \in Paths \cup {User},
           NEW S \in SUBSET Clients, cmd = "install" => path \in Paths, K!Start(p, cmd, path, S)
    PROVE  HInv'
<1> DEFINE step == IF cmd = "install" THEN "extract" ELSE "next"
           x == HNew(cmd, path, S, step)
<1>0. step \in {"extract", "next"}
  OBVIOUS
<1>1. /\ x \in HProc /\ x.cmd = cmd /\ x.path = path /\ x.pc = step
      /\ proc' = [proc EXCEPT ![p] = x]
  <2>1. proc' = [proc EXCEPT ![p] = x]
    BY DEF K!Start, HNew
  <2> HIDE DEF step
  <2> QED
    BY <1>0, <2>1, HStarts
<1>5. cmd \in {"install", "uninstall"} /\ (step = "extract" => cmd = "install")
  OBVIOUS
<1> HIDE DEF x
<1>2. UNCHANGED <<file, script>>
  BY DEF K!Start
<1>3. HTypeOK'
  BY <1>1, <1>2 DEF HInv, HTypeOK
<1>4. ASSUME NEW q \in Procs PROVE HProcOK(proc'[q], file', script')
  <2>1. CASE q = p
    <3>1. proc'[q] = x
      BY <1>1, <2>1 DEF HInv, HTypeOK
    <3> QED
      BY <1>0, <1>1, <1>5, <3>1 DEF HProcOK
  <2>2. CASE q # p
    <3>1. proc'[q] = proc[q]
      BY <1>1, <2>2 DEF HInv, HTypeOK
    <3> QED
      BY <1>2, <3>1 DEF HInv
  <2> QED
    BY <2>1, <2>2
<1> QED
  BY <1>2, <1>3, <1>4 DEF HInv

(* The command that starts p's next step has x in its place.                *)
LEMMA HOneMoves ==
    ASSUME HInv, NEW p \in Procs, NEW x \in HProc, proc' = [proc EXCEPT ![p] = x],
           file' = file, script \subseteq script', script' \subseteq Paths, HProcOK(x, file, script')
    PROVE  HInv'
<1>1. HTypeOK'
  BY DEF HInv, HTypeOK
<1>2. ASSUME NEW q \in Procs PROVE HProcOK(proc'[q], file', script')
  <2>1. CASE q = p
    <3>1. proc'[q] = x
      BY <2>1 DEF HInv, HTypeOK
    <3> QED
      BY <3>1
  <2>2. CASE q # p
    <3>1. proc'[q] = proc[q]
      BY <2>2 DEF HInv, HTypeOK
    <3>2. HProcOK(proc[q], file, script')
      BY HProcStays DEF HInv
    <3> QED
      BY <3>1, <3>2
  <2> QED
    BY <2>1, <2>2
<1>3. \A c \in Clients : HSound(file'[c], script')
  BY DEF HInv, HSound
<1> QED
  BY <1>1, <1>2, <1>3 DEF HInv

(* The script is extracted, or the command ends with that error.            *)
LEMMA HExtract == ASSUME HInv, NEW p \in Procs, K!Extract(p) PROVE HInv'
<1>1. proc[p] \in HProc /\ proc[p].pc = "extract" /\ HProcOK(proc[p], file, script) /\ file' = file
  BY DEF K!Extract, HInv, HTypeOK
<1>2. CASE script' = script \cup {proc[p].path} /\ proc' = [proc EXCEPT ![p].pc = "next"]
  <2> DEFINE x == [proc[p] EXCEPT !.pc = "next"]
  <2>1. x \in HProc /\ x.pc = "next" /\ x.cmd = proc[p].cmd /\ x.path = proc[p].path
    BY <1>1 DEF HProc
  <2>2. proc' = [proc EXCEPT ![p] = x]
    BY <1>2
  <2>3. proc[p].cmd = "install"
    BY <1>1 DEF HProcOK, HInv
  <2>4. script \subseteq script' /\ script' \subseteq Paths /\ HProcOK(x, file, script')
    BY <1>1, <1>2, <2>1, <2>3 DEF HProcOK, HInv, HTypeOK
  <2> HIDE DEF x
  <2> QED
    BY <1>1, <2>1, <2>2, <2>4, HOneMoves
<1>3. CASE proc' = [proc EXCEPT ![p] = K!Idle] /\ script' = script
  <2>1. HProcOK(K!Idle, file, script')
    BY HIdle DEF HProcOK
  <2> QED
    BY <1>1, <1>3, <2>1, HIdle, HOneMoves DEF HInv, HTypeOK
<1> QED
  BY <1>2, <1>3 DEF K!Extract

(* A client's settings are read, and what is to be written is made.         *)
LEMMA HRead ==
    ASSUME K!HookAssumption, HInv, NEW p \in Procs, NEW c \in Clients, K!Read(p, c)
    PROVE  HInv'
<1> DEFINE q == [proc[p] EXCEPT !.todo = @ \ {c}]
           f == file[c]
           g == IF q.cmd = "install" THEN K!Installed(c, f, q.path) ELSE K!Uninstalled(c, f)
           w == [q EXCEPT !.pc = "write", !.client = c, !.stale = FALSE, !.copy = g]
<1>1. /\ proc[p] \in HProc /\ proc[p].pc = "next" /\ HProcOK(proc[p], file, script)
      /\ f \in HSettings /\ HSound(f, script) /\ UNCHANGED <<file, script>>
      /\ script \subseteq Paths
  BY DEF K!Read, HInv, HTypeOK
<1>2. proc' = [proc EXCEPT ![p] = IF K!NothingToWrite(c, f, q.cmd) THEN q ELSE w]
  BY DEF K!Read
<1>3. q \in HProc /\ q.pc = "next" /\ q.cmd = proc[p].cmd /\ q.path = proc[p].path
  BY <1>1 DEF HProc
<1>4. HProcOK(q, file, script)
  <2> HIDE DEF q
  <2> QED
    BY <1>1, <1>3 DEF HProcOK
<1>5. g \in HSettings /\ HSound(g, script) /\ HOnlyOurs(q.cmd, c, f, g)
  <2> HIDE DEF q, f
  <2>1. CASE q.cmd = "install"
    <3>1. q.path \in Paths /\ q.path \in script
      BY <1>3, <1>4, <2>1 DEF HProcOK
    <3> QED
      BY <1>1, <2>1, <3>1, HInstalled
  <2>2. CASE q.cmd # "install"
    BY <1>1, <2>2, HUninstalled
  <2> QED
    BY <2>1, <2>2
<1>6. /\ w \in HProc /\ w.pc = "write" /\ w.cmd = q.cmd /\ w.path = q.path
      /\ w.client = c /\ w.copy = g
  <2> HIDE DEF q, g
  <2> QED
    BY <1>3, <1>5 DEF HProc
<1>7. HProcOK(w, file, script)
  <2> HIDE DEF w, q, g
  <2> QED
    BY <1>3, <1>4, <1>5, <1>6 DEF HProcOK
<1>8. CASE K!NothingToWrite(c, f, q.cmd)
  <2>1. proc' = [proc EXCEPT ![p] = q]
    BY <1>2, <1>8
  <2> HIDE DEF q
  <2> QED
    BY <1>1, <1>3, <1>4, <2>1, HOneMoves
<1>9. CASE ~K!NothingToWrite(c, f, q.cmd)
  <2>1. proc' = [proc EXCEPT ![p] = w]
    BY <1>2, <1>9
  <2> HIDE DEF w
  <2> QED
    BY <1>1, <1>6, <1>7, <2>1, HOneMoves
<1> QED
  BY <1>8, <1>9

(* The rename, or a failure before it.                                      *)
LEMMA HWrite == ASSUME HInv, NEW p \in Procs, K!Write(p) PROVE HInv'
<1> DEFINE c == proc[p].client
           w == K!Written(p)
           o == K!Outdated(w, c)
<1>1. /\ proc[p] \in HProc /\ proc[p].pc = "write" /\ HProcOK(proc[p], file, script)
      /\ script' = script
  BY DEF K!Write, HInv, HTypeOK
<1>2. /\ w \in [Procs -> HProc] /\ w[p].pc = "next"
      /\ w[p].cmd = proc[p].cmd /\ w[p].path = proc[p].path
      /\ \A q \in Procs : q # p => w[q] = proc[q]
  BY HWritten DEF HInv
<1>3. \A q \in Procs : HProcOK(w[q], file, script)
  <2> HIDE DEF w
  <2> QED
    BY <1>1, <1>2 DEF HProcOK, HInv
<1>4. CASE file' = [file EXCEPT ![c] = proc[p].copy] /\ proc' = o
  <2>1. /\ o \in [Procs -> HProc]
        /\ \A q \in Procs :
              /\ o[q].pc = w[q].pc /\ o[q].cmd = w[q].cmd /\ o[q].path = w[q].path
              /\ o[q].client = w[q].client /\ o[q].copy = w[q].copy
              /\ o[q].pc = "write" /\ ~o[q].stale => o[q].client # c /\ o[q] = w[q]
    <3> HIDE DEF w, c
    <3> QED
      BY <1>2, HOutdated
  <2>2. proc[p].copy \in HSettings /\ HSound(proc[p].copy, script) /\ c \in Clients
    BY <1>1 DEF HProc, HProcOK
  <2>3. file' \in [Clients -> HSettings] /\ \A d \in Clients : d # c => file'[d] = file[d]
    BY <1>4, <2>2 DEF HInv, HTypeOK
  <2>4. HTypeOK'
    BY <1>1, <1>4, <2>1, <2>3 DEF HInv, HTypeOK
  <2>5. \A d \in Clients : HSound(file'[d], script')
    BY <1>1, <1>4, <2>2, <2>3 DEF HInv, HTypeOK
  <2>6. \A q \in Procs : HProcOK(o[q], file', script')
    <3> HIDE DEF o, w, c
    <3> SUFFICES ASSUME NEW q \in Procs PROVE HProcOK(o[q], file', script')
      OBVIOUS
    <3>1. HProcOK(w[q], file, script)
      BY <1>3
    <3>2. o[q].pc = "write" /\ ~o[q].stale =>
              o[q].client \in Clients /\ file'[o[q].client] = file[o[q].client] /\ o[q] = w[q]
      BY <2>1, <2>3, <3>1 DEF HProcOK
    <3> QED
      BY <1>1, <2>1, <3>1, <3>2 DEF HProcOK
  <2> QED
    BY <1>4, <2>4, <2>5, <2>6 DEF HInv
<1>5. CASE proc' = w /\ file' = file
  <2> HIDE DEF w
  <2> QED
    BY <1>1, <1>2, <1>3, <1>5 DEF HInv, HTypeOK
<1> QED
  BY <1>4, <1>5 DEF K!Write

(* The command is over, or is killed.                                       *)
LEMMA HEnd == ASSUME HInv, NEW p \in Procs, K!End(p) PROVE HInv'
<1>1. HProcOK(K!Idle, file, script')
  BY HIdle DEF HProcOK
<1> QED
  BY <1>1, HIdle, HOneMoves DEF K!End, HInv, HTypeOK

(* The user's edit adds no script of docsiq's to a file.                    *)
LEMMA HEdit ==
    ASSUME K!HookAssumption, HInv, NEW c \in Clients, K!Edit(c)
    PROVE  HInv'
<1> DEFINE o == K!Outdated(proc, c)
           f == file[c]
<1>1. script' = script /\ proc' = o
  BY DEF K!Edit
<1>2. /\ o \in [Procs -> HProc]
      /\ \A q \in Procs :
            /\ o[q].pc = proc[q].pc /\ o[q].cmd = proc[q].cmd /\ o[q].path = proc[q].path
            /\ o[q].client = proc[q].client /\ o[q].copy = proc[q].copy
            /\ o[q].pc = "write" /\ ~o[q].stale => o[q].client # c /\ o[q] = proc[q]
  BY HOutdated DEF HInv, HTypeOK
<1>3. f \in HSettings /\ HSound(f, script) /\ f.start \in Seq(HCommands)
  BY DEF HInv, HTypeOK, HSettings
<1>4. {User} \in HCommands /\ User \notin Paths
  BY DEF HCommands, K!HookAssumption
<1>5. PICK e \in {"none", "proper", "odd"}, k \in BOOLEAN, ok \in BOOLEAN :
      \E s \in {<<>>, f.start, Append(f.start, {User})}
               \cup (IF c = "claude" THEN {[i \in DOMAIN f.start |-> f.start[i] \cup {User}]} ELSE {}) :
          file' = [file EXCEPT ![c] = IF ok THEN [ok |-> TRUE, other |-> k, start |-> s, events |-> e]
                                            ELSE K!Malformed]
  BY DEF K!Edit
<1>6. PICK s \in {<<>>, f.start, Append(f.start, {User}), [i \in DOMAIN f.start |-> f.start[i] \cup {User}]} :
          file' = [file EXCEPT ![c] = IF ok THEN [ok |-> TRUE, other |-> k, start |-> s, events |-> e]
                                            ELSE K!Malformed]
  BY <1>5
<1>7. /\ s \in Seq(HCommands)
      /\ \A i \in DOMAIN s : i \in DOMAIN f.start \/ s[i] = {User}
      /\ \A i \in DOMAIN s : i \in DOMAIN f.start => s[i] = f.start[i] \/ s[i] = f.start[i] \cup {User}
  <2> HIDE DEF f
  <2>1. CASE s = <<>>
    BY <2>1
  <2>2. CASE s = f.start
    BY <1>3, <2>2
  <2>3. CASE s = Append(f.start, {User})
    BY <1>3, <1>4, <2>3
  <2>4. CASE s = [i \in DOMAIN f.start |-> f.start[i] \cup {User}]
    <3>1. Len(f.start) \in Nat /\ DOMAIN f.start = 1 .. Len(f.start)
      BY <1>3
    <3>2. \A i \in DOMAIN f.start : f.start[i] \cup {User} \in HCommands
      BY <1>3 DEF HCommands
    <3>3. s \in [1 .. Len(f.start) -> HCommands]
      BY <2>4, <3>1, <3>2
    <3>4. s \in Seq(HCommands)
      BY <3>1, <3>3
    <3> QED
      BY <2>4, <3>4
  <2> QED
    BY <2>1, <2>2, <2>3, <2>4
<1> DEFINE g == IF ok THEN [ok |-> TRUE, other |-> k, start |-> s, events |-> e] ELSE K!Malformed
<1>8. g \in HSettings /\ HSound(g, script)
  <2>1. CASE ok
    <3>1. g \in HSettings /\ g.start = s
      BY <1>7, <2>1 DEF HSettings
    <3> HIDE DEF g
    <3>2. \A path \in Paths, i \in DOMAIN s :
              path \in s[i] => i \in DOMAIN f.start /\ path \in f.start[i]
      BY <1>4, <1>7
    <3> HIDE DEF f
    <3> QED
      BY <1>3, <3>1, <3>2 DEF HSound
  <2>2. CASE ~ok
    BY <2>2, HSettingsThere
  <2> QED
    BY <2>1, <2>2
<1>9. /\ file' \in [Clients -> HSettings] /\ file'[c] = g
      /\ \A d \in Clients : d # c => file'[d] = file[d]
  <2>1. file' = [file EXCEPT ![c] = g]
    BY <1>6
  <2> HIDE DEF g
  <2> QED
    BY <1>8, <2>1 DEF HInv, HTypeOK
<1>10. HTypeOK'
  BY <1>1, <1>2, <1>9 DEF HInv, HTypeOK
<1>11. \A d \in Clients : HSound(file'[d], script')
  <2> HIDE DEF g
  <2> QED
    BY <1>1, <1>8, <1>9 DEF HInv
<1>12. \A q \in Procs : HProcOK(o[q], file', script')
  <2> HIDE DEF o, g
  <2> SUFFICES ASSUME NEW q \in Procs PROVE HProcOK(o[q], file', script')
    OBVIOUS
  <2>1. HProcOK(proc[q], file, script)
    BY DEF HInv
  <2>2. o[q].pc = "write" /\ ~o[q].stale =>
            o[q].client \in Clients /\ file'[o[q].client] = file[o[q].client] /\ o[q] = proc[q]
    BY <1>2, <1>9, <2>1 DEF HProcOK
  <2> QED
    BY <1>1, <1>2, <2>1, <2>2 DEF HProcOK
<1> QED
  BY <1>1, <1>10, <1>11, <1>12 DEF HInv

(* Every step keeps the invariant of the hook installer.                    *)
LEMMA HStep ==
    ASSUME K!HookAssumption
    PROVE  HInv /\ [K!Next]_(K!vars) => HInv'
<1> SUFFICES ASSUME HInv, [K!Next]_(K!vars) PROVE HInv'
  OBVIOUS
<1>1. ASSUME NEW p \in Procs, NEW path \in Paths, NEW S \in SUBSET Clients, K!Start(p, "install", path, S)
      PROVE  HInv'
  BY <1>1, HStart
<1>2. ASSUME NEW p \in Procs, NEW S \in SUBSET Clients, K!Start(p, "uninstall", User, S)
      PROVE  HInv'
  BY <1>2, HStart
<1>3. ASSUME NEW p \in Procs, K!Extract(p) \/ K!Write(p) \/ K!End(p) PROVE HInv'
  BY <1>3, HExtract, HWrite, HEnd
<1>4. ASSUME NEW p \in Procs, NEW c \in Clients, K!Read(p, c) PROVE HInv'
  BY <1>4, HRead
<1>5. ASSUME NEW c \in Clients, K!Edit(c) PROVE HInv'
  BY <1>5, HEdit
<1>6. CASE UNCHANGED K!vars
  BY <1>6 DEF K!vars, HInv, HTypeOK
<1> QED
  BY <1>1, <1>2, <1>3, <1>4, <1>5, <1>6 DEF K!Next

-----------------------------------------------------------------------------
(* A settings file names each script at most once, and only if it is there. *)
THEOREM HooksNamedOnceAndThere == K!Spec => []NamedOnceAndThere
<1>1. K!Init => HInv
  BY HInit, OuterAssumption
<1>2. HInv /\ [K!Next]_(K!vars) => HInv'
  BY HStep, OuterAssumption
<1>3. HInv => NamedOnceAndThere
  <2> SUFFICES ASSUME HInv, NEW c \in Clients, NEW path \in Paths
               PROVE  LET named == {i \in DOMAIN file[c].start : path \in file[c].start[i]}
                      IN  Cardinality(named) <= 1 /\ (named # {} => path \in script)
    BY KCardinality DEF NamedOnceAndThere, K!NamedOnceAndThere
  <2> DEFINE named == {i \in DOMAIN file[c].start : path \in file[c].start[i]}
  <2>1. (\A i, j \in named : i = j) /\ (named # {} => path \in script)
    BY DEF HInv, HSound
  <2>2. Cardinality(named) <= 1
    <3> HIDE DEF named
    <3>1. CASE named = {}
      BY <3>1, FS_EmptySet
    <3>2. CASE named # {}
      <4>1. PICK i : i \in named
        BY <3>2
      <4>2. named = {i}
        BY <2>1, <4>1
      <4>3. \E x : named = {x}
        BY <4>2
      <4>4. Cardinality(named) = 1
        BY <4>3, FS_Singleton
      <4> QED
        BY <4>4
    <3> QED
      BY <3>1, <3>2
  <2> QED
    BY <2>1, <2>2
<1> QED
  BY <1>1, <1>2, <1>3, PTL DEF K!Spec

(* Only a command's own write takes it from "write" to "next".              *)
LEMMA HMovesOn ==
    ASSUME HInv, [K!Next]_(K!vars), NEW p \in Procs, proc[p].pc = "write", proc'[p].pc = "next"
    PROVE  K!Write(p)
<1>1. proc \in [Procs -> HProc]
  BY DEF HInv, HTypeOK
<1>2. ASSUME NEW q \in Procs, NEW x, q # p, proc' = [proc EXCEPT ![q] = x] PROVE FALSE
  BY <1>1, <1>2
<1>3. ASSUME NEW q \in Procs, NEW cmd, NEW path, NEW S, K!Start(q, cmd, path, S) PROVE FALSE
  BY <1>2, <1>3 DEF K!Start
<1>4. ASSUME NEW q \in Procs, K!Extract(q) PROVE FALSE
  <2>1. q # p
    BY <1>4 DEF K!Extract
  <2> QED
    BY <1>1, <1>4, <2>1 DEF K!Extract
<1>5. ASSUME NEW q \in Procs, NEW c \in Clients, K!Read(q, c) PROVE FALSE
  BY <1>2, <1>5 DEF K!Read
<1>6. ASSUME NEW q \in Procs, K!End(q) PROVE FALSE
  BY <1>1, <1>6, HIdle DEF K!End
<1>7. ASSUME NEW c \in Clients, K!Edit(c) PROVE FALSE
  BY <1>1, <1>7, HOutdated DEF K!Edit
<1>8. ASSUME NEW q \in Procs, K!Write(q) PROVE q = p
  <2> SUFFICES ASSUME q # p PROVE FALSE
    OBVIOUS
  <2>1. K!Written(q) \in [Procs -> HProc] /\ K!Written(q)[p] = proc[p]
    BY HWritten DEF HInv
  <2>2. K!Outdated(K!Written(q), proc[q].client)[p].pc = "write"
    BY <2>1, HOutdated
  <2> QED
    BY <1>8, <2>1, <2>2 DEF K!Write
<1>9. CASE UNCHANGED K!vars
  BY <1>9 DEF K!vars
<1> QED
  BY <1>3, <1>4, <1>5, <1>6, <1>7, <1>8, <1>9 DEF K!Next

(* A rename over settings that nobody has written since they were read      *)
(* keeps every other key, Claude's other events and the string ones of      *)
(* Codex and Copilot, and what else there is in SessionStart with Claude    *)
(* and, with any client, when docsiq is uninstalled.                        *)
THEOREM HooksOnlyOursChanges == K!Spec => OnlyOursChanges
<1> DEFINE A == \A p \in Procs :
                   LET c == proc[p].client
                   IN  proc[p].pc = "write" /\ proc'[p].pc = "next" /\ ~proc[p].stale
                       => /\ file'[c].ok = file[c].ok /\ file'[c].other = file[c].other
                          /\ c = "claude" => file'[c].events = file[c].events
                          /\ c = "claude" \/ proc[p].cmd = "uninstall" =>
                                 K!NotOurs(file'[c]) = K!NotOurs(file[c])
                          /\ c \in {"codex", "copilot"} =>
                                 (file[c].events = "proper" <=> file'[c].events = "proper")
<1>1. K!Init => HInv
  BY HInit, OuterAssumption
<1>2. HInv /\ [K!Next]_(K!vars) => HInv'
  BY HStep, OuterAssumption
<1>3. HInv /\ [K!Next]_(K!vars) => A
  <2> SUFFICES ASSUME HInv, [K!Next]_(K!vars), NEW p \in Procs,
                      proc[p].pc = "write", proc'[p].pc = "next", ~proc[p].stale
               PROVE  \A c : c = proc[p].client =>
                          /\ file'[c].ok = file[c].ok /\ file'[c].other = file[c].other
                          /\ c = "claude" => file'[c].events = file[c].events
                          /\ c = "claude" \/ proc[p].cmd = "uninstall" =>
                                 K!NotOurs(file'[c]) = K!NotOurs(file[c])
                          /\ c \in {"codex", "copilot"} =>
                                 (file[c].events = "proper" <=> file'[c].events = "proper")
    OBVIOUS
  <2>1. /\ proc[p].client \in Clients
        /\ HOnlyOurs(proc[p].cmd, proc[p].client, file[proc[p].client], proc[p].copy)
    BY DEF HInv, HProcOK
  <2>2. K!Write(p)
    BY HMovesOn, OuterAssumption
  <2>3. CASE file' = file
    BY <2>3 DEF K!NotOurs
  <2>4. CASE file' = [file EXCEPT ![proc[p].client] = proc[p].copy]
    <3>1. file'[proc[p].client] = proc[p].copy
      BY <2>1, <2>4 DEF HInv, HTypeOK
    <3> QED
      BY <2>1, <3>1 DEF HOnlyOurs, K!NotOurs
  <2> QED
    BY <2>2, <2>3, <2>4 DEF K!Write
<1> QED
  BY <1>1, <1>2, <1>3, PTL DEF K!Spec, OnlyOursChanges, K!OnlyOursChanges

-----------------------------------------------------------------------------
(* The crawler and the indexing of its pages.                                *)

(* The records that the crawl and the indexing of its pages work with.     *)
WTexts == Texts \cup {"wait", "failed"}
WItems == [u : URLs, depth : Nat]
WPages == [url : URLs, text : WTexts]
WRows == [path : URLs, hash : WTexts, latest : BOOLEAN, run : Nat, version : Int, canonical : Int,
          whole : BOOLEAN]

WTypeOK ==
    /\ text \in [URLs -> Texts]
    /\ phase \in {"idle", "sitemap", "bfs", "fetch", "fetched", "index"}
    /\ opts \in [pages : Nat, depth : Nat]
    /\ queue \in Seq(WItems) /\ urls \in Seq(URLs) /\ fetched \in Seq(WTexts)
    /\ phase \in {"fetch", "fetched"} => DOMAIN fetched = DOMAIN urls
    /\ docs \in Seq(WRows) /\ pages \in Seq(WPages) /\ webRuns \in Nat
    /\ pc \in [DOMAIN pages -> {"lookup", "supersede", "insert", "fill", "ok", "failed"}]
    /\ existing \in [DOMAIN pages -> Nat]

(* Two rows of one path that one call inserted.                            *)
WTwice(u) ==
    \E x, y \in DOMAIN docs : x # y /\ docs[x].run = docs[y].run /\ docs[x].path = u /\ docs[y].path = u

(* What holds of the rows: file_hash is UNIQUE, and no row is of a call    *)
(* that has not come to insert any.                                        *)
WRowsOK ==
    /\ \A d, e \in DOMAIN docs : docs[d].hash = docs[e].hash => d = e
    /\ \A d \in DOMAIN docs :
           docs[d].run <= webRuns /\ (phase \in {"sitemap", "bfs", "fetch", "fetched"} => docs[d].run < webRuns)
    /\ \A d, e \in DOMAIN docs :
           d # e /\ docs[d].latest /\ docs[e].latest /\ docs[d].path = docs[e].path => WTwice(docs[d].path)

(* What a page knows of the rows while its call runs.                      *)
WPageOK(i) ==
    /\ existing[i] # 0 => existing[i] \in DOMAIN docs /\ docs[existing[i]].path = pages[i].url
    /\ pc[i] \in {"supersede", "fill"} => existing[i] # 0
    /\ pc[i] = "fill" =>
           /\ docs[existing[i]].run = webRuns /\ docs[existing[i]].hash = pages[i].text
           /\ ~W!ListedTwice(pages[i].url) => docs[existing[i]].latest
    /\ pc[i] = "ok" /\ ~W!ListedTwice(pages[i].url) =>
           \E d \in W!LatestOf(pages[i].url) :
               docs[d].hash = pages[i].text /\ (docs[d].whole \/ docs[d].run < webRuns)
    /\ pc[i] \in {"supersede", "insert"} /\ ~WTwice(pages[i].url) =>
           \A d \in W!LatestOf(pages[i].url) :
               docs[d].run = webRuns \/ (pc[i] = "supersede" /\ d = existing[i])

(* A row of the running call is that of a page that is past its insertion. *)
WOwned(d) ==
    docs[d].run = webRuns =>
        \E j \in DOMAIN pages : existing[j] = d /\ pc[j] \in {"fill", "ok", "failed"} /\ pages[j].url = docs[d].path

WInv ==
    /\ WTypeOK /\ WRowsOK
    /\ phase = "index" =>
           (\A i \in DOMAIN pages : WPageOK(i)) /\ (\A d \in DOMAIN docs : WOwned(d))
    /\ W!NilMeansIndexed

(* Item item of the queue stands for a walk of as many steps as its depth. *)
BItem(item) ==
    /\ item.u \in W!Within[item.depth]
    /\ item.depth <= Len(urls)
    /\ opts.depth = 0 \/ item.depth <= opts.depth

(* The links of a listed page above the depth limit are listed or queued.  *)
BFollowed(u) ==
    opts.depth = 0 \/ W!Distance(u) < opts.depth =>
        \A k \in DOMAIN LinksOf[u] :
            \/ \E j \in DOMAIN urls : urls[j] = LinksOf[u][k]
            \/ \E q \in DOMAIN queue : queue[q].u = LinksOf[u][k] /\ queue[q].depth <= W!Distance(u) + 1

(* The queue is sorted, and its depths differ by at most one.              *)
BSorted ==
    \A q, t \in DOMAIN queue :
        queue[t].depth <= queue[q].depth + 1 /\ (q < t => queue[q].depth <= queue[t].depth)

(* The order of the list and of the queue, when every request was answered.*)
BOrdered ==
    /\ (\E j \in DOMAIN urls : urls[j] = Root) \/ (\E q \in DOMAIN queue : queue[q].depth = 0)
    /\ \A i \in DOMAIN urls : BFollowed(urls[i])
    /\ BSorted
    /\ \A i, j \in DOMAIN urls : i < j => W!Distance(urls[i]) <= W!Distance(urls[j])
    /\ \A i \in DOMAIN urls, q \in DOMAIN queue : W!Distance(urls[i]) <= queue[q].depth

(* The walk while it goes on.                                              *)
BWalk ==
    /\ \A q \in DOMAIN queue : BItem(queue[q])
    /\ \A i \in DOMAIN urls : urls[i] \in W!Reach
    /\ \A i, j \in DOMAIN urls : urls[i] = urls[j] => i = j
    /\ Len(urls) <= opts.pages
    /\ cancelled => missed
    /\ ~missed => BOrdered

BInv ==
    /\ phase \in {"sitemap", "bfs"} => opts.pages >= 1
    /\ phase = "sitemap" => ~walked /\ (cancelled => missed)
    /\ phase = "bfs" => BWalk
    /\ W!WalkIsBreadthFirst

(* The number of pages.                                                    *)
WCount == Cardinality(URLs)

(* The bound of the walks is a natural number.                              *)
LEMMA BCount ==
    ASSUME W!CrawlerAssumption
    PROVE  W!Cardinality(URLs) = WCount /\ WCount \in Nat /\ IsFiniteSet(URLs)
<1>1. W!Cardinality(URLs) = Cardinality(URLs)
  BY DEF W!Cardinality, Cardinality
<1>2. IsFiniteSet(URLs)
  BY DEF W!CrawlerAssumption, W!IsFiniteSet, IsFiniteSet
<1> QED
  BY <1>1, <1>2, FS_CardinalityType DEF WCount

(* The pages within d links, as a set.                                     *)
LEMMA BWithin ==
    ASSUME W!CrawlerAssumption, NEW d \in 0 .. WCount
    PROVE  W!Within[d] = {p[d] : p \in W!Walks(d)}
BY BCount DEF W!Within

(* A page that a page within d links has a link to is within d + 1.        *)
LEMMA BWithinNext ==
    ASSUME W!CrawlerAssumption, NEW d \in Nat, d + 1 <= WCount, NEW v \in W!Within[d], NEW k \in DOMAIN LinksOf[v]
    PROVE  LinksOf[v][k] \in W!Within[d + 1]
<1> DEFINE x == LinksOf[v][k]
<1>1. WCount \in Nat /\ d \in 0 .. WCount /\ d + 1 \in 0 .. WCount
  BY BCount
<1>2. PICK p \in W!Walks(d) : v = p[d]
  BY <1>1, BWithin
<1>3. p \in [0 .. d -> URLs] /\ p[0] = Root
      /\ \A n \in 1 .. d : p[n] = p[n - 1] \/ p[n] \in W!ToSet(LinksOf[p[n - 1]])
  BY <1>2 DEF W!Walks
<1>4. v \in URLs /\ x \in URLs /\ x \in W!ToSet(LinksOf[v])
  <2>1. v \in URLs
    BY <1>2, <1>3
  <2>2. LinksOf[v] \in Seq(URLs)
    BY <2>1 DEF W!CrawlerAssumption
  <2>3. x \in URLs
    BY <2>2
  <2> QED
    BY <2>1, <2>3 DEF W!ToSet
<1> HIDE DEF x
<1> DEFINE q == [n \in 0 .. d + 1 |-> IF n <= d THEN p[n] ELSE x]
<1>5. q \in [0 .. d + 1 -> URLs] /\ q[0] = Root /\ q[d + 1] = x
  BY <1>3, <1>4
<1>6. \A n \in 1 .. d + 1 : q[n] = q[n - 1] \/ q[n] \in W!ToSet(LinksOf[q[n - 1]])
  <2> SUFFICES ASSUME NEW n \in 1 .. d + 1 PROVE q[n] = q[n - 1] \/ q[n] \in W!ToSet(LinksOf[q[n - 1]])
    OBVIOUS
  <2>1. CASE n = d + 1
    BY <1>2, <1>4, <2>1
  <2>2. CASE n \in 1 .. d
    <3>1. q[n] = p[n] /\ q[n - 1] = p[n - 1]
      BY <2>2
    <3> HIDE DEF q
    <3> QED
      BY <1>3, <2>2, <3>1
  <2> QED
    BY <2>1, <2>2
<1> HIDE DEF q
<1>7. q \in W!Walks(d + 1)
  BY <1>5, <1>6 DEF W!Walks
<1>8. x \in W!Within[d + 1]
  BY <1>1, <1>5, <1>7, BWithin
<1> QED
  BY <1>8 DEF x

(* A walk may stay, so that what is within d links is within more.         *)
LEMMA BWithinGrows ==
    ASSUME W!CrawlerAssumption, NEW d \in Nat, NEW e \in Nat, d <= e, e <= WCount, NEW v \in W!Within[d]
    PROVE  v \in W!Within[e] /\ v \in URLs
<1>1. WCount \in Nat /\ d \in 0 .. WCount /\ e \in 0 .. WCount
  BY BCount
<1>2. PICK p \in W!Walks(d) : v = p[d]
  BY <1>1, BWithin
<1>3. p \in [0 .. d -> URLs] /\ p[0] = Root
      /\ \A n \in 1 .. d : p[n] = p[n - 1] \/ p[n] \in W!ToSet(LinksOf[p[n - 1]])
  BY <1>2 DEF W!Walks
<1> DEFINE q == [n \in 0 .. e |-> IF n <= d THEN p[n] ELSE p[d]]
<1>4. q \in [0 .. e -> URLs] /\ q[0] = Root /\ q[e] = v
  BY <1>2, <1>3
<1>5. \A n \in 1 .. e : q[n] = q[n - 1] \/ q[n] \in W!ToSet(LinksOf[q[n - 1]])
  <2> SUFFICES ASSUME NEW n \in 1 .. e PROVE q[n] = q[n - 1] \/ q[n] \in W!ToSet(LinksOf[q[n - 1]])
    OBVIOUS
  <2>1. CASE n > d
    <3>1. q[n] = p[d] /\ q[n - 1] = p[d]
      BY <2>1
    <3> HIDE DEF q
    <3> QED
      BY <3>1
  <2>2. CASE n \in 1 .. d
    <3>1. q[n] = p[n] /\ q[n - 1] = p[n - 1]
      BY <2>2
    <3> HIDE DEF q
    <3> QED
      BY <1>3, <2>2, <3>1
  <2> QED
    BY <2>1, <2>2
<1> HIDE DEF q
<1>6. q \in W!Walks(e)
  BY <1>4, <1>5 DEF W!Walks
<1> QED
  BY <1>1, <1>2, <1>3, <1>4, <1>6, BWithin

(* The root alone is within no links; what is within d + 1 links is within *)
(* d or has a link from a page that is.                                    *)
LEMMA BWithinLast ==
    ASSUME W!CrawlerAssumption
    PROVE  /\ W!Within[0] = {Root}
           /\ \A d \in 1 .. WCount : \A v \in W!Within[d] :
                  \E u \in W!Within[d - 1] : v = u \/ \E k \in DOMAIN LinksOf[u] : LinksOf[u][k] = v
<1>1. WCount \in Nat
  BY BCount
<1>2. W!Within[0] = {Root}
  <2>1. 0 \in 0 .. WCount
    BY <1>1
  <2>2. \A p \in W!Walks(0) : p[0] = Root
    BY DEF W!Walks
  <2>3. \E p \in W!Walks(0) : p[0] = Root
    <3>1. Root \in URLs
      BY DEF W!CrawlerAssumption
    <3> DEFINE p == [n \in 0 .. 0 |-> Root]
    <3>2. p \in [0 .. 0 -> URLs] /\ p[0] = Root
      BY <3>1
    <3>3. \A n \in 1 .. 0 : FALSE
      OBVIOUS
    <3> HIDE DEF p
    <3>4. p \in W!Walks(0)
      BY <3>2, <3>3 DEF W!Walks
    <3> QED
      BY <3>2, <3>4
  <2> QED
    BY <2>1, <2>2, <2>3, BWithin
<1>3. ASSUME NEW d \in 1 .. WCount, NEW v \in W!Within[d]
      PROVE  \E u \in W!Within[d - 1] : v = u \/ \E k \in DOMAIN LinksOf[u] : LinksOf[u][k] = v
  <2>1. d \in 0 .. WCount /\ d - 1 \in 0 .. WCount /\ d \in Nat /\ d - 1 \in Nat
    BY <1>1
  <2>2. PICK p \in W!Walks(d) : v = p[d]
    BY <2>1, BWithin
  <2>3. p \in [0 .. d -> URLs] /\ p[0] = Root
        /\ \A n \in 1 .. d : p[n] = p[n - 1] \/ p[n] \in W!ToSet(LinksOf[p[n - 1]])
    BY <2>2 DEF W!Walks
  <2> DEFINE q == [n \in 0 .. d - 1 |-> p[n]]
             u == p[d - 1]
  <2>4. q \in [0 .. d - 1 -> URLs] /\ q[0] = Root /\ q[d - 1] = u
    BY <2>1, <2>3
  <2>5. \A n \in 1 .. d - 1 : q[n] = q[n - 1] \/ q[n] \in W!ToSet(LinksOf[q[n - 1]])
    <3> SUFFICES ASSUME NEW n \in 1 .. d - 1 PROVE q[n] = q[n - 1] \/ q[n] \in W!ToSet(LinksOf[q[n - 1]])
      OBVIOUS
    <3>1. q[n] = p[n] /\ q[n - 1] = p[n - 1]
      BY <2>1
    <3>2. n \in 1 .. d
      BY <2>1
    <3> HIDE DEF q
    <3> QED
      BY <2>3, <3>1, <3>2
  <2> HIDE DEF q
  <2>6. q \in W!Walks(d - 1)
    BY <2>4, <2>5 DEF W!Walks
  <2>7. u \in W!Within[d - 1]
    BY <2>1, <2>4, <2>6, BWithin
  <2>8. v = u \/ v \in W!ToSet(LinksOf[u])
    BY <2>1, <2>2, <2>3
  <2> QED
    BY <2>7, <2>8 DEF W!ToSet
<1> QED
  BY <1>2, <1>3

(* The operators of the instance are those of the module.                  *)
LEMMA WSelect == \A s, I : W!Select(s, I) = Select(s, I)
BY DEF W!Select, Select, W!InOrder, InOrder, W!Rank, Rank, W!Cardinality, Cardinality

(* The smaller of two numbers.                                             *)
LEMMA WMin ==
    ASSUME NEW m \in Int, NEW n \in Int
    PROVE  W!Min({m, n}) = IF m <= n THEN m ELSE n
<1> DEFINE k == IF m <= n THEN m ELSE n
<1>1. k \in {m, n} /\ \A x \in {m, n} : k <= x
  OBVIOUS
<1>2. \A j \in {m, n} : (\A x \in {m, n} : j <= x) => j = k
  OBVIOUS
<1> HIDE DEF k
<1>3. W!Min({m, n}) = k
  BY <1>1, <1>2 DEF W!Min
<1> QED
  BY <1>3 DEF k

(* The list that is fetched is the beginning of the list that was made.    *)
LEMMA WListed ==
    ASSUME NEW S, NEW list \in Seq(S), opts \in [pages : Nat, depth : Nat], W!Listed(list)
    PROVE  /\ phase' = "fetch" /\ urls' \in Seq(S) /\ DOMAIN urls' \subseteq DOMAIN list
           /\ \A i \in DOMAIN urls' : urls'[i] = list[i]
           /\ Len(urls') = IF Len(list) <= opts.pages THEN Len(list) ELSE opts.pages
           /\ fetched' \in Seq(WTexts) /\ DOMAIN fetched' = DOMAIN urls'
<1> DEFINE n == IF Len(list) <= opts.pages THEN Len(list) ELSE opts.pages
<1>1. Len(list) \in Nat /\ opts.pages \in Nat /\ DOMAIN list = 1 .. Len(list)
  BY LenProperties
<1>2. n \in 0 .. Len(list)
  BY <1>1
<1>3. urls' = SubSeq(list, 1, n)
  <2>1. W!Min({Len(list), opts.pages}) = n
    <3>1. Len(list) \in Int /\ opts.pages \in Int
      BY <1>1
    <3> QED
      BY <3>1, WMin
  <2> HIDE DEF n
  <2> QED
    BY <2>1, Zenon DEF W!Listed
<1>4. \A i \in 1 .. n : list[i] \in S
  BY <1>1, <1>2, ElementOfSeq
<1> HIDE DEF n
<1>5. urls' \in Seq(S) /\ Len(urls') = n /\ \A i \in 1 .. n : urls'[i] = list[i]
  BY <1>1, <1>2, <1>3, <1>4, SubSeqProperties
<1>6. DOMAIN urls' = 1 .. n
  BY <1>5, LenProperties
<1>7. fetched' = [i \in 1 .. n |-> "wait"]
  BY <1>6 DEF W!Listed
<1>8. fetched' \in Seq(WTexts) /\ DOMAIN fetched' = 1 .. n
  <2>1. fetched' \in [1 .. n -> WTexts]
    BY <1>7 DEF WTexts
  <2>2. n \in Nat
    BY <1>1, <1>2
  <2> QED
    BY <1>7, <2>1, <2>2
<1>9. phase' = "fetch"
  BY DEF W!Listed
<1>10. 1 .. n \subseteq DOMAIN list
  BY <1>1, <1>2
<1>11. \A i \in DOMAIN urls' : urls'[i] = list[i]
  BY <1>5, <1>6, Zenon
<1> QED
  BY <1>5, <1>6, <1>8, <1>9, <1>10, <1>11, Zenon DEF n

(* What is appended to a sequence.                                         *)
LEMMA SeqAppend ==
    ASSUME NEW S, NEW s \in Seq(S), NEW x \in S
    PROVE  /\ Append(s, x) \in Seq(S)
           /\ DOMAIN Append(s, x) = DOMAIN s \cup {Len(s) + 1} /\ Len(s) + 1 \notin DOMAIN s
           /\ Append(s, x)[Len(s) + 1] = x
           /\ \A i \in DOMAIN s : Append(s, x)[i] = s[i]
<1>1. Len(s) \in Nat /\ DOMAIN s = 1 .. Len(s)
  BY LenProperties
<1>2. /\ Append(s, x) \in Seq(S) /\ Len(Append(s, x)) = Len(s) + 1
      /\ \A i \in 1 .. Len(s) : Append(s, x)[i] = s[i]
      /\ Append(s, x)[Len(s) + 1] = x
  BY AppendProperties
<1>3. DOMAIN Append(s, x) = 1 .. Len(s) + 1
  BY <1>2, LenProperties
<1>4. 1 .. Len(s) + 1 = 1 .. Len(s) \cup {Len(s) + 1} /\ Len(s) + 1 \notin 1 .. Len(s)
  BY <1>1
<1> QED
  BY <1>1, <1>2, <1>3, <1>4

(* What is changed in a sequence.                                          *)
LEMMA SeqChange ==
    ASSUME NEW S, NEW s \in Seq(S), NEW k \in DOMAIN s, NEW x \in S
    PROVE  /\ [s EXCEPT ![k] = x] \in Seq(S) /\ DOMAIN [s EXCEPT ![k] = x] = DOMAIN s
           /\ \A i \in DOMAIN s : [s EXCEPT ![k] = x][i] = IF i = k THEN x ELSE s[i]
<1>1. Len(s) \in Nat /\ DOMAIN s = 1 .. Len(s)
  BY LenProperties
<1> QED
  BY <1>1, ExceptSeq

(* A sequence without its first element.                                   *)
LEMMA SeqTail ==
    ASSUME NEW S, NEW s \in Seq(S), s # <<>>
    PROVE  /\ Head(s) \in S /\ Head(s) = s[1] /\ 1 \in DOMAIN s /\ Tail(s) \in Seq(S)
           /\ \A i \in DOMAIN Tail(s) : i + 1 \in DOMAIN s /\ Tail(s)[i] = s[i + 1]
           /\ \A i \in DOMAIN s : i = 1 \/ (i - 1 \in DOMAIN Tail(s) /\ Tail(s)[i - 1] = s[i])
<1>1. Len(s) \in Nat \ {0} /\ DOMAIN s = 1 .. Len(s)
  BY LenProperties, EmptySeq
<1>2. /\ Head(s) \in S /\ Tail(s) \in Seq(S) /\ Len(Tail(s)) = Len(s) - 1
      /\ \A i \in 1 .. Len(Tail(s)) : Tail(s)[i] = s[i + 1]
  BY HeadTailProperties
<1>3. DOMAIN Tail(s) = 1 .. Len(s) - 1
  BY <1>2, LenProperties
<1> QED
  BY <1>1, <1>2, <1>3

(* What one visit does to the list and to the queue.                       *)
WNewItems(item) ==
    [i \in DOMAIN W!Unseen(Append(urls, item.u), item.u) |->
        [u |-> W!Unseen(Append(urls, item.u), item.u)[i], depth |-> item.depth + 1]]

(* The links of a page that are not yet listed become items, each once.    *)
LEMMA WUnseen ==
    ASSUME W!CrawlerAssumption, WTypeOK, NEW item \in WItems
    PROVE  /\ WNewItems(item) \in Seq(WItems)
           /\ \A i \in DOMAIN WNewItems(item) :
                  /\ WNewItems(item)[i].depth = item.depth + 1
                  /\ \E k \in DOMAIN LinksOf[item.u] : WNewItems(item)[i].u = LinksOf[item.u][k]
           /\ \A k \in DOMAIN LinksOf[item.u] :
                  \/ LinksOf[item.u][k] = item.u \/ \E j \in DOMAIN urls : urls[j] = LinksOf[item.u][k]
                  \/ \E i \in DOMAIN WNewItems(item) : WNewItems(item)[i].u = LinksOf[item.u][k]
<1> DEFINE s == LinksOf[item.u]
           list == Append(urls, item.u)
           I == {k \in DOMAIN s : s[k] \notin W!ToSet(list)}
           t == Select(s, I)
           items == WNewItems(item)
<1>1. item.u \in URLs /\ item.depth \in Nat /\ item = [u |-> item.u, depth |-> item.depth]
  BY DEF WItems
<1>2. s \in Seq(URLs) /\ urls \in Seq(URLs)
  BY <1>1 DEF W!CrawlerAssumption, WTypeOK
<1>3. /\ t \in Seq(URLs)
      /\ \A k \in DOMAIN t : InOrder(I)[k] \in I /\ t[k] = s[InOrder(I)[k]]
      /\ \A i \in I : Rank(I, i) \in DOMAIN t /\ t[Rank(I, i)] = s[i]
  <2>1. I \in SUBSET DOMAIN s
    OBVIOUS
  <2> HIDE DEF I, s
  <2> QED
    BY <1>2, <2>1, SelectProperties
<1>4. W!Unseen(list, item.u) = t
  BY WSelect DEF W!Unseen
<1>5. items = [i \in DOMAIN t |-> [u |-> t[i], depth |-> item.depth + 1]]
  BY <1>4, Zenon DEF WNewItems
<1>6. \A i \in DOMAIN t : t[i] \in URLs
  BY <1>3, ElementOfSeq, LenProperties
<1>7. items \in Seq(WItems)
  <2>1. Len(t) \in Nat /\ DOMAIN t = 1 .. Len(t)
    BY <1>3, LenProperties
  <2> HIDE DEF t
  <2>2. items \in [1 .. Len(t) -> WItems]
    BY <1>1, <1>5, <1>6, <2>1 DEF WItems
  <2> HIDE DEF items
  <2> QED
    BY <2>1, <2>2
<1>8. \A i \in DOMAIN t : items[i].u = t[i] /\ items[i].depth = item.depth + 1
  BY <1>5
<1>9. DOMAIN items = DOMAIN t
  BY <1>5
<1>10. \A i \in DOMAIN t : \E k \in DOMAIN s : t[i] = s[k]
  <2>1. I \subseteq DOMAIN s
    OBVIOUS
  <2> HIDE DEF t, I, s
  <2> QED
    BY <1>3, <2>1, Zenon
<1>11. ASSUME NEW k \in DOMAIN s
       PROVE  \/ s[k] = item.u \/ \E j \in DOMAIN urls : urls[j] = s[k]
              \/ \E i \in DOMAIN t : t[i] = s[k]
  <2>1. CASE k \in I
    BY <1>3, <2>1
  <2>2. CASE s[k] \in W!ToSet(list)
    <3>1. PICK j \in DOMAIN list : list[j] = s[k]
      BY <2>2, Zenon DEF W!ToSet
    <3>2. j \in DOMAIN urls \/ j = Len(urls) + 1
      BY <1>1, <1>2, <3>1, SeqAppend
    <3> QED
      BY <1>1, <1>2, <3>1, <3>2, SeqAppend
  <2> QED
    BY <2>1, <2>2
<1>12. \A i \in DOMAIN items :
          items[i].depth = item.depth + 1 /\ \E k \in DOMAIN s : items[i].u = s[k]
  <2> HIDE DEF t, I, items, s
  <2> QED
    BY <1>8, <1>9, <1>10
<1>13. \A k \in DOMAIN s :
          \/ s[k] = item.u \/ \E j \in DOMAIN urls : urls[j] = s[k]
          \/ \E i \in DOMAIN items : items[i].u = s[k]
  <2> HIDE DEF t, I, items, s
  <2> QED
    BY <1>8, <1>9, <1>11
<1> HIDE DEF t, I, list
<1> QED
  BY <1>7, <1>12, <1>13

(* The steps of the crawl keep the records.                                *)
LEMMA WCrawlTypes ==
    ASSUME W!CrawlerAssumption, WTypeOK, W!CrawlStep, UNCHANGED W!indexVars
    PROVE  /\ WTypeOK' /\ UNCHANGED <<docs, pages, pc, existing, webForce, outcome, webRuns>>
           /\ phase' # "idle" /\ phase' # "index"
<1>1. UNCHANGED <<docs, pages, pc, existing, webForce, outcome, webRuns>>
  BY DEF W!indexVars
<1>2. ASSUME /\ text' \in [URLs -> Texts] /\ opts' \in [pages : Nat, depth : Nat]
             /\ phase' \in {"sitemap", "bfs", "fetch", "fetched"}
             /\ queue' \in Seq(WItems) /\ urls' \in Seq(URLs) /\ fetched' \in Seq(WTexts)
             /\ phase' \in {"fetch", "fetched"} => DOMAIN fetched' = DOMAIN urls'
      PROVE  /\ WTypeOK' /\ UNCHANGED <<docs, pages, pc, existing, webForce, outcome, webRuns>>
             /\ phase' # "idle" /\ phase' # "index"
  BY <1>1, <1>2 DEF WTypeOK
<1>t. /\ queue \in Seq(WItems) /\ urls \in Seq(URLs) /\ fetched \in Seq(WTexts)
      /\ text \in [URLs -> Texts] /\ opts \in [pages : Nat, depth : Nat]
  BY DEF WTypeOK
<1>3. Root \in URLs /\ <<[u |-> Root, depth |-> 0]>> \in Seq(WItems)
  <2>1. Root \in URLs
    BY DEF W!CrawlerAssumption
  <2> QED
    BY <2>1 DEF WItems
<1>4. CASE W!TryCandidate
  <2>1. text' = text /\ opts' = opts /\ urls' = urls /\ fetched' = fetched
    BY <1>4 DEF W!TryCandidate, W!siteVars
  <2>2. phase' \in {"sitemap", "bfs"} /\ (queue' = queue \/ queue' = <<[u |-> Root, depth |-> 0]>>)
    BY <1>4 DEF W!TryCandidate
  <2> QED
    BY <1>2, <1>3, <2>1, <2>2 DEF WTypeOK
<1>5. CASE W!ParseSitemap
  <2>1. text' = text /\ opts' = opts /\ queue' = queue /\ fetched' = fetched /\ phase' = phase /\ phase = "sitemap"
    BY <1>5 DEF W!ParseSitemap, W!siteVars
  <2>2. urls' = urls \/ \E at \in DOMAIN SitemapURLs : urls' = urls \o SitemapURLs[at]
    BY <1>5, Zenon DEF W!ParseSitemap
  <2>3. urls' \in Seq(URLs)
    <3>1. \A at \in DOMAIN SitemapURLs : SitemapURLs[at] \in Seq(URLs)
      BY DEF W!CrawlerAssumption
    <3>2. CASE \E at \in DOMAIN SitemapURLs : urls' = urls \o SitemapURLs[at]
      <4>1. PICK at \in DOMAIN SitemapURLs : urls' = urls \o SitemapURLs[at]
        BY <3>2
      <4>2. SitemapURLs[at] \in Seq(URLs)
        BY <3>1
      <4> QED
        BY <1>t, <4>1, <4>2, ConcatProperties
    <3> QED
      BY <1>t, <2>2, <3>2
  <2> QED
    BY <1>2, <2>1, <2>3 DEF WTypeOK
<1>6. CASE W!SitemapFound
  <2>1. text' = text /\ opts' = opts /\ queue' = queue /\ W!Listed(urls)
    BY <1>6 DEF W!SitemapFound, W!siteVars
  <2>3. phase' = "fetch" /\ urls' \in Seq(URLs) /\ fetched' \in Seq(WTexts) /\ DOMAIN fetched' = DOMAIN urls'
    BY <1>t, <2>1, WListed, Zenon
  <2> QED
    BY <1>2, <2>1, <2>3 DEF WTypeOK
<1>7. CASE W!Visit
  <2> DEFINE item == Head(queue)
  <2>1. text' = text /\ opts' = opts /\ fetched' = fetched /\ phase' = phase /\ phase = "bfs" /\ queue # <<>>
    BY <1>7 DEF W!Visit, W!siteVars
  <2>2. item \in WItems /\ Tail(queue) \in Seq(WItems) /\ item.u \in URLs
    <3>1. item \in WItems /\ Tail(queue) \in Seq(WItems)
      BY <1>t, <2>1, SeqTail
    <3> HIDE DEF item
    <3> QED
      BY <3>1 DEF WItems
  <2>3. WNewItems(item) \in Seq(WItems)
    BY <2>2, WUnseen
  <2>4. urls' = urls \/ urls' = Append(urls, item.u)
    BY <1>7 DEF W!Visit, W!AlreadyListed
  <2>5. queue' = Tail(queue) \/ queue' = Tail(queue) \o WNewItems(item) \/ queue' = Tail(queue) \o <<>>
    BY <1>7, Zenon DEF W!Visit, W!Enqueue, WNewItems
  <2>6. urls' \in Seq(URLs)
    <3> HIDE DEF item
    <3>1. urls \in Seq(URLs) /\ item.u \in URLs
      BY <1>t, <2>2
    <3>2. Append(urls, item.u) \in Seq(URLs)
      BY <3>1, SeqAppend
    <3> QED
      BY <2>4, <3>1, <3>2
  <2>7. queue' \in Seq(WItems)
    <3> HIDE DEF item
    <3>1. Tail(queue) \o WNewItems(item) \in Seq(WItems)
      BY <2>2, <2>3, ConcatProperties
    <3>2. Tail(queue) \o <<>> = Tail(queue)
      BY <2>2, ConcatEmptySeq
    <3> QED
      BY <2>2, <2>5, <3>1, <3>2
  <2> QED
    BY <1>2, <2>1, <2>6, <2>7 DEF WTypeOK
<1>8. CASE W!BfsEnds
  <2>1. text' = text /\ opts' = opts /\ queue' = <<>> /\ W!Listed(urls)
    BY <1>8 DEF W!BfsEnds, W!siteVars
  <2>3. phase' = "fetch" /\ urls' \in Seq(URLs) /\ fetched' \in Seq(WTexts) /\ DOMAIN fetched' = DOMAIN urls'
    BY <1>t, <2>1, WListed, Zenon
  <2>4. <<>> \in Seq(WItems)
    BY EmptySeq
  <2> QED
    BY <1>2, <2>1, <2>3, <2>4 DEF WTypeOK
<1>9. CASE \E i \in DOMAIN urls : W!Fetch(i)
  <2>1. PICK i \in DOMAIN urls : W!Fetch(i)
    BY <1>9
  <2>2. text' = text /\ opts' = opts /\ queue' = queue /\ urls' = urls /\ phase' = phase /\ phase = "fetch"
    BY <2>1 DEF W!Fetch, W!siteVars
  <2>3. PICK got \in {text[urls[i]], "failed"} : fetched' = [fetched EXCEPT ![i] = got]
    BY <2>1 DEF W!Fetch
  <2>4. got \in WTexts
    <3>1. urls[i] \in URLs
      BY <1>t
    <3> QED
      BY <1>t, <2>3, <3>1 DEF WTexts
  <2>5. i \in DOMAIN fetched
    BY <2>1, <2>2 DEF WTypeOK
  <2>6. fetched' \in Seq(WTexts) /\ DOMAIN fetched' = DOMAIN fetched
    BY <1>t, <2>3, <2>4, <2>5, SeqChange
  <2> QED
    BY <1>2, <2>2, <2>6 DEF WTypeOK
<1>10. CASE W!FetchesEnd
  <2>1. /\ text' = text /\ opts' = opts /\ queue' = queue /\ urls' = urls /\ fetched' = fetched
        /\ phase = "fetch" /\ phase' = "fetched"
    BY <1>10 DEF W!FetchesEnd, W!siteVars
  <2> QED
    BY <1>2, <2>1 DEF WTypeOK
<1>11. CASE W!Cancel
  <2>1. /\ text' = text /\ opts' = opts /\ queue' = queue /\ urls' = urls /\ fetched' = fetched
        /\ phase' = phase /\ phase \in {"sitemap", "bfs"}
    BY <1>11 DEF W!Cancel, W!siteVars
  <2> QED
    BY <1>2, <2>1 DEF WTypeOK
<1> QED
  BY <1>1, <1>4, <1>5, <1>6, <1>7, <1>8, <1>9, <1>10, <1>11 DEF W!CrawlStep

(* A row as it is inserted.                                                *)
WNew(u, h, run, version, canonical) ==
    [path |-> u, hash |-> h, latest |-> TRUE, run |-> run, version |-> version, canonical |-> canonical,
     whole |-> FALSE]

(* Its fields.                                                             *)
LEMMA WNewFields ==
    ASSUME NEW u \in URLs, NEW h \in WTexts, NEW run \in Nat, NEW v \in Int, NEW c \in Int
    PROVE  /\ WNew(u, h, run, v, c) \in WRows
           /\ WNew(u, h, run, v, c).path = u /\ WNew(u, h, run, v, c).hash = h
           /\ WNew(u, h, run, v, c).latest /\ WNew(u, h, run, v, c).run = run
<1>1. WNew(u, h, run, v, c) \in WRows
  BY DEF WNew, WRows
<1> QED
  BY <1>1 DEF WNew

(* The fields of a row, and what a write of one of them leaves.            *)
LEMMA WRowFields ==
    ASSUME NEW x \in WRows
    PROVE  /\ x.path \in URLs /\ x.hash \in WTexts /\ x.run \in Nat /\ x.version \in Int /\ x.canonical \in Int
           /\ [x EXCEPT !.latest = FALSE] \in WRows /\ [x EXCEPT !.whole = TRUE] \in WRows
           /\ ~[x EXCEPT !.latest = FALSE].latest /\ [x EXCEPT !.whole = TRUE].whole
           /\ [x EXCEPT !.latest = FALSE].path = x.path /\ [x EXCEPT !.latest = FALSE].hash = x.hash
           /\ [x EXCEPT !.latest = FALSE].run = x.run
           /\ [x EXCEPT !.latest = FALSE].whole = x.whole /\ [x EXCEPT !.whole = TRUE].latest = x.latest
           /\ [x EXCEPT !.whole = TRUE].path = x.path /\ [x EXCEPT !.whole = TRUE].hash = x.hash
           /\ [x EXCEPT !.whole = TRUE].run = x.run
<1>1. /\ [x EXCEPT !.latest = FALSE] \in WRows /\ [x EXCEPT !.whole = TRUE] \in WRows
  BY DEF WRows
<1>2. x.path \in URLs /\ x.hash \in WTexts /\ x.run \in Nat /\ x.version \in Int /\ x.canonical \in Int
  BY DEF WRows
<1>3. ~[x EXCEPT !.latest = FALSE].latest /\ [x EXCEPT !.whole = TRUE].whole
  BY DEF WRows
<1> QED
  BY <1>1, <1>2, <1>3 DEF WRows

(* A row is superseded.                                                    *)
LEMMA WSuperseded ==
    ASSUME docs \in Seq(WRows), NEW k \in DOMAIN docs, docs' = [docs EXCEPT ![k].latest = FALSE]
    PROVE  /\ docs' \in Seq(WRows) /\ DOMAIN docs' = DOMAIN docs
           /\ \A d \in DOMAIN docs :
                  /\ docs'[d].path = docs[d].path /\ docs'[d].hash = docs[d].hash /\ docs'[d].run = docs[d].run
                  /\ docs'[d].whole = docs[d].whole
                  /\ d # k => docs'[d].latest = docs[d].latest
           /\ ~docs'[k].latest
<1> DEFINE x == [docs[k] EXCEPT !.latest = FALSE]
<1>1. docs' = [docs EXCEPT ![k] = x]
  OBVIOUS
<1>2. \A d \in DOMAIN docs : docs[d] \in WRows
  OBVIOUS
<1>3. /\ x \in WRows /\ x.path = docs[k].path /\ x.hash = docs[k].hash /\ x.run = docs[k].run
      /\ x.whole = docs[k].whole /\ ~x.latest
  BY <1>2, WRowFields, Zenon
<1> HIDE DEF x
<1>4. /\ docs' \in Seq(WRows) /\ DOMAIN docs' = DOMAIN docs
      /\ \A d \in DOMAIN docs : docs'[d] = IF d = k THEN x ELSE docs[d]
  <2> DEFINE y == [docs EXCEPT ![k] = x]
  <2>1. /\ y \in Seq(WRows) /\ DOMAIN y = DOMAIN docs
        /\ \A d \in DOMAIN docs : y[d] = IF d = k THEN x ELSE docs[d]
    BY <1>3, SeqChange
  <2> HIDE DEF y
  <2>2. docs' = y
    BY <1>1 DEF y
  <2> QED
    BY <2>1, <2>2, Zenon
<1> QED
  BY <1>3, <1>4, Zenon

(* A row gets its chunks and vectors.                                      *)
LEMMA WFilled ==
    ASSUME docs \in Seq(WRows), NEW k \in DOMAIN docs, docs' = [docs EXCEPT ![k].whole = TRUE]
    PROVE  /\ docs' \in Seq(WRows) /\ DOMAIN docs' = DOMAIN docs
           /\ \A d \in DOMAIN docs :
                  /\ docs'[d].path = docs[d].path /\ docs'[d].hash = docs[d].hash /\ docs'[d].run = docs[d].run
                  /\ docs'[d].latest = docs[d].latest
                  /\ d # k => docs'[d].whole = docs[d].whole
           /\ docs'[k].whole
<1> DEFINE x == [docs[k] EXCEPT !.whole = TRUE]
<1>1. docs' = [docs EXCEPT ![k] = x]
  OBVIOUS
<1>2. \A d \in DOMAIN docs : docs[d] \in WRows
  OBVIOUS
<1>3. /\ x \in WRows /\ x.path = docs[k].path /\ x.hash = docs[k].hash /\ x.run = docs[k].run
      /\ x.latest = docs[k].latest /\ x.whole
  BY <1>2, WRowFields, Zenon
<1> HIDE DEF x
<1>4. /\ docs' \in Seq(WRows) /\ DOMAIN docs' = DOMAIN docs
      /\ \A d \in DOMAIN docs : docs'[d] = IF d = k THEN x ELSE docs[d]
  <2> DEFINE y == [docs EXCEPT ![k] = x]
  <2>1. /\ y \in Seq(WRows) /\ DOMAIN y = DOMAIN docs
        /\ \A d \in DOMAIN docs : y[d] = IF d = k THEN x ELSE docs[d]
    BY <1>3, SeqChange
  <2> HIDE DEF y
  <2>2. docs' = y
    BY <1>1 DEF y
  <2> QED
    BY <2>1, <2>2, Zenon
<1> QED
  BY <1>3, <1>4, Zenon

(* A row is inserted.                                                      *)
LEMMA WInserted ==
    ASSUME WTypeOK, NEW i \in DOMAIN pages, docs' = Append(docs, W!NewRow(i)),
           existing[i] # 0 => existing[i] \in DOMAIN docs
    PROVE  /\ docs' \in Seq(WRows) /\ DOMAIN docs' = DOMAIN docs \cup {Len(docs) + 1}
           /\ Len(docs) + 1 \notin DOMAIN docs /\ Len(docs) + 1 \in Nat \ {0}
           /\ \A d \in DOMAIN docs : docs'[d] = docs[d]
           /\ docs'[Len(docs) + 1].path = pages[i].url /\ docs'[Len(docs) + 1].hash = pages[i].text
           /\ docs'[Len(docs) + 1].run = webRuns /\ docs'[Len(docs) + 1].latest
<1> DEFINE d == existing[i]
           v == IF d = 0 THEN 1 ELSE docs[d].version + 1
           c == IF d = 0 THEN -(Len(docs) + 1) ELSE docs[d].canonical
           x == WNew(pages[i].url, pages[i].text, webRuns, v, c)
<1>1. docs \in Seq(WRows) /\ pages[i] \in WPages /\ webRuns \in Nat /\ Len(docs) \in Nat
  BY DEF WTypeOK
<1>2. pages[i].url \in URLs /\ pages[i].text \in WTexts
  BY <1>1 DEF WPages
<1>3. d # 0 => docs[d].version \in Int /\ docs[d].canonical \in Int
  <2>1. d # 0 => docs[d] \in WRows
    BY <1>1
  <2> QED
    BY <2>1, WRowFields
<1>4. v \in Int /\ c \in Int
  BY <1>1, <1>3
<1>5. W!NewRow(i) = x
  BY DEF W!NewRow, WNew
<1> HIDE DEF v, c, d
<1>6. /\ x \in WRows /\ x.path = pages[i].url /\ x.hash = pages[i].text /\ x.latest /\ x.run = webRuns
  BY <1>1, <1>2, <1>4, WNewFields
<1> HIDE DEF x
<1>7. docs' = Append(docs, x)
  BY <1>5
<1> QED
  BY <1>1, <1>6, <1>7, SeqAppend

(* What a step of page i leaves of the rows and of the other pages.        *)
WFrame(i) ==
    /\ pages' = pages /\ webRuns' = webRuns
    /\ \A d \in DOMAIN docs :
           /\ d \in DOMAIN docs'
           /\ docs'[d].path = docs[d].path /\ docs'[d].hash = docs[d].hash /\ docs'[d].run = docs[d].run
           /\ docs[d].whole => docs'[d].whole
           /\ docs'[d].latest => docs[d].latest
           /\ docs[d].latest /\ docs[d].path # pages[i].url => docs'[d].latest
    /\ \A d \in DOMAIN docs' : d \in DOMAIN docs \/ docs'[d].run = webRuns
    /\ \A j \in DOMAIN pages : j # i => pc'[j] = pc[j] /\ existing'[j] = existing[j]

(* Rows that one call inserted stay so.                                    *)
LEMMA WTwiceStays ==
    ASSUME NEW i, WFrame(i), NEW u, WTwice(u)
    PROVE  WTwice(u)'
BY DEF WFrame, WTwice

(* A step of one page leaves what the others know.                         *)
LEMMA WOthers ==
    ASSUME NEW i \in DOMAIN pages, WFrame(i), NEW j \in DOMAIN pages, j # i, WPageOK(j)
    PROVE  WPageOK(j)'
<1>1. pages'[j] = pages[j] /\ pc'[j] = pc[j] /\ existing'[j] = existing[j] /\ webRuns' = webRuns
  BY DEF WFrame
<1>u. PICK u : u = pages[j].url
  OBVIOUS
<1>2. W!ListedTwice(u)' <=> W!ListedTwice(u)
  BY DEF WFrame, W!ListedTwice
<1>3. ~W!ListedTwice(u) => pages[i].url # u
  BY <1>u DEF W!ListedTwice
<1>4. ~W!ListedTwice(u) => \A d \in W!LatestOf(u) : d \in W!LatestOf(u)'
  BY <1>3 DEF W!LatestOf, WFrame
<1>5. \A d \in W!LatestOf(u)' : docs'[d].run = webRuns \/ (d \in W!LatestOf(u) /\ docs'[d].run = docs[d].run)
  BY DEF W!LatestOf, WFrame
<1>6. existing[j] # 0 => existing[j] \in DOMAIN docs' /\ docs'[existing[j]].path = u
  BY <1>u DEF WFrame, WPageOK
<1>7. pc[j] = "fill" =>
          /\ docs'[existing[j]].run = webRuns /\ docs'[existing[j]].hash = pages[j].text
          /\ ~W!ListedTwice(u) => docs'[existing[j]].latest
  BY <1>u, <1>3 DEF WFrame, WPageOK
<1>8. pc[j] = "ok" /\ ~W!ListedTwice(u) =>
          \E d \in W!LatestOf(u)' :
              docs'[d].hash = pages[j].text /\ (docs'[d].whole \/ docs'[d].run < webRuns)
  <2> SUFFICES ASSUME pc[j] = "ok", ~W!ListedTwice(u)
               PROVE  \E d \in W!LatestOf(u)' :
                          docs'[d].hash = pages[j].text /\ (docs'[d].whole \/ docs'[d].run < webRuns)
    OBVIOUS
  <2>1. PICK d \in W!LatestOf(u) : docs[d].hash = pages[j].text /\ (docs[d].whole \/ docs[d].run < webRuns)
    BY <1>u DEF WPageOK
  <2>2. d \in DOMAIN docs
    BY <2>1 DEF W!LatestOf
  <2> QED
    BY <1>4, <2>1, <2>2 DEF WFrame
<1>9. pc[j] \in {"supersede", "insert"} /\ ~WTwice(u)' =>
          \A d \in W!LatestOf(u)' :
              docs'[d].run = webRuns \/ (pc[j] = "supersede" /\ d = existing[j])
  <2>1. ~WTwice(u)' => ~WTwice(u)
    BY WTwiceStays
  <2>2. pc[j] \in {"supersede", "insert"} /\ ~WTwice(u) =>
            \A d \in W!LatestOf(u) : docs[d].run = webRuns \/ (pc[j] = "supersede" /\ d = existing[j])
    BY <1>u DEF WPageOK
  <2> QED
    BY <1>5, <2>1, <2>2
<1>10. pc[j] \in {"supersede", "fill"} => existing[j] # 0
  BY DEF WPageOK
<1> QED
  BY <1>u, <1>1, <1>2, <1>6, <1>7, <1>8, <1>9, <1>10 DEF WPageOK

(* Rows that are only marked stay in order.                                *)
LEMMA WRowsStay ==
    ASSUME WRowsOK, NEW i, WFrame(i), DOMAIN docs' = DOMAIN docs, phase' = "index"
    PROVE  WRowsOK'
<1>1. \A d, e \in DOMAIN docs' : docs'[d].hash = docs'[e].hash => d = e
  BY DEF WRowsOK, WFrame
<1>2. \A d \in DOMAIN docs' : docs'[d].run <= webRuns'
  BY DEF WRowsOK, WFrame
<1>3. ASSUME NEW d \in DOMAIN docs', NEW e \in DOMAIN docs', d # e, docs'[d].latest, docs'[e].latest,
             docs'[d].path = docs'[e].path
      PROVE  WTwice(docs[d].path)' /\ docs'[d].path = docs[d].path
  <2>1. d \in DOMAIN docs /\ e \in DOMAIN docs /\ docs[d].latest /\ docs[e].latest /\ docs[d].path = docs[e].path
        /\ docs'[d].path = docs[d].path
    BY <1>3 DEF WFrame
  <2>2. PICK u : u = docs[d].path
    OBVIOUS
  <2>3. WTwice(u)
    BY <1>3, <2>1, <2>2 DEF WRowsOK
  <2>4. WTwice(u)'
    BY <2>3, WTwiceStays
  <2>5. docs'[d].path = u
    BY <2>1, <2>2
  <2> QED
    BY <2>1, <2>2, <2>4, <2>5 DEF WTwice
<1>4. \A d, e \in DOMAIN docs' : d # e /\ docs'[d].latest /\ docs'[e].latest /\ docs'[d].path = docs'[e].path =>
          WTwice(docs[d].path)'
  BY <1>3
<1> QED
  BY <1>1, <1>2, <1>4, phase' = "index" DEF WRowsOK

(* The rows of the running call stay those of their pages.                 *)
LEMMA WOwnedStays ==
    ASSUME NEW i, WFrame(i), NEW d \in DOMAIN docs, WOwned(d),
           pc[i] \in {"fill", "ok", "failed"} => pc'[i] \in {"fill", "ok", "failed"} /\ existing'[i] = existing[i]
    PROVE  WOwned(d)'
<1> SUFFICES ASSUME docs'[d].run = webRuns'
             PROVE  \E j \in DOMAIN pages' :
                        existing'[j] = d /\ pc'[j] \in {"fill", "ok", "failed"} /\ pages'[j].url = docs'[d].path
  BY DEF WOwned
<1>1. PICK j \in DOMAIN pages :
          existing[j] = d /\ pc[j] \in {"fill", "ok", "failed"} /\ pages[j].url = docs[d].path
  BY DEF WOwned, WFrame
<1>2. j \in DOMAIN pages' /\ pages'[j].url = docs'[d].path
  BY <1>1 DEF WFrame
<1>3. existing'[j] = existing[j] /\ pc'[j] \in {"fill", "ok", "failed"}
  BY <1>1 DEF WFrame
<1> QED
  BY <1>1, <1>2, <1>3

(* What is left of the invariant while the pages are indexed, for the step *)
(* of page i: the types, the frame, the rows and the page itself.          *)
WIndexing ==
    /\ WTypeOK /\ WRowsOK /\ phase = "index"
    /\ \A j \in DOMAIN pages : WPageOK(j)
    /\ \A d \in DOMAIN docs : WOwned(d)

(* A step of one page keeps what holds of the indexing, if it does for that *)
(* page and only adds to the rows what the page owns.                       *)
LEMMA WIndexed ==
    ASSUME WIndexing, NEW i \in DOMAIN pages, WFrame(i), phase' = "index", WTypeOK', WRowsOK', WPageOK(i)',
           pc[i] \in {"fill", "ok", "failed"} => pc'[i] \in {"fill", "ok", "failed"} /\ existing'[i] = existing[i],
           \A d \in DOMAIN docs' : d \in DOMAIN docs \/ WOwned(d)'
    PROVE  WIndexing'
<1>1. ASSUME NEW j \in DOMAIN pages' PROVE WPageOK(j)'
  <2>1. j \in DOMAIN pages /\ WPageOK(j)
    BY DEF WFrame, WIndexing
  <2>2. CASE j = i
    BY <2>2
  <2>3. CASE j # i
    BY <2>1, <2>3, WOthers
  <2> QED
    BY <2>2, <2>3
<1>2. ASSUME NEW d \in DOMAIN docs' PROVE WOwned(d)'
  <2>1. CASE d \in DOMAIN docs
    <3>1. WOwned(d)
      BY <2>1 DEF WIndexing
    <3> QED
      BY <2>1, <3>1, WOwnedStays
  <2> QED
    BY <2>1
<1> QED
  BY <1>1, <1>2 DEF WIndexing

(* The types after a step of a page.                                       *)
LEMMA WPageTypes ==
    ASSUME WTypeOK, W!RestUnchanged, NEW i \in DOMAIN pages,
           NEW s \in {"lookup", "supersede", "insert", "fill", "ok", "failed"}, W!Goto(i, s),
           docs' \in Seq(WRows), existing' \in [DOMAIN pages -> Nat]
    PROVE  /\ WTypeOK' /\ phase' = phase /\ pages' = pages /\ webRuns' = webRuns
           /\ pc'[i] = s /\ \A j \in DOMAIN pages : j # i => pc'[j] = pc[j]
<1>1. /\ text' = text /\ phase' = phase /\ opts' = opts /\ queue' = queue /\ urls' = urls /\ fetched' = fetched
      /\ pages' = pages /\ webRuns' = webRuns
  BY DEF W!RestUnchanged, W!siteVars, W!crawlVars
<1>2. pc \in [DOMAIN pages -> {"lookup", "supersede", "insert", "fill", "ok", "failed"}]
  BY DEF WTypeOK
<1>3. /\ pc' \in [DOMAIN pages -> {"lookup", "supersede", "insert", "fill", "ok", "failed"}]
      /\ pc'[i] = s /\ \A j \in DOMAIN pages : j # i => pc'[j] = pc[j]
  BY <1>2 DEF W!Goto
<1> QED
  BY <1>1, <1>3 DEF WTypeOK

(* A page that fails, or that is found unchanged or not yet there.         *)
LEMMA WNothingWritten ==
    ASSUME WIndexing, W!RestUnchanged, NEW i \in DOMAIN pages, docs' = docs,
           NEW s \in {"lookup", "supersede", "insert", "fill", "ok", "failed"}, W!Goto(i, s),
           existing' \in [DOMAIN pages -> Nat], \A j \in DOMAIN pages : j # i => existing'[j] = existing[j],
           pc[i] \in {"fill", "ok", "failed"} => s = "failed" /\ existing' = existing,
           WPageOK(i)'
    PROVE  WIndexing'
<1>1. docs' \in Seq(WRows)
  BY DEF WIndexing, WTypeOK
<1>2. /\ WTypeOK' /\ phase' = "index" /\ pages' = pages /\ webRuns' = webRuns
      /\ pc'[i] = s /\ \A j \in DOMAIN pages : j # i => pc'[j] = pc[j]
  BY <1>1, WPageTypes DEF WIndexing
<1>3. WFrame(i)
  BY <1>2 DEF WFrame
<1>4. WRowsOK'
  BY <1>2, <1>3, WRowsStay DEF WIndexing
<1>5. pc[i] \in {"fill", "ok", "failed"} => pc'[i] \in {"fill", "ok", "failed"} /\ existing'[i] = existing[i]
  BY <1>2
<1> QED
  BY <1>2, <1>3, <1>4, <1>5, WIndexed

(* A page fails.                                                           *)
LEMMA WFails ==
    ASSUME WIndexing, W!RestUnchanged, NEW i \in DOMAIN pages, docs' = docs, existing' = existing, W!Goto(i, "failed")
    PROVE  WIndexing'
<1>1. existing \in [DOMAIN pages -> Nat] /\ docs \in Seq(WRows) /\ WTypeOK
  BY DEF WIndexing, WTypeOK
<1>2. pages' = pages /\ pc'[i] = "failed"
  BY <1>1, WPageTypes
<1>3. existing[i] # 0 => existing[i] \in DOMAIN docs /\ docs[existing[i]].path = pages[i].url
  BY DEF WIndexing, WPageOK
<1>4. WPageOK(i)'
  BY <1>2, <1>3 DEF WPageOK
<1> QED
  BY <1>1, <1>4, WNothingWritten

(* A page is looked up.                                                    *)
LEMMA WLookup ==
    ASSUME WIndexing, W!RestUnchanged, NEW i \in DOMAIN pages, W!Lookup(i)
    PROVE  WIndexing'
<1>u. PICK u : u = pages[i].url
  OBVIOUS
<1>1. docs' = docs /\ pc[i] = "lookup"
  BY DEF W!Lookup
<1>2. existing \in [DOMAIN pages -> Nat] /\ docs \in Seq(WRows) /\ WTypeOK /\ Len(docs) \in Nat
      /\ DOMAIN docs = 1 .. Len(docs)
  BY LenProperties DEF WIndexing, WTypeOK
<1>3. PICK d \in IF W!LatestOf(u) = {} THEN {0} ELSE W!LatestOf(u) :
          /\ existing' = [existing EXCEPT ![i] = d]
          /\ W!Goto(i, IF ~webForce /\ W!SameHash(i, d) THEN "ok"
                       ELSE IF d # 0 THEN "supersede" ELSE "insert")
  BY <1>u DEF W!Lookup
<1>4. W!LatestOf(u) \subseteq DOMAIN docs
  BY DEF W!LatestOf
<1>5. d \in Nat /\ (d = 0 <=> W!LatestOf(u) = {}) /\ (d # 0 => d \in W!LatestOf(u))
  BY <1>2, <1>3, <1>4
<1>6. existing' \in [DOMAIN pages -> Nat] /\ existing'[i] = d /\ \A j \in DOMAIN pages : j # i => existing'[j] = existing[j]
  BY <1>2, <1>3, <1>5
<1>7. d # 0 => d \in DOMAIN docs /\ docs[d].path = u
  BY <1>5 DEF W!LatestOf
<1>8. CASE ~webForce /\ W!SameHash(i, d)
  <2>1. W!Goto(i, "ok")
    BY <1>3, <1>8
  <2>2. pages' = pages /\ pc'[i] = "ok" /\ webRuns' = webRuns
    BY <1>1, <1>2, <1>6, <2>1, WPageTypes
  <2>3. d \in W!LatestOf(u) /\ docs[d].hash = pages[i].text /\ docs[d].path = u /\ d \in DOMAIN docs
    BY <1>5, <1>7, <1>8 DEF W!SameHash
  <2>4. ASSUME ~W!ListedTwice(u) PROVE docs[d].run < webRuns
    <3>1. docs[d].run # webRuns
      <4> SUFFICES ASSUME docs[d].run = webRuns PROVE FALSE
        OBVIOUS
      <4>1. PICK j \in DOMAIN pages : pc[j] \in {"fill", "ok", "failed"} /\ pages[j].url = u
        BY <2>3 DEF WIndexing, WOwned
      <4>2. j # i
        BY <1>1, <4>1
      <4> QED
        BY <1>u, <2>4, <4>1, <4>2 DEF W!ListedTwice
    <3>2. docs[d].run <= webRuns /\ docs[d].run \in Nat /\ webRuns \in Nat
      <4>1. docs[d] \in WRows
        BY <1>2, <2>3
      <4>2. docs[d].run <= webRuns /\ webRuns \in Nat
        BY <2>3 DEF WIndexing, WRowsOK, WTypeOK
      <4> QED
        BY <4>1, <4>2, WRowFields
    <3> QED
      BY <3>1, <3>2
  <2>5. d \in W!LatestOf(u)' /\ W!ListedTwice(u)' = W!ListedTwice(u)
    BY <1>1, <2>2, <2>3 DEF W!LatestOf, W!ListedTwice
  <2>6. WPageOK(i)'
    <3>1. pages'[i].url = u /\ pages'[i] = pages[i] /\ pc'[i] = "ok" /\ docs' = docs /\ webRuns' = webRuns /\ existing'[i] = d
      BY <1>u, <1>1, <1>6, <2>2
    <3>2. ~W!ListedTwice(u)' => \E e \in W!LatestOf(u)' :
              docs'[e].hash = pages'[i].text /\ (docs'[e].whole \/ docs'[e].run < webRuns')
      BY <2>3, <2>4, <2>5, <3>1
    <3> QED
      BY <2>3, <3>1, <3>2 DEF WPageOK
  <2> QED
    BY <1>1, <1>6, <2>1, <2>6, WNothingWritten
<1>9. CASE ~(~webForce /\ W!SameHash(i, d)) /\ d # 0
  <2>1. W!Goto(i, "supersede")
    BY <1>3, <1>9
  <2>2. pages' = pages /\ pc'[i] = "supersede" /\ webRuns' = webRuns
    BY <1>1, <1>2, <1>6, <2>1, WPageTypes
  <2>3. ~WTwice(u)' => \A e \in W!LatestOf(u)' : e = d
    <3>1. d \in W!LatestOf(u)
      BY <1>5, <1>9
    <3>2. ~WTwice(u) => \A e \in W!LatestOf(u) : e = d
      BY <3>1 DEF WIndexing, WRowsOK, W!LatestOf
    <3>3. WTwice(u)' = WTwice(u) /\ W!LatestOf(u)' = W!LatestOf(u)
      BY <1>1 DEF WTwice, W!LatestOf
    <3> QED
      BY <3>2, <3>3
  <2>4. WPageOK(i)'
    <3>1. pages'[i].url = u /\ pages'[i] = pages[i] /\ docs' = docs /\ existing'[i] = d
      BY <1>u, <1>1, <1>6, <2>2
    <3> QED
      BY <1>7, <1>9, <2>2, <2>3, <3>1 DEF WPageOK
  <2> QED
    BY <1>1, <1>6, <2>1, <2>4, WNothingWritten
<1>10. CASE ~(~webForce /\ W!SameHash(i, d)) /\ d = 0
  <2>1. W!Goto(i, "insert")
    BY <1>3, <1>10
  <2>2. pages' = pages /\ pc'[i] = "insert" /\ webRuns' = webRuns
    BY <1>1, <1>2, <1>6, <2>1, WPageTypes
  <2>3. W!LatestOf(u)' = {}
    BY <1>1, <1>5, <1>10 DEF W!LatestOf
  <2>4. WPageOK(i)'
    <3>1. pages'[i].url = u /\ pages'[i] = pages[i] /\ docs' = docs /\ existing'[i] = 0
      BY <1>u, <1>1, <1>6, <1>10, <2>2
    <3> QED
      BY <2>2, <2>3, <3>1 DEF WPageOK
  <2> QED
    BY <1>1, <1>6, <2>1, <2>4, WNothingWritten
<1> QED
  BY <1>8, <1>9, <1>10

(* The version a page replaces is superseded.                              *)
LEMMA WSupersede ==
    ASSUME WIndexing, W!RestUnchanged, NEW i \in DOMAIN pages, W!Supersede(i)
    PROVE  WIndexing'
<1>u. PICK u : u = pages[i].url
  OBVIOUS
<1>k. PICK k : k = existing[i]
  OBVIOUS
<1>1. /\ pc[i] = "supersede" /\ docs' = [docs EXCEPT ![k].latest = FALSE] /\ W!Goto(i, "insert")
      /\ existing' = existing
  BY <1>k DEF W!Supersede
<1>2. k # 0 /\ k \in DOMAIN docs /\ docs[k].path = u
  BY <1>u, <1>k, <1>1 DEF WIndexing, WPageOK
<1>3. docs \in Seq(WRows) /\ existing \in [DOMAIN pages -> Nat] /\ WTypeOK
  BY DEF WIndexing, WTypeOK
<1>4. /\ docs' \in Seq(WRows) /\ DOMAIN docs' = DOMAIN docs
      /\ \A d \in DOMAIN docs :
             /\ docs'[d].path = docs[d].path /\ docs'[d].hash = docs[d].hash /\ docs'[d].run = docs[d].run
             /\ docs'[d].whole = docs[d].whole
             /\ d # k => docs'[d].latest = docs[d].latest
      /\ ~docs'[k].latest
  BY <1>1, <1>2, <1>3, WSuperseded
<1>5. /\ WTypeOK' /\ phase' = "index" /\ pages' = pages /\ webRuns' = webRuns
      /\ pc'[i] = "insert" /\ \A j \in DOMAIN pages : j # i => pc'[j] = pc[j]
  BY <1>1, <1>3, <1>4, WPageTypes DEF WIndexing
<1>6. WFrame(i)
  <2>1. \A d \in DOMAIN docs : docs'[d].latest => docs[d].latest
    BY <1>4
  <2>2. \A d \in DOMAIN docs : docs[d].latest /\ docs[d].path # pages[i].url => docs'[d].latest
    BY <1>u, <1>2, <1>4
  <2> QED
    BY <1>1, <1>4, <1>5, <2>1, <2>2 DEF WFrame
<1>7. WRowsOK'
  BY <1>4, <1>5, <1>6, WRowsStay DEF WIndexing
<1>8. WPageOK(i)'
  <2>1. pages'[i].url = u /\ pc'[i] = "insert" /\ existing'[i] = k /\ docs'[k].path = u /\ k \in DOMAIN docs'
        /\ webRuns' = webRuns
    BY <1>u, <1>k, <1>1, <1>2, <1>4, <1>5
  <2>2. ~WTwice(u)' => \A d \in W!LatestOf(u)' : docs'[d].run = webRuns
    <3> SUFFICES ASSUME ~WTwice(u)', NEW d \in W!LatestOf(u)' PROVE docs'[d].run = webRuns
      OBVIOUS
    <3>1. ~WTwice(u)
      BY <1>6, WTwiceStays
    <3>2. d \in W!LatestOf(u) /\ d # k /\ docs'[d].run = docs[d].run
      BY <1>4 DEF W!LatestOf
    <3>3. \A e \in W!LatestOf(u) : docs[e].run = webRuns \/ e = k
      BY <1>u, <1>k, <1>1, <3>1 DEF WIndexing, WPageOK
    <3> QED
      BY <3>2, <3>3
  <2> QED
    BY <2>1, <2>2 DEF WPageOK
<1>9. \A d \in DOMAIN docs' : d \in DOMAIN docs
  BY <1>4
<1> QED
  BY <1>1, <1>5, <1>6, <1>7, <1>8, <1>9, WIndexed

(* The new version of a page gets its chunks and vectors.                  *)
LEMMA WFill ==
    ASSUME WIndexing, W!RestUnchanged, NEW i \in DOMAIN pages, W!Fill(i)
    PROVE  WIndexing'
<1>u. PICK u : u = pages[i].url
  OBVIOUS
<1>k. PICK k : k = existing[i]
  OBVIOUS
<1>1. /\ pc[i] = "fill" /\ docs' = [docs EXCEPT ![k].whole = TRUE] /\ W!Goto(i, "ok")
      /\ existing' = existing
  BY <1>k DEF W!Fill
<1>2. /\ k # 0 /\ k \in DOMAIN docs /\ docs[k].path = u /\ docs[k].hash = pages[i].text
      /\ ~W!ListedTwice(u) => docs[k].latest
  BY <1>u, <1>k, <1>1 DEF WIndexing, WPageOK
<1>3. docs \in Seq(WRows) /\ existing \in [DOMAIN pages -> Nat] /\ WTypeOK
  BY DEF WIndexing, WTypeOK
<1>4. /\ docs' \in Seq(WRows) /\ DOMAIN docs' = DOMAIN docs
      /\ \A d \in DOMAIN docs :
             /\ docs'[d].path = docs[d].path /\ docs'[d].hash = docs[d].hash /\ docs'[d].run = docs[d].run
             /\ docs'[d].latest = docs[d].latest
             /\ d # k => docs'[d].whole = docs[d].whole
      /\ docs'[k].whole
  BY <1>1, <1>2, <1>3, WFilled
<1>5. /\ WTypeOK' /\ phase' = "index" /\ pages' = pages /\ webRuns' = webRuns
      /\ pc'[i] = "ok" /\ \A j \in DOMAIN pages : j # i => pc'[j] = pc[j]
  BY <1>1, <1>3, <1>4, WPageTypes DEF WIndexing
<1>6. WFrame(i)
  <2>1. \A d \in DOMAIN docs : docs[d].whole => docs'[d].whole
    BY <1>4
  <2> QED
    BY <1>1, <1>4, <1>5, <2>1 DEF WFrame
<1>7. WRowsOK'
  BY <1>4, <1>5, <1>6, WRowsStay DEF WIndexing
<1>8. WPageOK(i)'
  <2>1. pages'[i].url = u /\ pages'[i] = pages[i] /\ pc'[i] = "ok" /\ existing'[i] = k /\ k \in DOMAIN docs'
        /\ docs'[k].path = u /\ docs'[k].hash = pages[i].text
    BY <1>u, <1>k, <1>1, <1>2, <1>4, <1>5
  <2>2. W!ListedTwice(u)' = W!ListedTwice(u)
    BY <1>5 DEF W!ListedTwice
  <2>3. ~W!ListedTwice(u) => k \in W!LatestOf(u)'
    BY <1>2, <1>4, <2>1 DEF W!LatestOf
  <2> QED
    BY <1>4, <2>1, <2>2, <2>3 DEF WPageOK
<1>9. \A d \in DOMAIN docs' : d \in DOMAIN docs
  BY <1>4
<1> QED
  BY <1>1, <1>5, <1>6, <1>7, <1>8, <1>9, WIndexed

(* A new version of a page is inserted.                                    *)
LEMMA WInsert ==
    ASSUME WIndexing, W!RestUnchanged, NEW i \in DOMAIN pages, W!InsertRow(i)
    PROVE  WIndexing'
<1>u. PICK u : u = pages[i].url
  OBVIOUS
<1>k. PICK k : k = Len(docs) + 1
  OBVIOUS
<1>0. CASE \E d \in DOMAIN docs : docs[d].hash = pages[i].text
  <2>1. W!Goto(i, "failed") /\ docs' = docs /\ existing' = existing
    BY <1>0 DEF W!InsertRow
  <2> QED
    BY <2>1, WFails
<1>a. CASE ~\E d \in DOMAIN docs : docs[d].hash = pages[i].text
  <2>1. /\ pc[i] = "insert" /\ docs' = Append(docs, W!NewRow(i)) /\ W!Goto(i, "fill")
        /\ existing' = [existing EXCEPT ![i] = k]
    BY <1>k, <1>a DEF W!InsertRow
  <2>2. docs \in Seq(WRows) /\ existing \in [DOMAIN pages -> Nat] /\ WTypeOK
    BY DEF WIndexing, WTypeOK
  <2>3. existing[i] # 0 => existing[i] \in DOMAIN docs
    BY DEF WIndexing, WPageOK
  <2>4. /\ docs' \in Seq(WRows) /\ DOMAIN docs' = DOMAIN docs \cup {k}
        /\ k \notin DOMAIN docs /\ k \in Nat \ {0}
        /\ \A d \in DOMAIN docs : docs'[d] = docs[d]
        /\ docs'[k].path = u /\ docs'[k].hash = pages[i].text
        /\ docs'[k].run = webRuns /\ docs'[k].latest
    BY <1>u, <1>k, <2>1, <2>2, <2>3, WInserted
  <2>5. /\ existing' \in [DOMAIN pages -> Nat] /\ existing'[i] = k
        /\ \A j \in DOMAIN pages : j # i => existing'[j] = existing[j]
    BY <2>1, <2>2, <2>4
  <2>6. /\ WTypeOK' /\ phase' = "index" /\ pages' = pages /\ webRuns' = webRuns
        /\ pc'[i] = "fill" /\ \A j \in DOMAIN pages : j # i => pc'[j] = pc[j]
    BY <2>1, <2>2, <2>4, <2>5, WPageTypes DEF WIndexing
  <2>7. WFrame(i)
    BY <2>4, <2>5, <2>6 DEF WFrame
  <2>8. WRowsOK'
    <3>1. \A d, e \in DOMAIN docs' : docs'[d].hash = docs'[e].hash => d = e
      BY <1>a, <2>4 DEF WIndexing, WRowsOK
    <3>2. \A d \in DOMAIN docs' : docs'[d].run <= webRuns'
      <4>1. webRuns \in Nat
        BY <2>2 DEF WTypeOK
      <4> QED
        BY <2>4, <2>6, <4>1 DEF WIndexing, WRowsOK
    <3>3. ASSUME NEW d \in DOMAIN docs, docs[d].latest, docs[d].path = u PROVE WTwice(u)'
      <4>1. CASE WTwice(u)
        BY <2>7, <4>1, WTwiceStays
      <4>2. CASE ~WTwice(u)
        <5>1. docs[d].run = webRuns
          BY <1>u, <2>1, <3>3, <4>2 DEF WIndexing, WPageOK, W!LatestOf
        <5>2. d # k /\ d \in DOMAIN docs' /\ k \in DOMAIN docs' /\ docs'[d].run = docs'[k].run
              /\ docs'[d].path = u /\ docs'[k].path = u
          BY <2>4, <3>3, <5>1
        <5> QED
          BY <5>2 DEF WTwice
      <4> QED
        BY <4>1, <4>2
    <3>4. ASSUME NEW d \in DOMAIN docs', NEW e \in DOMAIN docs', d # e, docs'[d].latest, docs'[e].latest,
                 docs'[d].path = docs'[e].path, NEW v, v = docs'[d].path
          PROVE  WTwice(v)'
      <4>1. CASE d \in DOMAIN docs /\ e \in DOMAIN docs
        <5>1. WTwice(v)
          BY <2>4, <3>4, <4>1 DEF WIndexing, WRowsOK
        <5> QED
          BY <2>7, <5>1, WTwiceStays
      <4>2. CASE d = k
        <5>1. e \in DOMAIN docs /\ docs[e].latest /\ docs[e].path = u /\ v = u
          BY <2>4, <3>4, <4>2
        <5> QED
          BY <3>3, <5>1
      <4>3. CASE e = k
        <5>1. d \in DOMAIN docs /\ docs[d].latest /\ docs[d].path = u /\ v = u
          BY <2>4, <3>4, <4>3
        <5> QED
          BY <3>3, <5>1
      <4> QED
        BY <2>4, <4>1, <4>2, <4>3
    <3> QED
      BY <2>6, <3>1, <3>2, <3>4 DEF WRowsOK
  <2>9. WPageOK(i)'
    <3>1. pages'[i].url = u /\ pages'[i] = pages[i]
      BY <1>u, <2>6
    <3> QED
      BY <2>4, <2>5, <2>6, <3>1 DEF WPageOK
  <2>10. WOwned(k)'
    <3>1. i \in DOMAIN pages' /\ existing'[i] = k /\ pc'[i] = "fill" /\ pages'[i].url = docs'[k].path
      BY <1>u, <2>4, <2>5, <2>6
    <3> QED
      BY <3>1 DEF WOwned
  <2>11. \A d \in DOMAIN docs' : d \in DOMAIN docs \/ WOwned(d)'
    BY <2>4, <2>10
  <2> QED
    BY <2>1, <2>6, <2>7, <2>8, <2>9, <2>11, WIndexed
<1> QED
  BY <1>0, <1>a

(* While no call indexes, the invariant is this.                           *)
LEMMA WElsewhere ==
    ASSUME WInv, WTypeOK', docs' = docs, phase' # "index", phase # "index",
           \/ phase' # "idle" /\ webRuns' = webRuns
              /\ (phase' \in {"sitemap", "bfs", "fetch", "fetched"} => phase \in {"sitemap", "bfs", "fetch", "fetched"})
           \/ phase' # "idle" /\ webRuns' = webRuns + 1
           \/ phase' = "idle" /\ webRuns' = webRuns /\ outcome' # "nil"
           \/ phase = "idle" /\ phase' = "idle" /\ UNCHANGED <<webRuns, outcome, pages>>
    PROVE  WInv'
<1>1. webRuns \in Nat /\ docs \in Seq(WRows)
  BY DEF WInv, WTypeOK
<1>2. \A d \in DOMAIN docs : docs[d].run \in Nat
  <2>1. \A d \in DOMAIN docs : docs[d] \in WRows
    BY <1>1
  <2> QED
    BY <2>1, WRowFields
<1>3. WRowsOK'
  <2>1. \A d \in DOMAIN docs' :
            docs'[d].run <= webRuns' /\ (phase' \in {"sitemap", "bfs", "fetch", "fetched"} => docs'[d].run < webRuns')
    BY <1>1, <1>2 DEF WInv, WRowsOK
  <2>2. \A u : WTwice(u) <=> WTwice(u)'
    BY DEF WTwice
  <2> QED
    BY <2>1, <2>2 DEF WInv, WRowsOK
<1>4. W!NilMeansIndexed'
  <2>1. CASE phase = "idle" /\ phase' = "idle" /\ UNCHANGED <<webRuns, outcome, pages>>
    BY <2>1 DEF WInv, W!NilMeansIndexed, W!LatestOf, W!ListedTwice
  <2>2. CASE phase' # "idle" \/ outcome' # "nil"
    BY <2>2 DEF W!NilMeansIndexed
  <2> QED
    BY <2>1, <2>2
<1> QED
  BY <1>3, <1>4 DEF WInv

(* The first state.                                                        *)
LEMMA WInit == ASSUME W!CrawlerAssumption PROVE W!Init => WInv
<1> SUFFICES ASSUME W!Init PROVE WInv
  OBVIOUS
<1>1. /\ text = FirstText /\ phase = "idle" /\ opts = [pages |-> 0, depth |-> 0] /\ queue = <<>> /\ urls = <<>>
      /\ fetched = <<>> /\ docs = <<>> /\ pages = <<>> /\ pc = <<>> /\ existing = <<>> /\ outcome = "none"
      /\ webRuns = 0
  BY DEF W!Init, W!CrawlInit
<1>2. FirstText \in [URLs -> Texts]
  BY DEF W!CrawlerAssumption
<1>3. WTypeOK
  <2>1. pc \in [DOMAIN pages -> {"lookup", "supersede", "insert", "fill", "ok", "failed"}]
        /\ existing \in [DOMAIN pages -> Nat]
    BY <1>1
  <2>2. queue \in Seq(WItems) /\ urls \in Seq(URLs) /\ fetched \in Seq(WTexts) /\ docs \in Seq(WRows)
        /\ pages \in Seq(WPages)
    BY <1>1, EmptySeq
  <2>3. text \in [URLs -> Texts] /\ opts \in [pages : Nat, depth : Nat] /\ webRuns \in Nat
    BY <1>1, <1>2
  <2> QED
    BY <1>1, <2>1, <2>2, <2>3 DEF WTypeOK
<1>4. DOMAIN docs = {}
  BY <1>1
<1> QED
  BY <1>1, <1>3, <1>4 DEF WInv, WRowsOK, W!NilMeansIndexed

(* The pages of a crawl that has returned.                                 *)
LEMMA WPagesType == ASSUME WTypeOK, phase = "fetched" PROVE W!Pages \in Seq(WPages)
<1> DEFINE f(i) == [url |-> urls[i], text |-> fetched[i]]
           s == [i \in DOMAIN urls |-> f(i)]
           I == {i \in DOMAIN urls : fetched[i] # "failed"}
<1>1. urls \in Seq(URLs) /\ fetched \in Seq(WTexts) /\ DOMAIN fetched = DOMAIN urls
  BY DEF WTypeOK
<1>2. Len(urls) \in Nat /\ DOMAIN urls = 1 .. Len(urls)
  BY <1>1, LenProperties
<1>3. \A i \in DOMAIN urls : f(i) \in WPages
  BY <1>1 DEF WPages
<1>4. s \in Seq(WPages) /\ I \in SUBSET DOMAIN s
  <2>1. s \in [1 .. Len(urls) -> WPages]
    BY <1>2, <1>3
  <2>2. DOMAIN s = DOMAIN urls
    OBVIOUS
  <2> HIDE DEF s
  <2> QED
    BY <1>2, <2>1, <2>2
<1>5. W!Pages = Select(s, I)
  BY WSelect, Zenon DEF W!Pages
<1> HIDE DEF s, I
<1> QED
  BY <1>4, <1>5, SelectProperties

(* A call begins.                                                          *)
LEMMA WCall ==
    ASSUME W!CrawlerAssumption, WInv, NEW l \in Limits, NEW s \in BOOLEAN, NEW f \in BOOLEAN,
           W!IndexURL(l[1], l[2], s, f)
    PROVE  WInv'
<1>1. phase = "idle" /\ docs' = docs /\ webRuns' = webRuns + 1 /\ pages' = <<>> /\ pc' = <<>> /\ existing' = <<>>
  BY DEF W!IndexURL
<1>2. /\ text' = text /\ urls' = <<>> /\ fetched' = <<>> /\ phase' \in {"bfs", "sitemap"}
      /\ opts' = [pages |-> IF l[1] = 0 THEN NoLimit ELSE l[1], depth |-> l[2]]
      /\ queue' = <<>> \/ queue' = <<[u |-> Root, depth |-> 0]>>
  BY DEF W!IndexURL, W!Crawl, W!siteVars
<1>3. l[1] \in Nat /\ l[2] \in Nat /\ NoLimit \in Nat /\ Root \in URLs
  BY DEF W!CrawlerAssumption
<1>4. WTypeOK'
  <2>1. pc' \in [DOMAIN pages' -> {"lookup", "supersede", "insert", "fill", "ok", "failed"}]
        /\ existing' \in [DOMAIN pages' -> Nat]
    BY <1>1
  <2>2. urls' \in Seq(URLs) /\ fetched' \in Seq(WTexts) /\ pages' \in Seq(WPages)
    BY <1>1, <1>2, EmptySeq
  <2>3. queue' \in Seq(WItems)
    <3>1. <<[u |-> Root, depth |-> 0]>> \in Seq(WItems)
      BY <1>3 DEF WItems
    <3>2. <<>> \in Seq(WItems)
      BY EmptySeq
    <3> QED
      BY <1>2, <3>1, <3>2
  <2>4. opts' \in [pages : Nat, depth : Nat]
    BY <1>2, <1>3
  <2>5. text' \in [URLs -> Texts] /\ docs' \in Seq(WRows) /\ webRuns' \in Nat
    BY <1>1, <1>2 DEF WInv, WTypeOK
  <2> QED
    BY <1>2, <2>1, <2>2, <2>3, <2>4, <2>5 DEF WTypeOK
<1> QED
  BY <1>1, <1>2, <1>4, WElsewhere

(* The crawl of a call has returned.                                       *)
LEMMA WCrawled == ASSUME W!CrawlerAssumption, WInv, W!Crawled PROVE WInv'
<1>1. /\ phase = "fetched" /\ docs' = docs /\ webRuns' = webRuns /\ text' = text
      /\ opts' = [pages |-> 0, depth |-> 0] /\ queue' = <<>> /\ urls' = <<>> /\ fetched' = <<>>
      /\ pages' = W!Pages
  BY DEF W!Crawled, W!Forget, W!siteVars
<1>2. /\ pc' = [i \in DOMAIN pages' |-> "lookup"] /\ existing' = [i \in DOMAIN pages' |-> 0]
      /\ (phase' = "idle" /\ outcome' = "error") \/ phase' = "index"
  BY DEF W!Crawled
<1>3. WTypeOK'
  <2>1. pages' \in Seq(WPages)
    BY <1>1, WPagesType DEF WInv
  <2>2. urls' \in Seq(URLs) /\ fetched' \in Seq(WTexts) /\ queue' \in Seq(WItems) /\ opts' \in [pages : Nat, depth : Nat]
    BY <1>1, EmptySeq
  <2>3. text' \in [URLs -> Texts] /\ docs' \in Seq(WRows) /\ webRuns' \in Nat
    BY <1>1 DEF WInv, WTypeOK
  <2>4. pc' \in [DOMAIN pages' -> {"lookup", "supersede", "insert", "fill", "ok", "failed"}]
        /\ existing' \in [DOMAIN pages' -> Nat]
    BY <1>2
  <2> QED
    BY <1>2, <2>1, <2>2, <2>3, <2>4 DEF WTypeOK
<1>4. CASE phase' = "idle" /\ outcome' = "error"
  BY <1>1, <1>3, <1>4, WElsewhere
<1>5. CASE phase' = "index"
  <2>1. WRowsOK'
    BY <1>1, <1>5 DEF WInv, WRowsOK, WTwice
  <2>2. \A i \in DOMAIN pages' : pc'[i] = "lookup" /\ existing'[i] = 0
    BY <1>2
  <2>3. \A i \in DOMAIN pages' : WPageOK(i)'
    BY <2>2 DEF WPageOK
  <2>4. \A d \in DOMAIN docs' : docs'[d].run # webRuns'
    <3>1. \A d \in DOMAIN docs : docs[d].run < webRuns
      BY <1>1 DEF WInv, WRowsOK
    <3>2. webRuns \in Nat
      BY DEF WInv, WTypeOK
    <3> QED
      BY <1>1, <3>1, <3>2
  <2>5. \A d \in DOMAIN docs' : WOwned(d)'
    BY <2>4 DEF WOwned
  <2>6. W!NilMeansIndexed'
    BY <1>5 DEF W!NilMeansIndexed
  <2> QED
    BY <1>3, <2>1, <2>3, <2>5, <2>6 DEF WInv
<1> QED
  BY <1>2, <1>4, <1>5

(* A call returns.                                                         *)
LEMMA WReturn == ASSUME WInv, W!Return PROVE WInv'
<1>1. /\ phase = "index" /\ phase' = "idle" /\ docs' = docs /\ webRuns' = webRuns /\ text' = text
      /\ opts' = [pages |-> 0, depth |-> 0] /\ queue' = <<>> /\ urls' = <<>> /\ fetched' = <<>>
      /\ pages' = pages /\ pc' = pc /\ existing' = existing
  BY DEF W!Return, W!Forget, W!siteVars
<1>2. (\A i \in DOMAIN pc : W!Ended(i)) /\ (outcome' = "nil" => ~W!CallFails)
  BY DEF W!Return
<1>3. WTypeOK'
  <2>1. urls' \in Seq(URLs) /\ fetched' \in Seq(WTexts) /\ queue' \in Seq(WItems) /\ opts' \in [pages : Nat, depth : Nat]
    BY <1>1, EmptySeq
  <2> QED
    BY <1>1, <2>1 DEF WInv, WTypeOK
<1>4. WRowsOK'
  BY <1>1 DEF WInv, WRowsOK, WTwice
<1>5. W!NilMeansIndexed'
  <2> SUFFICES ASSUME outcome' = "nil", NEW i \in DOMAIN pages, ~W!ListedTwice(pages[i].url)
               PROVE  \E d \in W!LatestOf(pages[i].url) :
                          docs[d].hash = pages[i].text /\ (docs[d].whole \/ docs[d].run < webRuns)
    BY <1>1 DEF W!NilMeansIndexed, W!LatestOf, W!ListedTwice
  <2>1. i \in DOMAIN pc
    BY DEF WInv, WTypeOK
  <2>2. pc[i] = "ok"
    BY <1>2, <2>1 DEF W!Ended, W!CallFails
  <2> QED
    BY <1>1, <2>2 DEF WInv, WPageOK
<1> QED
  BY <1>1, <1>3, <1>4, <1>5 DEF WInv

(* The invariant is inductive.                                             *)
LEMMA WStep == ASSUME W!CrawlerAssumption, WInv, [W!Next]_(W!vars) PROVE WInv'
<1>1. CASE \E u \in URLs, t \in Texts : W!EditPage(u, t) /\ UNCHANGED W!indexVars
  <2>1. PICK u \in URLs, t \in Texts : W!EditPage(u, t) /\ UNCHANGED W!indexVars
    BY <1>1
  <2>2. /\ phase \in {"idle", "fetch"} /\ text' = [text EXCEPT ![u] = t]
        /\ phase' = phase /\ opts' = opts /\ queue' = queue /\ urls' = urls /\ fetched' = fetched
        /\ docs' = docs /\ pages' = pages /\ pc' = pc /\ existing' = existing /\ outcome' = outcome
        /\ webRuns' = webRuns
    BY <2>1 DEF W!EditPage, W!crawlVars, W!indexVars
  <2>3. text' \in [URLs -> Texts]
    BY <2>1, <2>2 DEF WInv, WTypeOK
  <2>4. WTypeOK'
    BY <2>2, <2>3 DEF WInv, WTypeOK
  <2> QED
    BY <2>2, <2>4, WElsewhere
<1>2. CASE \E l \in Limits, s, f \in BOOLEAN : W!IndexURL(l[1], l[2], s, f)
  BY <1>2, WCall
<1>3. CASE W!CrawlStep /\ UNCHANGED W!indexVars
  <2>1. /\ WTypeOK' /\ UNCHANGED <<docs, pages, pc, existing, webForce, outcome, webRuns>>
        /\ phase' # "idle" /\ phase' # "index"
    BY <1>3, WCrawlTypes DEF WInv
  <2>2. phase \in {"sitemap", "bfs", "fetch"}
    BY <1>3 DEF W!CrawlStep, W!TryCandidate, W!ParseSitemap, W!SitemapFound, W!Visit, W!BfsEnds, W!Fetch,
                W!FetchesEnd, W!Cancel
  <2> QED
    BY <2>1, <2>2, WElsewhere
<1>4. CASE W!Crawled
  BY <1>4, WCrawled
<1>5. CASE \E i \in DOMAIN pages : W!IndexPage(i)
  <2>1. PICK i \in DOMAIN pages : W!IndexPage(i)
    BY <1>5
  <2>2. W!RestUnchanged /\ phase = "index"
    BY <2>1 DEF W!IndexPage, W!Running
  <2>3. WIndexing
    BY <2>2 DEF WInv, WIndexing
  <2>4. WIndexing'
    BY <2>1, <2>2, <2>3, WLookup, WSupersede, WInsert, WFill, WFails DEF W!IndexPage, W!Abort
  <2> QED
    BY <2>4 DEF WInv, WIndexing, W!NilMeansIndexed
<1>6. CASE W!Return
  BY <1>6, WReturn
<1>7. CASE UNCHANGED W!vars
  <2>1. UNCHANGED <<text, phase, opts, queue, urls, fetched, docs, pages, pc, existing, outcome, webRuns>>
    BY <1>7 DEF W!vars, W!siteVars, W!crawlVars, W!indexVars
  <2>2. WTypeOK' /\ WRowsOK' /\ W!NilMeansIndexed'
    BY <2>1 DEF WInv, WTypeOK, WRowsOK, WTwice, W!NilMeansIndexed, W!LatestOf, W!ListedTwice
  <2>3. phase = "index" => \A i \in DOMAIN pages : WPageOK(i)'
    BY <2>1 DEF WInv, WPageOK, WTwice, W!LatestOf, W!ListedTwice
  <2>4. phase = "index" => \A d \in DOMAIN docs : WOwned(d)'
    BY <2>1 DEF WInv, WOwned
  <2> QED
    BY <2>1, <2>2, <2>3, <2>4 DEF WInv
<1> QED
  BY <1>1, <1>2, <1>3, <1>4, <1>5, <1>6, <1>7 DEF W!Next

(* A call of IndexURL that returns nil has indexed every page it fetched, as it *)
(* is, and two latest rows of one URL are of one call that had it listed twice *)
(* and served two texts (internal/crawler, cmd/index.go).                   *)
THEOREM WebPagesAreIndexed == W!Spec => []PagesAreIndexed
<1>1. W!Init => WInv
  BY WInit, OuterAssumption
<1>2. WInv /\ [W!Next]_(W!vars) => WInv'
  BY WStep, OuterAssumption
<1>3. WInv => PagesAreIndexed
  BY DEF WInv, WRowsOK, WTwice, PagesAreIndexed, W!OneLatestPage
<1> QED
  BY <1>1, <1>2, <1>3, PTL DEF W!Spec

(* A set of numbers has a least one.                                       *)
LEMMA LeastNat ==
    ASSUME NEW P \in SUBSET Nat, P # {}
    PROVE  \E m \in P : \A k \in P : m <= k
<1> DEFINE R == {e \in Nat \X Nat : e[1] < e[2]}
<1>1. IsWellFoundedOn(R, Nat)
  BY NatLessThanWellFounded, Zenon DEF OpToRel
<1>2. PICK m \in P : \A k \in P : ~(<<k, m>> \in R)
  <2> HIDE DEF R
  <2> QED
    BY <1>1, WFMin
<1>3. \A k \in P : m <= k
  <2> TAKE k \in P
  <2>1. <<k, m>> \in Nat \X Nat /\ <<k, m>>[1] = k /\ <<k, m>>[2] = m
    OBVIOUS
  <2>2. ~(k < m)
    BY <1>2, <2>1
  <2> QED
    BY <2>1, <2>2
<1> QED
  BY <1>3

(* The distance of a page is the least number of links it is within.       *)
LEMMA BDistance ==
    ASSUME W!CrawlerAssumption, NEW d \in 0 .. WCount, NEW v \in W!Within[d]
    PROVE  /\ W!Distance(v) \in 0 .. d /\ v \in W!Within[W!Distance(v)] /\ v \in URLs
           /\ W!Distance(v) = 0 \/ v \notin W!Within[W!Distance(v) - 1]
<1> DEFINE P == {e \in 0 .. WCount : v \in W!Within[e]}
           Good(e) == v \in W!Within[e] /\ (e = 0 \/ v \notin W!Within[e - 1])
<1>1. WCount \in Nat /\ d \in P /\ P \in SUBSET Nat
  BY BCount
<1>2. PICK m \in P : \A k \in P : m <= k
  <2> HIDE DEF P
  <2> QED
    BY <1>1, LeastNat
<1>3. m \in 0 .. WCount /\ Good(m)
  BY <1>1, <1>2
<1>4. W!Distance(v) = CHOOSE e \in 0 .. WCount : Good(e)
  BY BCount DEF W!Distance
<1>5. W!Distance(v) \in 0 .. WCount /\ Good(W!Distance(v))
  <2> HIDE DEF Good
  <2> QED
    BY <1>3, <1>4
<1> DEFINE e == W!Distance(v)
<1>6. e \in 0 .. WCount /\ v \in W!Within[e] /\ (e = 0 \/ v \notin W!Within[e - 1])
  BY <1>5
<1>7. e <= d
  <2> SUFFICES ASSUME d < e PROVE FALSE
    BY <1>1, <1>6
  <2>1. d \in Nat /\ e - 1 \in Nat /\ d <= e - 1 /\ e - 1 <= WCount
    BY <1>1, <1>6
  <2>2. v \in W!Within[e - 1]
    <3> HIDE DEF e
    <3> QED
      BY <2>1, BWithinGrows
  <2>3. e # 0
    BY <1>1, <1>6
  <2> QED
    BY <1>6, <2>2, <2>3
<1>8. v \in URLs
  <2>1. d \in Nat /\ d <= WCount
    BY <1>1
  <2> QED
    BY <2>1, BWithinGrows
<1> QED
  BY <1>1, <1>6, <1>7, <1>8

(* A page other than the root has a link from a page that is one nearer.   *)
LEMMA BBefore ==
    ASSUME W!CrawlerAssumption, NEW v \in W!Within[WCount], W!Distance(v) # 0
    PROVE  \E u \in W!Within[WCount] :
               /\ W!Distance(u) = W!Distance(v) - 1 /\ W!Distance(v) \in 1 .. WCount
               /\ \E k \in DOMAIN LinksOf[u] : LinksOf[u][k] = v
<1>1. PICK d : d = W!Distance(v)
  OBVIOUS
<1>2. WCount \in Nat /\ WCount \in 0 .. WCount
  BY BCount
<1>3. d \in 1 .. WCount /\ v \in W!Within[d] /\ v \notin W!Within[d - 1]
  BY <1>1, <1>2, BDistance
<1>4. PICK u \in W!Within[d - 1] : v = u \/ \E k \in DOMAIN LinksOf[u] : LinksOf[u][k] = v
  BY <1>3, BWithinLast
<1>5. PICK k \in DOMAIN LinksOf[u] : LinksOf[u][k] = v
  BY <1>3, <1>4
<1>6. d - 1 \in 0 .. WCount /\ d - 1 \in Nat /\ d - 1 <= WCount
  BY <1>2, <1>3
<1>7. W!Distance(u) \in 0 .. d - 1 /\ u \in W!Within[W!Distance(u)]
  BY <1>6, BDistance
<1>8. W!Distance(u) = d - 1
  <2>1. PICK e : e = W!Distance(u)
    OBVIOUS
  <2> SUFFICES ASSUME e + 1 <= d - 1 PROVE FALSE
    BY <1>6, <1>7, <2>1
  <2>2. e \in Nat /\ e + 1 \in Nat /\ e + 1 <= WCount /\ u \in W!Within[e]
    BY <1>2, <1>3, <1>6, <1>7, <2>1
  <2>3. v \in W!Within[e + 1]
    BY <1>5, <2>2, BWithinNext
  <2>4. v \in W!Within[d - 1]
    BY <1>6, <2>2, <2>3, BWithinGrows
  <2> QED
    BY <1>3, <2>4
<1>9. u \in W!Within[WCount]
  BY <1>2, <1>6, BWithinGrows
<1> QED
  BY <1>1, <1>3, <1>5, <1>8, <1>9

(* A page within the depth limit is listed, or an item that is no deeper   *)
(* than its distance waits in the queue.                                   *)
LEMMA BSearched ==
    ASSUME W!CrawlerAssumption, WTypeOK, BOrdered, NEW v \in W!Within[WCount],
           opts.depth = 0 \/ W!Distance(v) <= opts.depth
    PROVE  (\E j \in DOMAIN urls : urls[j] = v) \/ \E q \in DOMAIN queue : queue[q].depth <= W!Distance(v)
<1> DEFINE Far(x, n) ==
        /\ W!Distance(x) = n /\ (opts.depth = 0 \/ n <= opts.depth)
        /\ \A j \in DOMAIN urls : urls[j] # x
        /\ \A q \in DOMAIN queue : ~(queue[q].depth <= n)
           P == {n \in Nat : \E x \in W!Within[WCount] : Far(x, n)}
<1>1. WCount \in Nat /\ WCount \in 0 .. WCount
  BY BCount
<1>2. \A x \in W!Within[WCount] : W!Distance(x) \in Nat
  BY <1>1, BDistance
<1>3. opts.depth \in Nat /\ \A q \in DOMAIN queue : queue[q].depth \in Nat
  <2>1. queue \in Seq(WItems) /\ opts \in [pages : Nat, depth : Nat]
    BY DEF WTypeOK
  <2>2. \A q \in DOMAIN queue : queue[q] \in WItems
    BY <2>1
  <2> QED
    BY <2>1, <2>2 DEF WItems
<1> SUFFICES ASSUME Far(v, W!Distance(v)) PROVE FALSE
  OBVIOUS
<1>4. W!Distance(v) \in P
  BY <1>2
<1>5. PICK m \in P : \A k \in P : m <= k
  <2> HIDE DEF P
  <2>1. P \in SUBSET Nat
    BY DEF P
  <2> QED
    BY <1>4, <2>1, LeastNat
<1>6. PICK x \in W!Within[WCount] : Far(x, m)
  BY <1>5
<1>7. m # 0
  <2> SUFFICES ASSUME m = 0 PROVE FALSE
    OBVIOUS
  <2>1. x = Root
    <3>1. x \in W!Within[0]
      BY <1>1, <1>6, BDistance
    <3> QED
      BY <3>1, BWithinLast
  <2>2. (\E j \in DOMAIN urls : urls[j] = Root) \/ (\E q \in DOMAIN queue : queue[q].depth = 0)
    BY DEF BOrdered
  <2> QED
    BY <1>6, <2>1, <2>2
<1>8. PICK u \in W!Within[WCount] :
          /\ W!Distance(u) = m - 1
          /\ \E k \in DOMAIN LinksOf[u] : LinksOf[u][k] = x
  BY <1>6, <1>7, BBefore
<1>9. m \in Nat /\ m - 1 \in Nat /\ m - 1 < m
  BY <1>5, <1>7
<1>10. ~Far(u, m - 1)
  BY <1>5, <1>8, <1>9
<1>11. PICK j \in DOMAIN urls : urls[j] = u
  BY <1>3, <1>6, <1>8, <1>9, <1>10
<1>12. BFollowed(u)
  BY <1>11 DEF BOrdered
<1>13. (\E i \in DOMAIN urls : urls[i] = x) \/ \E q \in DOMAIN queue : queue[q].depth <= W!Distance(u) + 1
  BY <1>3, <1>6, <1>8, <1>9, <1>12 DEF BFollowed
<1>14. W!Distance(u) + 1 = m
  BY <1>8, <1>9
<1> QED
  BY <1>6, <1>13, <1>14

(* The parts of two sequences that are put together.                       *)
LEMMA SeqConcat ==
    ASSUME NEW S, NEW s \in Seq(S), NEW t \in Seq(S)
    PROVE  /\ s \o t \in Seq(S) /\ Len(s) \in Nat
           /\ \A i \in DOMAIN s : i \in DOMAIN (s \o t) /\ (s \o t)[i] = s[i]
           /\ \A i \in DOMAIN t : Len(s) + i \in DOMAIN (s \o t) /\ (s \o t)[Len(s) + i] = t[i]
           /\ \A i \in DOMAIN (s \o t) :
                  \/ i \in DOMAIN s /\ (s \o t)[i] = s[i]
                  \/ i > Len(s) /\ i - Len(s) \in DOMAIN t /\ (s \o t)[i] = t[i - Len(s)]
           /\ \A i \in DOMAIN s : i \in Nat /\ i <= Len(s)
<1>1. /\ Len(s) \in Nat /\ Len(t) \in Nat /\ DOMAIN s = 1 .. Len(s) /\ DOMAIN t = 1 .. Len(t)
  BY LenProperties
<1>2. /\ s \o t \in Seq(S) /\ Len(s \o t) = Len(s) + Len(t)
      /\ \A i \in 1 .. Len(s) + Len(t) : (s \o t)[i] = IF i <= Len(s) THEN s[i] ELSE t[i - Len(s)]
  BY ConcatProperties
<1>3. DOMAIN (s \o t) = 1 .. Len(s) + Len(t)
  BY <1>2, LenProperties
<1>4. \A i \in DOMAIN s : i \in DOMAIN (s \o t) /\ (s \o t)[i] = s[i]
  BY <1>1, <1>2, <1>3
<1>5. \A i \in DOMAIN t : Len(s) + i \in DOMAIN (s \o t) /\ (s \o t)[Len(s) + i] = t[i]
  BY <1>1, <1>2, <1>3
<1>6. \A i \in DOMAIN (s \o t) :
          \/ i \in DOMAIN s /\ (s \o t)[i] = s[i]
          \/ i > Len(s) /\ i - Len(s) \in DOMAIN t /\ (s \o t)[i] = t[i - Len(s)]
  BY <1>1, <1>2, <1>3
<1> QED
  BY <1>1, <1>2, <1>4, <1>5, <1>6

(* A list of pages that are all different is no longer than there are.     *)
LEMMA BListIsShort ==
    ASSUME W!CrawlerAssumption, NEW s \in Seq(URLs), \A i, j \in DOMAIN s : s[i] = s[j] => i = j
    PROVE  Len(s) <= WCount
<1>1. Len(s) \in Nat /\ DOMAIN s = 1 .. Len(s) /\ s \in [1 .. Len(s) -> URLs]
  BY LenProperties
<1>2. IsFiniteSet(URLs) /\ IsFiniteSet(1 .. Len(s)) /\ Cardinality(1 .. Len(s)) = Len(s)
  <2>1. IsFiniteSet(URLs)
    BY BCount
  <2>2. IsFiniteSet(1 .. Len(s)) /\ Cardinality(1 .. Len(s)) = Len(s)
    <3>1. 1 \in Int /\ Len(s) \in Int /\ (1 > Len(s) => Len(s) = 0) /\ Len(s) - 1 + 1 = Len(s)
      BY <1>1
    <3> QED
      BY <3>1, FS_Interval
  <2> QED
    BY <2>1, <2>2
<1> DEFINE I == {s[i] : i \in 1 .. Len(s)}
<1>3. IsFiniteSet(I) /\ Cardinality(I) <= Cardinality(URLs)
  <2>1. I \subseteq URLs
    BY <1>1
  <2> HIDE DEF I
  <2> QED
    BY <1>2, <2>1, FS_Subset
<1>4. s \in Bijection(1 .. Len(s), I)
  <2>1. s \in [1 .. Len(s) -> I] /\ \A x \in I : \E i \in 1 .. Len(s) : s[i] = x
    BY <1>1
  <2> HIDE DEF I
  <2> QED
    BY <1>1, <2>1, Zenon DEF Bijection, Injection, Surjection, IsInjective
<1>5. Cardinality(I) = Cardinality(1 .. Len(s))
  <2>1. ExistsBijection(1 .. Len(s), I)
    <3> HIDE DEF I
    <3> QED
      BY <1>4 DEF ExistsBijection
  <2> HIDE DEF I
  <2> QED
    BY <1>2, <2>1, FS_Bijection
<1> QED
  BY <1>2, <1>3, <1>5 DEF WCount

(* What is within the limit is what a walk may list.                       *)
LEMMA BReach ==
    ASSUME W!CrawlerAssumption, WTypeOK
    PROVE  /\ \A v \in W!Reach : v \in W!Within[WCount] /\ (opts.depth = 0 \/ W!Distance(v) <= opts.depth)
           /\ \A d \in 0 .. WCount : (opts.depth = 0 \/ d <= opts.depth) => W!Within[d] \subseteq W!Reach
<1> DEFINE D == IF opts.depth = 0 \/ opts.depth > WCount THEN WCount ELSE opts.depth
<1>1. opts.depth \in Nat /\ WCount \in Nat
  BY BCount DEF WTypeOK
<1>2. W!Reach = W!Within[D]
  BY BCount, Zenon DEF W!Reach
<1>3. D \in Nat /\ D \in 0 .. WCount /\ D <= WCount /\ (opts.depth = 0 \/ D <= opts.depth)
      /\ \A d \in 0 .. WCount : (opts.depth = 0 \/ d <= opts.depth) => d <= D
  BY <1>1
<1> HIDE DEF D
<1>4. ASSUME NEW v \in W!Within[D]
      PROVE  v \in W!Within[WCount] /\ (opts.depth = 0 \/ W!Distance(v) <= opts.depth)
  <2>1. v \in W!Within[WCount]
    BY <1>1, <1>3, BWithinGrows
  <2>2. W!Distance(v) \in 0 .. D
    BY <1>3, BDistance
  <2> QED
    BY <1>1, <1>3, <2>1, <2>2
<1>5. ASSUME NEW d \in 0 .. WCount, opts.depth = 0 \/ d <= opts.depth, NEW v \in W!Within[d]
      PROVE  v \in W!Within[D]
  <2>1. d \in Nat /\ d <= D
    BY <1>3, <1>5
  <2> QED
    BY <1>3, <2>1, BWithinGrows
<1> QED
  BY <1>2, <1>4, <1>5

(* The types of the queue, the list and the options.                       *)
LEMMA BTypes ==
    ASSUME WTypeOK
    PROVE  /\ queue \in Seq(WItems) /\ urls \in Seq(URLs) /\ Len(urls) \in Nat
           /\ opts.pages \in Nat /\ opts.depth \in Nat
           /\ \A q \in DOMAIN queue :
                  q \in Nat /\ queue[q] \in WItems /\ queue[q].u \in URLs /\ queue[q].depth \in Nat
           /\ \A i \in DOMAIN urls : i \in Nat /\ urls[i] \in URLs
<1>1. queue \in Seq(WItems) /\ urls \in Seq(URLs) /\ opts \in [pages : Nat, depth : Nat]
  BY DEF WTypeOK
<1>2. /\ Len(urls) \in Nat /\ DOMAIN urls = 1 .. Len(urls)
      /\ Len(queue) \in Nat /\ DOMAIN queue = 1 .. Len(queue)
  BY <1>1, LenProperties
<1>3. \A q \in DOMAIN queue : queue[q] \in WItems
  BY <1>1
<1>4. \A x \in WItems : x.u \in URLs /\ x.depth \in Nat
  BY DEF WItems
<1>5. \A i \in DOMAIN urls : urls[i] \in URLs
  BY <1>1
<1>6. opts.pages \in Nat /\ opts.depth \in Nat
  BY <1>1
<1>7. (\A q \in DOMAIN queue : q \in Nat) /\ \A i \in DOMAIN urls : i \in Nat
  BY <1>2
<1> QED
  BY <1>1, <1>2, <1>3, <1>4, <1>5, <1>6, <1>7

(* What becomes of the queue when its head is taken out, and its links are *)
(* added or are not.                                                       *)
BQueued(head, adds) ==
    /\ \A q \in DOMAIN queue' :
           \/ \E t \in DOMAIN queue : queue'[q] = queue[t]
           \/ /\ adds /\ queue'[q].depth = head.depth + 1
              /\ \E k \in DOMAIN LinksOf[head.u] : queue'[q].u = LinksOf[head.u][k]
    /\ \A t \in DOMAIN queue : queue[t] = head \/ \E q \in DOMAIN queue' : queue'[q] = queue[t]
    /\ adds => \A k \in DOMAIN LinksOf[head.u] :
                   \/ LinksOf[head.u][k] = head.u \/ \E j \in DOMAIN urls : urls[j] = LinksOf[head.u][k]
                   \/ \E q \in DOMAIN queue' :
                          queue'[q].u = LinksOf[head.u][k] /\ queue'[q].depth = head.depth + 1
    /\ BSorted => BSorted'

(* The head of the queue is taken out.                                     *)
LEMMA BDrop ==
    ASSUME WTypeOK, queue # <<>>, queue' = Tail(queue), NEW head, head = Head(queue)
    PROVE  BQueued(head, FALSE)
<1>1. queue \in Seq(WItems)
  BY DEF WTypeOK
<1>2. /\ head = queue[1] /\ 1 \in DOMAIN queue
      /\ \A i \in DOMAIN queue' : i + 1 \in DOMAIN queue /\ queue'[i] = queue[i + 1]
      /\ \A i \in DOMAIN queue : i = 1 \/ (i - 1 \in DOMAIN queue' /\ queue'[i - 1] = queue[i])
  BY <1>1, SeqTail
<1>3. \A i \in DOMAIN queue' : i \in Int
  <2>1. queue' \in Seq(WItems)
    BY <1>1, SeqTail
  <2>2. Len(queue') \in Nat /\ DOMAIN queue' = 1 .. Len(queue')
    BY <2>1, LenProperties
  <2> QED
    BY <2>2
<1>4. BSorted => BSorted'
  <2> SUFFICES ASSUME BSorted, NEW q \in DOMAIN queue', NEW t \in DOMAIN queue'
               PROVE  queue'[t].depth <= queue'[q].depth + 1 /\ (q < t => queue'[q].depth <= queue'[t].depth)
    BY DEF BSorted
  <2>1. /\ q + 1 \in DOMAIN queue /\ t + 1 \in DOMAIN queue
        /\ queue'[q] = queue[q + 1] /\ queue'[t] = queue[t + 1]
    BY <1>2
  <2>2. q < t => q + 1 < t + 1
    BY <1>3
  <2> QED
    BY <2>1, <2>2 DEF BSorted
<1>5. \A q \in DOMAIN queue' : \E t \in DOMAIN queue : queue'[q] = queue[t]
  BY <1>2
<1>6. \A t \in DOMAIN queue : queue[t] = head \/ \E q \in DOMAIN queue' : queue'[q] = queue[t]
  BY <1>2
<1> QED
  BY <1>4, <1>5, <1>6 DEF BQueued

(* The depth of the head is the least, and no other is greater by two.     *)
LEMMA BHead ==
    ASSUME WTypeOK, queue # <<>>, BSorted, NEW t \in DOMAIN queue
    PROVE  Head(queue).depth <= queue[t].depth /\ queue[t].depth <= Head(queue).depth + 1
<1>1. queue \in Seq(WItems) /\ Len(queue) \in Nat /\ DOMAIN queue = 1 .. Len(queue)
  BY LenProperties DEF WTypeOK
<1>2. Head(queue) = queue[1] /\ 1 \in DOMAIN queue
  BY <1>1, SeqTail
<1>3. 1 < t \/ t = 1
  BY <1>1
<1>4. queue[1].depth \in Nat
  BY <1>2, BTypes
<1> QED
  BY <1>2, <1>3, <1>4 DEF BSorted

BLonger(head) == Tail(queue) \o WNewItems(head)

(* The head of the queue is taken out and its links are added.             *)
LEMMA BDropAdd ==
    ASSUME W!CrawlerAssumption, WTypeOK, queue # <<>>, NEW head, head = Head(queue),
           queue' = BLonger(head)
    PROVE  BQueued(head, TRUE)
<1> DEFINE T == Tail(queue)
           new == WNewItems(head)
<1>1. queue \in Seq(WItems) /\ \A t \in DOMAIN queue : queue[t].depth \in Nat
  BY BTypes
<1>2. /\ head \in WItems /\ head = queue[1] /\ 1 \in DOMAIN queue /\ T \in Seq(WItems)
      /\ \A i \in DOMAIN T : i + 1 \in DOMAIN queue /\ T[i] = queue[i + 1]
      /\ \A i \in DOMAIN queue : i = 1 \/ (i - 1 \in DOMAIN T /\ T[i - 1] = queue[i])
  BY <1>1, SeqTail
<1>3. /\ new \in Seq(WItems)
      /\ \A i \in DOMAIN new :
             /\ new[i].depth = head.depth + 1
             /\ \E k \in DOMAIN LinksOf[head.u] : new[i].u = LinksOf[head.u][k]
      /\ \A k \in DOMAIN LinksOf[head.u] :
             \/ LinksOf[head.u][k] = head.u \/ \E j \in DOMAIN urls : urls[j] = LinksOf[head.u][k]
             \/ \E i \in DOMAIN new : new[i].u = LinksOf[head.u][k]
  BY <1>2, WUnseen
<1> HIDE DEF T, new
<1>4. /\ Len(T) \in Nat
      /\ \A i \in DOMAIN T : i \in DOMAIN queue' /\ queue'[i] = T[i]
      /\ \A i \in DOMAIN new : Len(T) + i \in DOMAIN queue' /\ queue'[Len(T) + i] = new[i]
      /\ \A i \in DOMAIN queue' :
             \/ i \in DOMAIN T /\ queue'[i] = T[i]
             \/ i > Len(T) /\ i - Len(T) \in DOMAIN new /\ queue'[i] = new[i - Len(T)]
      /\ \A i \in DOMAIN T : i \in Nat /\ i <= Len(T)
  <2>1. queue' = T \o new
    BY DEF T, new, BLonger
  <2> QED
    BY <1>2, <1>3, <2>1, SeqConcat
<1>5. ASSUME NEW q \in DOMAIN queue'
      PROVE  \/ \E t \in DOMAIN queue : queue'[q] = queue[t]
             \/ /\ queue'[q].depth = head.depth + 1
                /\ \E k \in DOMAIN LinksOf[head.u] : queue'[q].u = LinksOf[head.u][k]
  <2>1. CASE q \in DOMAIN T /\ queue'[q] = T[q]
    BY <1>2, <2>1
  <2>2. CASE q - Len(T) \in DOMAIN new /\ queue'[q] = new[q - Len(T)]
    BY <1>3, <2>2
  <2> QED
    BY <1>4, <2>1, <2>2
<1>6. \A t \in DOMAIN queue : queue[t] = head \/ \E q \in DOMAIN queue' : queue'[q] = queue[t]
  BY <1>2, <1>4
<1>7. \A k \in DOMAIN LinksOf[head.u] :
          \/ LinksOf[head.u][k] = head.u \/ \E j \in DOMAIN urls : urls[j] = LinksOf[head.u][k]
          \/ \E q \in DOMAIN queue' : queue'[q].u = LinksOf[head.u][k] /\ queue'[q].depth = head.depth + 1
  <2> SUFFICES ASSUME NEW k \in DOMAIN LinksOf[head.u], NEW i \in DOMAIN new, new[i].u = LinksOf[head.u][k]
               PROVE  \E q \in DOMAIN queue' : queue'[q].u = LinksOf[head.u][k] /\ queue'[q].depth = head.depth + 1
    BY <1>3, Zenon
  <2>1. Len(T) + i \in DOMAIN queue' /\ queue'[Len(T) + i] = new[i] /\ new[i].depth = head.depth + 1
    BY <1>3, <1>4, Zenon
  <2> QED
    BY <2>1, Zenon
<1>8. BSorted => BSorted'
  <2> SUFFICES ASSUME BSorted, NEW q \in DOMAIN queue', NEW t \in DOMAIN queue'
               PROVE  queue'[t].depth <= queue'[q].depth + 1 /\ (q < t => queue'[q].depth <= queue'[t].depth)
    BY DEF BSorted
  <2>1. head.depth \in Nat
    BY <1>1, <1>2
  <2>0. \A d, x, y \in Nat :
            /\ x = d + 1 /\ d <= y => x <= y + 1
            /\ y = d + 1 /\ x <= d + 1 => x <= y + 1 /\ x <= y
    OBVIOUS
  <2>2. \A i \in DOMAIN T : T[i].depth \in Nat /\ head.depth <= T[i].depth /\ T[i].depth <= head.depth + 1
    BY <1>1, <1>2, BHead
  <2>3. \A i, j \in DOMAIN T : T[j].depth <= T[i].depth + 1 /\ (i < j => T[i].depth <= T[j].depth)
    <3> SUFFICES ASSUME NEW i \in DOMAIN T, NEW j \in DOMAIN T
                 PROVE  T[j].depth <= T[i].depth + 1 /\ (i < j => T[i].depth <= T[j].depth)
      OBVIOUS
    <3>1. i + 1 \in DOMAIN queue /\ j + 1 \in DOMAIN queue /\ T[i] = queue[i + 1] /\ T[j] = queue[j + 1]
          /\ (i < j => i + 1 < j + 1)
      BY <1>2, <1>4
    <3> QED
      BY <3>1 DEF BSorted
  <2>4. CASE q \in DOMAIN T /\ queue'[q] = T[q] /\ t \in DOMAIN T /\ queue'[t] = T[t]
    BY <2>3, <2>4
  <2>5. CASE q \in DOMAIN T /\ queue'[q] = T[q] /\ t - Len(T) \in DOMAIN new /\ queue'[t] = new[t - Len(T)]
    <3>1. queue'[t].depth = head.depth + 1
      BY <1>3, <2>5
    <3>2. queue'[q].depth \in Nat /\ head.depth <= queue'[q].depth /\ queue'[q].depth <= head.depth + 1
      BY <2>2, <2>5
    <3> QED
      BY <2>1, <3>1, <3>2
  <2>6. CASE q > Len(T) /\ q - Len(T) \in DOMAIN new /\ queue'[q] = new[q - Len(T)] /\ t \in DOMAIN T /\ queue'[t] = T[t]
    <3>1. queue'[q].depth = head.depth + 1
      BY <1>3, <2>6
    <3>2. queue'[t].depth \in Nat /\ queue'[t].depth <= head.depth + 1
      BY <2>2, <2>6
    <3>3. ~(q < t)
      <4>1. t \in Nat /\ t <= Len(T) /\ Len(T) \in Nat
        BY <1>4, <2>6
      <4>2. q - Len(T) \in Int /\ q \in Int
        <5>1. DOMAIN queue' = 1 .. Len(queue') /\ Len(queue') \in Nat
          BY <1>2, <1>3, SeqConcat, LenProperties DEF T, new, BLonger
        <5> QED
          BY <4>1, <5>1
      <4> QED
        BY <2>6, <4>1, <4>2
    <3> QED
      BY <2>1, <3>1, <3>2, <3>3
  <2>7. CASE /\ q - Len(T) \in DOMAIN new /\ queue'[q] = new[q - Len(T)]
             /\ t - Len(T) \in DOMAIN new /\ queue'[t] = new[t - Len(T)]
    <3>1. queue'[q].depth = head.depth + 1 /\ queue'[t].depth = head.depth + 1
      BY <1>3, <2>7
    <3> QED
      BY <2>1, <3>1
  <2> QED
    BY <1>4, <2>4, <2>5, <2>6, <2>7
<1> QED
  BY <1>5, <1>6, <1>7, <1>8 DEF BQueued

(* What a visit does: the page is passed over, or is listed, with its links*)
(* queued, without them since it is at the limit, or without them since it *)
(* could not be read.                                                      *)
LEMMA BVisitCases ==
    ASSUME W!CrawlerAssumption, WTypeOK, W!Visit, NEW head, head = Head(queue)
    PROVE  /\ queue # <<>> /\ Len(urls) < opts.pages /\ head \in WItems /\ opts' = opts
           /\ ~cancelled /\ cancelled' = cancelled /\ phase' = "bfs" /\ walked' = walked
           /\ \/ /\ BQueued(head, FALSE) /\ urls' = urls /\ missed' = missed
                 /\ \E j \in DOMAIN urls : urls[j] = head.u
              \/ /\ urls' = Append(urls, head.u) /\ \A j \in DOMAIN urls : urls[j] # head.u
                 /\ \/ BQueued(head, TRUE) /\ missed' = missed /\ W!Expandable(head)
                    \/ BQueued(head, FALSE) /\ missed' = missed /\ ~W!Expandable(head)
                    \/ BQueued(head, FALSE) /\ missed'
<1>1. queue # <<>> /\ Len(urls) < opts.pages /\ ~cancelled /\ cancelled' = cancelled /\ phase' = "bfs"
      /\ opts' = opts /\ walked' = walked
  BY DEF W!Visit
<1>2. queue \in Seq(WItems)
  BY DEF WTypeOK
<1>3. head \in WItems /\ Tail(queue) \in Seq(WItems)
  BY <1>1, <1>2, SeqTail
<1>4. Tail(queue) \o <<>> = Tail(queue)
  BY <1>3, ConcatEmptySeq
<1>5. CASE head.u \in W!ToSet(urls)
  <2>1. queue' = Tail(queue) /\ urls' = urls /\ missed' = missed
    BY <1>5 DEF W!Visit, W!AlreadyListed
  <2>2. BQueued(head, FALSE)
    BY <1>1, <2>1, BDrop
  <2>3. \E j \in DOMAIN urls : urls[j] = head.u
    BY <1>5, Zenon DEF W!ToSet
  <2> QED
    BY <1>1, <1>3, <2>1, <2>2, <2>3
<1>6. CASE head.u \notin W!ToSet(urls)
  <2>1. urls' = Append(urls, head.u)
    BY <1>6 DEF W!Visit, W!AlreadyListed
  <2>2. \A j \in DOMAIN urls : urls[j] # head.u
    BY <1>6, Zenon DEF W!ToSet
  <2>3. \/ queue' = BLonger(head) /\ missed' = missed /\ W!Expandable(head)
        \/ queue' = Tail(queue) \o <<>> /\ missed' = missed /\ ~W!Expandable(head)
        \/ queue' = Tail(queue) /\ missed'
    BY <1>6, Zenon DEF W!Visit, W!AlreadyListed, W!Enqueue, BLonger, WNewItems
  <2>4. CASE queue' = BLonger(head) /\ missed' = missed /\ W!Expandable(head)
    <3>1. BQueued(head, TRUE)
      BY <1>1, <2>4, BDropAdd
    <3> QED
      BY <1>1, <1>3, <2>1, <2>2, <2>4, <3>1
  <2>5. CASE queue' = Tail(queue) \o <<>> /\ missed' = missed /\ ~W!Expandable(head)
    <3>1. BQueued(head, FALSE)
      BY <1>1, <1>4, <2>5, BDrop
    <3> QED
      BY <1>1, <1>3, <2>1, <2>2, <2>5, <3>1
  <2>6. CASE queue' = Tail(queue) /\ missed'
    <3>1. BQueued(head, FALSE)
      BY <1>1, <2>6, BDrop
    <3> QED
      BY <1>1, <1>3, <2>1, <2>2, <2>6, <3>1
  <2> QED
    BY <2>3, <2>4, <2>5, <2>6
<1> QED
  BY <1>5, <1>6

(* An item's page is within the limit, and so are its links when they are  *)
(* followed.                                                               *)
LEMMA BItemReach ==
    ASSUME W!CrawlerAssumption, WTypeOK, BWalk, NEW q \in DOMAIN queue
    PROVE  /\ queue[q].u \in W!Reach /\ queue[q].depth \in 0 .. WCount
           /\ queue[q].u \in W!Within[WCount] /\ W!Distance(queue[q].u) \in 0 .. queue[q].depth
<1>1. queue[q].depth \in Nat /\ urls \in Seq(URLs) /\ Len(urls) \in Nat /\ WCount \in Nat
  BY BTypes, BCount
<1>2. /\ queue[q].u \in W!Within[queue[q].depth] /\ queue[q].depth <= Len(urls)
      /\ opts.depth = 0 \/ queue[q].depth <= opts.depth
  BY DEF BWalk, BItem
<1>3. Len(urls) <= WCount
  BY <1>1, BListIsShort DEF BWalk
<1>4. queue[q].depth \in 0 .. WCount
  BY <1>1, <1>2, <1>3
<1>5. queue[q].u \in W!Reach
  BY <1>2, <1>4, BReach
<1>6. queue[q].u \in W!Within[WCount]
  BY <1>5, BReach
<1>7. W!Distance(queue[q].u) \in 0 .. queue[q].depth
  BY <1>2, <1>4, BDistance
<1> QED
  BY <1>4, <1>5, <1>6, <1>7

(* The page at the head of the queue, if it is not listed yet, is as far   *)
(* away as its depth says.                                                 *)
LEMMA BHeadDistance ==
    ASSUME W!CrawlerAssumption, WTypeOK, BWalk, BOrdered, queue # <<>>, NEW head, head = Head(queue),
           \A j \in DOMAIN urls : urls[j] # head.u
    PROVE  W!Distance(head.u) = head.depth
<1>1. head = queue[1] /\ 1 \in DOMAIN queue
  BY SeqTail, BTypes
<1>2. /\ head.u \in W!Within[WCount] /\ W!Distance(head.u) \in 0 .. head.depth /\ head.depth \in Nat
      /\ opts.depth = 0 \/ head.depth <= opts.depth
  BY <1>1, BItemReach, BTypes DEF BWalk, BItem
<1>3. opts.depth = 0 \/ W!Distance(head.u) <= opts.depth
  BY <1>2, BTypes
<1>4. PICK q \in DOMAIN queue : queue[q].depth <= W!Distance(head.u)
  BY <1>2, <1>3, BSearched
<1>5. head.depth <= queue[q].depth /\ queue[q].depth \in Nat
  BY BHead, BTypes DEF BOrdered
<1> QED
  BY <1>2, <1>4, <1>5

(* A visit keeps the list within the limit, each page once.                *)
LEMMA BVisitList ==
    ASSUME W!CrawlerAssumption, WTypeOK, BWalk, W!Visit, NEW head, head = Head(queue)
    PROVE  /\ urls' \in Seq(URLs) /\ Len(urls') <= opts.pages /\ Len(urls') <= WCount /\ Len(urls) <= Len(urls')
           /\ \A i \in DOMAIN urls' : urls'[i] \in W!Reach
           /\ \A i, j \in DOMAIN urls' : urls'[i] = urls'[j] => i = j
           /\ urls' = Append(urls, head.u) =>
                  /\ Len(urls') = Len(urls) + 1 /\ DOMAIN urls' = DOMAIN urls \cup {Len(urls) + 1}
                  /\ urls'[Len(urls) + 1] = head.u /\ \A i \in DOMAIN urls : urls'[i] = urls[i] /\ i < Len(urls) + 1
<1>1. /\ urls \in Seq(URLs) /\ Len(urls) \in Nat /\ DOMAIN urls = 1 .. Len(urls) /\ opts.pages \in Nat
      /\ WCount \in Nat
  BY BTypes, BCount, LenProperties
<1>2. /\ Len(urls) < opts.pages /\ queue # <<>>
      /\ urls' = urls \/ (urls' = Append(urls, head.u) /\ \A j \in DOMAIN urls : urls[j] # head.u)
  BY BVisitCases
<1>3. head.u \in W!Reach /\ head.u \in URLs
  <2>1. head = queue[1] /\ 1 \in DOMAIN queue
    BY <1>2, SeqTail, BTypes
  <2> QED
    BY <2>1, BItemReach, BTypes
<1>4. CASE urls' = urls
  <2>1. Len(urls) <= WCount
    BY <1>1, BListIsShort DEF BWalk
  <2>2. urls # Append(urls, head.u)
    <3>1. Len(Append(urls, head.u)) = Len(urls) + 1
      BY <1>1, <1>3, AppendProperties
    <3>2. Len(urls) + 1 # Len(urls)
      <4>1. \A n \in Nat : n + 1 # n
        OBVIOUS
      <4> QED
        BY <1>1, <4>1, Zenon
    <3> QED
      BY <3>1, <3>2
  <2>3. /\ \A i \in DOMAIN urls' : urls'[i] \in W!Reach
        /\ \A i, j \in DOMAIN urls' : urls'[i] = urls'[j] => i = j
        /\ Len(urls') <= opts.pages
    BY <1>4 DEF BWalk
  <2>4. \A n \in Nat : n <= n
    OBVIOUS
  <2>5. urls' # Append(urls, head.u) /\ Len(urls) <= Len(urls') /\ Len(urls') <= WCount /\ urls' \in Seq(URLs)
    BY <1>1, <1>4, <2>1, <2>2, <2>4, Zenon
  <2> QED
    BY <2>3, <2>5, Zenon
<1>5. CASE urls' = Append(urls, head.u) /\ \A j \in DOMAIN urls : urls[j] # head.u
  <2>1. /\ urls' \in Seq(URLs) /\ DOMAIN urls' = DOMAIN urls \cup {Len(urls) + 1} /\ Len(urls) + 1 \notin DOMAIN urls
        /\ urls'[Len(urls) + 1] = head.u /\ \A i \in DOMAIN urls : urls'[i] = urls[i]
    BY <1>1, <1>3, <1>5, SeqAppend
  <2>2. Len(urls') = Len(urls) + 1
    BY <1>1, <1>3, <1>5, AppendProperties
  <2>3. \A i \in DOMAIN urls' : urls'[i] \in W!Reach
    BY <1>3, <2>1 DEF BWalk
  <2>4. \A i, j \in DOMAIN urls' : urls'[i] = urls'[j] => i = j
    BY <1>5, <2>1 DEF BWalk
  <2>5. Len(urls') <= WCount
    <3>1. PICK s : s = urls'
      OBVIOUS
    <3>2. s \in Seq(URLs) /\ \A i, j \in DOMAIN s : s[i] = s[j] => i = j
      BY <2>1, <2>4, <3>1
    <3>3. Len(s) <= WCount
      BY <3>2, BListIsShort
    <3> QED
      BY <3>1, <3>3
  <2>6. Len(urls') <= opts.pages /\ Len(urls) <= Len(urls') /\ \A i \in DOMAIN urls : i < Len(urls) + 1
    BY <1>1, <1>2, <2>2
  <2> QED
    BY <2>1, <2>2, <2>3, <2>4, <2>5, <2>6
<1> QED
  BY <1>2, <1>4, <1>5

(* A visit keeps the items true.                                           *)
LEMMA BVisitItems ==
    ASSUME W!CrawlerAssumption, WTypeOK, BWalk, W!Visit
    PROVE  \A q \in DOMAIN queue' : BItem(queue[q])'
<1>h. PICK head : head = Head(queue)
  OBVIOUS
<1>1. queue # <<>> /\ opts' = opts
  BY <1>h, BVisitCases
<1>2. head = queue[1] /\ 1 \in DOMAIN queue
  BY <1>h, <1>1, SeqTail, BTypes
<1>3. Len(urls') \in Nat /\ Len(urls) \in Nat /\ Len(urls) <= Len(urls') /\ Len(urls') <= WCount /\ WCount \in Nat
      /\ opts.depth \in Nat
  BY <1>h, BVisitList, BCount, BTypes, LenProperties
<1>4. ASSUME NEW q \in DOMAIN queue', NEW t \in DOMAIN queue, queue'[q] = queue[t] PROVE BItem(queue[q])'
  <2>1. queue[t].depth \in Nat
    BY BTypes
  <2>2. /\ queue[t].u \in W!Within[queue[t].depth] /\ queue[t].depth <= Len(urls)
        /\ opts.depth = 0 \/ queue[t].depth <= opts.depth
    BY DEF BWalk, BItem
  <2>3. queue[t].depth <= Len(urls')
    BY <1>3, <2>1, <2>2
  <2> QED
    BY <1>1, <1>4, <2>2, <2>3 DEF BItem
<1>5. ASSUME NEW q \in DOMAIN queue', BQueued(head, TRUE), W!Expandable(head), urls' = Append(urls, head.u),
             queue'[q].depth = head.depth + 1,
             NEW k \in DOMAIN LinksOf[head.u], queue'[q].u = LinksOf[head.u][k]
      PROVE  BItem(queue[q])'
  <2>1. /\ head.u \in W!Within[head.depth] /\ head.depth <= Len(urls) /\ head.depth \in Nat
    BY <1>2, BTypes DEF BWalk, BItem
  <2>2. Len(urls') = Len(urls) + 1
    BY <1>h, <1>5, BVisitList
  <2>3. head.depth + 1 <= Len(urls') /\ head.depth + 1 <= WCount
    BY <1>3, <2>1, <2>2
  <2>4. queue'[q].u \in W!Within[head.depth + 1]
    BY <1>5, <2>1, <2>3, BWithinNext
  <2>5. opts.depth = 0 \/ head.depth + 1 <= opts.depth
    BY <1>3, <1>5, <2>1 DEF W!Expandable
  <2> QED
    BY <1>1, <1>5, <2>3, <2>4, <2>5 DEF BItem
<1>6. ASSUME NEW q \in DOMAIN queue' PROVE BItem(queue[q])'
  <2>1. CASE BQueued(head, FALSE)
    BY <1>4, <2>1 DEF BQueued
  <2>2. CASE BQueued(head, TRUE) /\ W!Expandable(head) /\ urls' = Append(urls, head.u)
    BY <1>4, <1>5, <2>2 DEF BQueued
  <2> QED
    BY <1>h, <2>1, <2>2, BVisitCases
<1> QED
  BY <1>6

(* What was followed stays followed when the head, which is listed now, is *)
(* taken out of the queue.                                                 *)
LEMMA BFollowedStays ==
    ASSUME NEW v, BFollowed(v), NEW head, NEW adds, BQueued(head, adds), opts' = opts,
           \A j \in DOMAIN urls : j \in DOMAIN urls' /\ urls'[j] = urls[j],
           \E j \in DOMAIN urls' : urls'[j] = head.u
    PROVE  BFollowed(v)'
<1> SUFFICES ASSUME opts.depth = 0 \/ W!Distance(v) < opts.depth, NEW k \in DOMAIN LinksOf[v]
             PROVE  \/ \E j \in DOMAIN urls' : urls'[j] = LinksOf[v][k]
                    \/ \E q \in DOMAIN queue' :
                           queue'[q].u = LinksOf[v][k] /\ queue'[q].depth <= W!Distance(v) + 1
  BY DEF BFollowed
<1>1. CASE \E j \in DOMAIN urls : urls[j] = LinksOf[v][k]
  BY <1>1, Zenon
<1>2. ASSUME NEW q \in DOMAIN queue, queue[q].u = LinksOf[v][k], queue[q].depth <= W!Distance(v) + 1
      PROVE  \/ \E j \in DOMAIN urls' : urls'[j] = LinksOf[v][k]
             \/ \E t \in DOMAIN queue' :
                    queue'[t].u = LinksOf[v][k] /\ queue'[t].depth <= W!Distance(v) + 1
  <2>1. queue[q] = head \/ \E t \in DOMAIN queue' : queue'[t] = queue[q]
    BY DEF BQueued
  <2> QED
    BY <1>2, <2>1
<1> QED
  BY <1>1, <1>2 DEF BFollowed

(* A visit keeps the order.                                                *)
LEMMA BVisitOrder ==
    ASSUME W!CrawlerAssumption, WTypeOK, BWalk, W!Visit, ~missed'
    PROVE  BOrdered'
<1>h. PICK head : head = Head(queue)
  OBVIOUS
<1>1. /\ queue # <<>> /\ opts' = opts
      /\ \/ /\ BQueued(head, FALSE) /\ urls' = urls /\ missed' = missed
            /\ \E j \in DOMAIN urls : urls[j] = head.u
         \/ /\ urls' = Append(urls, head.u) /\ \A j \in DOMAIN urls : urls[j] # head.u
            /\ \/ BQueued(head, TRUE) /\ missed' = missed /\ W!Expandable(head)
               \/ BQueued(head, FALSE) /\ missed' = missed /\ ~W!Expandable(head)
  BY <1>h, BVisitCases
<1>2. head = queue[1] /\ 1 \in DOMAIN queue
  BY <1>h, <1>1, SeqTail, BTypes
<1>3. BOrdered
  <2>1. missed' = missed
    BY <1>1
  <2>2. ~missed
    BY <2>1, Zenon
  <2> QED
    BY <2>2 DEF BWalk
<1>4. PICK adds \in BOOLEAN : BQueued(head, adds)
  BY <1>1
<1>5. /\ \A j \in DOMAIN urls : j \in DOMAIN urls' /\ urls'[j] = urls[j]
      /\ \E j \in DOMAIN urls' : urls'[j] = head.u
      /\ \A i \in DOMAIN urls' : i \in DOMAIN urls \/ urls'[i] = head.u
  <2>1. CASE urls' = urls /\ \E j \in DOMAIN urls : urls[j] = head.u
    BY <2>1
  <2>2. CASE urls' = Append(urls, head.u)
    BY <1>h, <2>2, BVisitList
  <2> QED
    BY <1>1, <2>1, <2>2
<1>6. BItem(head) /\ head.depth \in Nat /\ W!Distance(head.u) \in 0 .. head.depth
  BY <1>2, BItemReach, BTypes DEF BWalk
<1>7. \A i \in DOMAIN urls : W!Distance(urls[i]) \in Nat
  <2>1. \A i \in DOMAIN urls : urls[i] \in W!Within[WCount]
    BY BReach DEF BWalk
  <2>2. WCount \in 0 .. WCount
    BY BCount
  <2> QED
    BY <2>1, <2>2, BDistance
<1>8. (\E j \in DOMAIN urls' : urls'[j] = Root) \/ (\E q \in DOMAIN queue' : queue'[q].depth = 0)
  <2>1. CASE \E j \in DOMAIN urls : urls[j] = Root
    BY <1>5, <2>1
  <2>2. ASSUME NEW q \in DOMAIN queue, queue[q].depth = 0
        PROVE  (\E j \in DOMAIN urls' : urls'[j] = Root) \/ (\E t \in DOMAIN queue' : queue'[t].depth = 0)
    <3>1. CASE queue[q] = head
      <4>1. head.u \in W!Within[0]
        BY <1>6, <2>2, <3>1 DEF BItem
      <4>2. head.u = Root
        BY <4>1, BWithinLast
      <4> QED
        BY <1>5, <4>2
    <3>2. CASE \E t \in DOMAIN queue' : queue'[t] = queue[q]
      BY <2>2, <3>2
    <3> QED
      BY <1>4, <3>1, <3>2 DEF BQueued
  <2> QED
    BY <1>3, <2>1, <2>2 DEF BOrdered
<1>9. \A i \in DOMAIN urls' : BFollowed(urls[i])'
  <2> SUFFICES ASSUME NEW i \in DOMAIN urls', NEW v, v = urls'[i] PROVE BFollowed(v)'
    BY DEF BFollowed
  <2>1. CASE i \in DOMAIN urls
    <3>1. BFollowed(v)
      <4>1. v = urls[i]
        BY <1>5, <2>1
      <4> QED
        BY <1>3, <2>1, <4>1 DEF BOrdered
    <3> QED
      BY <1>1, <1>4, <1>5, <3>1, BFollowedStays
  <2>2. CASE i \notin DOMAIN urls /\ BQueued(head, TRUE)
    <3>1. v = head.u
      BY <1>5, <2>2
    <3>2. W!Distance(v) = head.depth
      <4>1. \A j \in DOMAIN urls : urls[j] # head.u
        BY <1>1, <2>2
      <4> QED
        BY <1>h, <1>1, <1>3, <3>1, <4>1, BHeadDistance
    <3>3. \A k \in DOMAIN LinksOf[head.u] :
              \/ LinksOf[head.u][k] = head.u \/ \E j \in DOMAIN urls : urls[j] = LinksOf[head.u][k]
              \/ \E q \in DOMAIN queue' :
                     queue'[q].u = LinksOf[head.u][k] /\ queue'[q].depth = head.depth + 1
      BY <2>2 DEF BQueued
    <3>4. \A k \in DOMAIN LinksOf[v] :
              \/ \E j \in DOMAIN urls' : urls'[j] = LinksOf[v][k]
              \/ \E q \in DOMAIN queue' : queue'[q].u = LinksOf[v][k] /\ queue'[q].depth <= W!Distance(v) + 1
      <4> SUFFICES ASSUME NEW k \in DOMAIN LinksOf[v], \A j \in DOMAIN urls' : urls'[j] # LinksOf[v][k]
                   PROVE  \E q \in DOMAIN queue' :
                              queue'[q].u = LinksOf[v][k] /\ queue'[q].depth <= W!Distance(v) + 1
        OBVIOUS
      <4>1. PICK q \in DOMAIN queue' : queue'[q].u = LinksOf[v][k] /\ queue'[q].depth = head.depth + 1
        BY <1>5, <3>1, <3>3
      <4>2. head.depth + 1 <= head.depth + 1
        BY <1>6
      <4> QED
        BY <3>2, <4>1, <4>2
    <3> QED
      BY <3>4 DEF BFollowed
  <2>3. CASE i \notin DOMAIN urls /\ ~BQueued(head, TRUE)
    <3>1. v = head.u
      BY <1>5, <2>3
    <3>2. W!Distance(v) = head.depth
      <4>1. \A j \in DOMAIN urls : urls[j] # head.u
        BY <1>1, <2>3
      <4> QED
        BY <1>h, <1>1, <1>3, <3>1, <4>1, BHeadDistance
    <3>3. ~W!Expandable(head)
      BY <1>1, <2>3
    <3> QED
      BY <1>1, <3>2, <3>3 DEF BFollowed, W!Expandable
  <2> QED
    BY <2>1, <2>2, <2>3
<1>10. BSorted'
  BY <1>3, <1>4 DEF BOrdered, BQueued
<1>11. \A i \in DOMAIN urls : W!Distance(urls[i]) <= head.depth
  BY <1>2, <1>3 DEF BOrdered
<1>12. \A i, j \in DOMAIN urls' : i < j => W!Distance(urls'[i]) <= W!Distance(urls'[j])
  <2>1. CASE urls' = urls
    BY <1>3, <2>1 DEF BOrdered
  <2>2. CASE urls' = Append(urls, head.u) /\ \A j \in DOMAIN urls : urls[j] # head.u
    <3>1. W!Distance(head.u) = head.depth
      BY <1>h, <1>1, <1>3, <2>2, BHeadDistance
    <3>2. /\ DOMAIN urls' = DOMAIN urls \cup {Len(urls) + 1} /\ urls'[Len(urls) + 1] = head.u
          /\ \A i \in DOMAIN urls : urls'[i] = urls[i] /\ i < Len(urls) + 1
      BY <1>h, <2>2, BVisitList
    <3> SUFFICES ASSUME NEW i \in DOMAIN urls', NEW j \in DOMAIN urls', i < j
                 PROVE  W!Distance(urls'[i]) <= W!Distance(urls'[j])
      OBVIOUS
    <3>3. i \in DOMAIN urls
      <4>1. Len(urls) \in Nat /\ \A x \in DOMAIN urls : x \in Nat
        BY BTypes
      <4>2. i # Len(urls) + 1
        BY <3>2, <4>1
      <4> QED
        BY <3>2, <4>2
    <3>4. CASE j \in DOMAIN urls
      BY <1>3, <3>2, <3>3, <3>4 DEF BOrdered
    <3>5. CASE j = Len(urls) + 1
      BY <1>11, <3>1, <3>2, <3>3, <3>5
    <3> QED
      BY <3>2, <3>4, <3>5
  <2> QED
    BY <1>1, <2>1, <2>2
<1>13. ASSUME NEW i \in DOMAIN urls', NEW q \in DOMAIN queue' PROVE W!Distance(urls'[i]) <= queue'[q].depth
  <2>1. W!Distance(urls'[i]) \in Nat /\ W!Distance(urls'[i]) <= head.depth
    BY <1>5, <1>6, <1>7, <1>11
  <2>2. CASE \E t \in DOMAIN queue : queue'[q] = queue[t]
    <3>1. PICK t \in DOMAIN queue : queue'[q] = queue[t]
      BY <2>2
    <3>2. head.depth <= queue[t].depth /\ queue[t].depth \in Nat
      BY <1>h, <1>1, <1>3, BHead, BTypes DEF BOrdered
    <3>3. \A x, y, z \in Nat : x <= y /\ y <= z => x <= z
      OBVIOUS
    <3> QED
      BY <1>6, <2>1, <3>1, <3>2, <3>3
  <2>3. CASE queue'[q].depth = head.depth + 1
    BY <1>6, <2>1, <2>3
  <2> QED
    BY <1>4, <2>2, <2>3 DEF BQueued
<1> QED
  BY <1>8, <1>9, <1>10, <1>12, <1>13 DEF BOrdered

(* A visit keeps all of it.                                                *)
LEMMA BVisit == ASSUME W!CrawlerAssumption, WTypeOK, BWalk, W!Visit PROVE BWalk'
<1>h. PICK head : head = Head(queue)
  OBVIOUS
<1>1. opts' = opts /\ ~cancelled /\ cancelled' = cancelled
  BY <1>h, BVisitCases
<1>2. /\ \A i \in DOMAIN urls' : urls'[i] \in W!Reach
      /\ \A i, j \in DOMAIN urls' : urls'[i] = urls'[j] => i = j
      /\ Len(urls') <= opts.pages
  BY <1>h, BVisitList
<1>3. W!Reach' = W!Reach
  BY <1>1 DEF W!Reach
<1>4. ~cancelled'
  BY <1>1, Zenon
<1>5. \A q \in DOMAIN queue' : BItem(queue[q])'
  BY BVisitItems
<1>6. ~missed' => BOrdered'
  BY BVisitOrder
<1> QED
  BY <1>1, <1>2, <1>3, <1>4, <1>5, <1>6 DEF BWalk

(* A walk begins at the root.                                              *)
LEMMA BBegins ==
    ASSUME W!CrawlerAssumption, WTypeOK', urls' = <<>>, queue' = <<[u |-> Root, depth |-> 0]>>,
           cancelled' => missed'
    PROVE  BWalk'
<1>1. DOMAIN urls' = {} /\ Len(urls') = 0 /\ opts'.pages \in Nat /\ opts'.depth \in Nat
  <2>1. opts' \in [pages : Nat, depth : Nat]
    BY DEF WTypeOK
  <2> QED
    BY <2>1
<1>2. DOMAIN queue' = {1} /\ queue'[1].u = Root /\ queue'[1].depth = 0
  OBVIOUS
<1>3. \A q \in DOMAIN queue' : BItem(queue[q])'
  <2>1. Root \in W!Within[0]
    BY BWithinLast
  <2>2. 0 <= Len(urls') /\ 0 <= opts'.depth
    BY <1>1
  <2> QED
    BY <1>2, <2>1, <2>2 DEF BItem
<1>4. BOrdered'
  <2>1. BSorted'
    <3>1. \A q, t \in DOMAIN queue' : q = 1 /\ t = 1
      BY <1>2
    <3>2. 0 <= 0 + 1 /\ 0 <= 0
      OBVIOUS
    <3> QED
      BY <1>2, <3>1, <3>2 DEF BSorted
  <2>2. \E q \in DOMAIN queue' : queue'[q].depth = 0
    BY <1>2
  <2> QED
    BY <1>1, <2>1, <2>2 DEF BOrdered
<1> QED
  BY <1>1, <1>3, <1>4 DEF BWalk

(* When the walk ends the list is what it promises.                        *)
LEMMA BEnds ==
    ASSUME W!CrawlerAssumption, WTypeOK, BWalk, W!BfsEnds
    PROVE  /\ W!ToSet(urls) \subseteq W!Reach
           /\ \A i, j \in DOMAIN urls : urls[i] = urls[j] => i = j
           /\ Len(urls) <= opts.pages
           /\ ~missed =>
               /\ Len(urls) < opts.pages => W!ToSet(urls) = W!Reach
               /\ \A i, j \in DOMAIN urls : i < j => W!Distance(urls[i]) <= W!Distance(urls[j])
<1>1. W!ToSet(urls) \subseteq W!Reach
  BY DEF W!ToSet, BWalk
<1>2. ASSUME ~missed, Len(urls) < opts.pages, NEW v \in W!Reach PROVE v \in W!ToSet(urls)
  <2>1. queue = <<>>
    <3>1. ~cancelled
      BY <1>2 DEF BWalk
    <3>2. ~(Len(urls) >= opts.pages)
      BY <1>2, BTypes
    <3> QED
      BY <3>1, <3>2 DEF W!BfsEnds
  <2>2. v \in W!Within[WCount] /\ (opts.depth = 0 \/ W!Distance(v) <= opts.depth)
    BY BReach
  <2>3. BOrdered
    BY <1>2 DEF BWalk
  <2>4. \A q \in DOMAIN queue : FALSE
    BY <2>1
  <2>5. \E j \in DOMAIN urls : urls[j] = v
    BY <2>2, <2>3, <2>4, BSearched
  <2> QED
    BY <2>5 DEF W!ToSet
<1>3. ~missed => \A i, j \in DOMAIN urls : i < j => W!Distance(urls[i]) <= W!Distance(urls[j])
  BY DEF BWalk, BOrdered
<1> QED
  BY <1>1, <1>2, <1>3 DEF BWalk

(* The cap leaves a walk's list as it is.                                  *)
LEMMA BCapped ==
    ASSUME WTypeOK, W!Listed(urls), Len(urls) <= opts.pages
    PROVE  urls' = urls
<1>1. urls \in Seq(URLs) /\ Len(urls) \in Nat /\ DOMAIN urls = 1 .. Len(urls) /\ opts \in [pages : Nat, depth : Nat]
  BY BTypes, LenProperties DEF WTypeOK
<1>2. /\ urls' \in Seq(URLs) /\ DOMAIN urls' \subseteq DOMAIN urls
      /\ \A i \in DOMAIN urls' : urls'[i] = urls[i]
      /\ Len(urls') = IF Len(urls) <= opts.pages THEN Len(urls) ELSE opts.pages
  BY <1>1, WListed
<1>3. Len(urls') = Len(urls) /\ DOMAIN urls' = 1 .. Len(urls)
  BY <1>1, <1>2, LenProperties
<1>4. \A i \in 1 .. Len(urls) : urls'[i] = urls[i]
  BY <1>2, <1>3
<1> QED
  BY <1>1, <1>2, <1>3, <1>4, SeqEqual

(* The invariant of the walk is inductive.                                 *)
LEMMA BStep ==
    ASSUME W!CrawlerAssumption, WInv, WInv', BInv, [W!Next]_(W!vars)
    PROVE  BInv'
<1>1. WTypeOK /\ WTypeOK'
  BY DEF WInv
<1>2. ASSUME phase' \notin {"sitemap", "bfs", "fetch"} PROVE BInv'
  BY <1>2 DEF BInv, W!WalkIsBreadthFirst
<1>3. ASSUME UNCHANGED <<phase, opts, queue, urls, cancelled, missed, walked>> PROVE BInv'
  BY <1>3 DEF BInv, BWalk, BItem, BOrdered, BFollowed, BSorted, W!Reach, W!WalkIsBreadthFirst
<1>4. CASE \E u \in URLs, t \in Texts : W!EditPage(u, t) /\ UNCHANGED W!indexVars
  BY <1>3, <1>4 DEF W!EditPage, W!crawlVars
<1>5. CASE \E l \in Limits, s, f \in BOOLEAN : W!IndexURL(l[1], l[2], s, f)
  <2>1. PICK l \in Limits, s \in BOOLEAN, f \in BOOLEAN : W!IndexURL(l[1], l[2], s, f)
    BY <1>5
  <2>2. /\ urls' = <<>> /\ ~cancelled' /\ walked' = s
        /\ opts' = [pages |-> IF l[1] = 0 THEN NoLimit ELSE l[1], depth |-> l[2]]
        /\ IF s THEN phase' = "bfs" /\ queue' = <<[u |-> Root, depth |-> 0]>> ELSE phase' = "sitemap"
    BY <2>1 DEF W!IndexURL, W!Crawl
  <2>3. opts'.pages >= 1
    <3>1. l[1] \in Nat /\ NoLimit \in Nat \ {0}
      BY DEF W!CrawlerAssumption
    <3> QED
      BY <2>2, <3>1
  <2>4. phase' = "bfs" => BWalk'
    <3>1. phase' = "bfs" => queue' = <<[u |-> Root, depth |-> 0]>>
      BY <2>2
    <3> QED
      BY <1>1, <2>2, <3>1, BBegins
  <2>5. phase' = "sitemap" => ~walked' /\ ~cancelled'
    BY <2>2
  <2>6. phase' # "fetch"
    BY <2>2
  <2> QED
    BY <2>3, <2>4, <2>5, <2>6 DEF BInv, W!WalkIsBreadthFirst
<1>6. CASE W!TryCandidate
  <2>1. /\ phase = "sitemap" /\ urls' = urls /\ opts' = opts /\ urls = <<>> /\ cancelled' = cancelled
        /\ \/ phase' = phase /\ walked' = walked /\ missed' = missed
           \/ phase' = "bfs" /\ walked' /\ missed' = cancelled /\ queue' = <<[u |-> Root, depth |-> 0]>>
    BY <1>6 DEF W!TryCandidate
  <2>2. CASE phase' = phase /\ walked' = walked /\ missed' = missed
    BY <2>1, <2>2 DEF BInv, W!WalkIsBreadthFirst
  <2>3. CASE phase' = "bfs" /\ missed' = cancelled /\ queue' = <<[u |-> Root, depth |-> 0]>>
    <3>1. cancelled' => missed'
      BY <2>1, <2>3
    <3>2. BWalk'
      BY <1>1, <2>1, <2>3, <3>1, BBegins
    <3> QED
      BY <2>1, <2>3, <3>2 DEF BInv, W!WalkIsBreadthFirst
  <2> QED
    BY <2>1, <2>2, <2>3
<1>7. CASE W!ParseSitemap
  <2>1. /\ phase = "sitemap" /\ phase' = phase /\ opts' = opts /\ walked' = walked /\ cancelled' = cancelled
        /\ missed' = missed \/ missed'
    BY <1>7 DEF W!ParseSitemap
  <2> QED
    BY <2>1 DEF BInv, W!WalkIsBreadthFirst
<1>8. CASE W!SitemapFound
  <2>1. phase = "sitemap" /\ phase' = "fetch" /\ opts' = opts /\ walked' = walked
    BY <1>8 DEF W!SitemapFound, W!Listed
  <2> QED
    BY <2>1 DEF BInv, W!WalkIsBreadthFirst
<1>9. CASE W!Visit
  <2>1. phase = "bfs" /\ phase' = "bfs" /\ opts' = opts
    BY <1>9 DEF W!Visit
  <2>2. BWalk'
    BY <1>1, <1>9, <2>1, BVisit DEF BInv
  <2> QED
    BY <2>1, <2>2 DEF BInv, W!WalkIsBreadthFirst
<1>10. CASE W!BfsEnds
  <2>1. phase = "bfs" /\ phase' = "fetch" /\ opts' = opts /\ missed' = missed /\ W!Listed(urls)
    BY <1>10 DEF W!BfsEnds, W!Listed
  <2>2. BWalk
    BY <2>1 DEF BInv
  <2>3. urls' = urls
    BY <1>1, <2>1, <2>2, BCapped DEF BWalk
  <2>4. W!Reach' = W!Reach
    BY <2>1 DEF W!Reach
  <2>5. W!IsInjective(urls) <=> \A i, j \in DOMAIN urls : urls[i] = urls[j] => i = j
    BY DEF W!IsInjective
  <2>6. W!WalkIsBreadthFirst'
    BY <1>1, <1>10, <2>1, <2>2, <2>3, <2>4, <2>5, BEnds DEF W!WalkIsBreadthFirst, W!ToSet, W!IsInjective
  <2> QED
    BY <2>1, <2>6 DEF BInv
<1>11. CASE \E i \in DOMAIN urls : W!Fetch(i)
  <2>1. phase = "fetch" /\ phase' = phase /\ opts' = opts /\ urls' = urls /\ missed' = missed /\ walked' = walked
    BY <1>11 DEF W!Fetch
  <2> QED
    BY <2>1 DEF BInv, W!WalkIsBreadthFirst, W!Reach
<1>12. CASE W!FetchesEnd
  BY <1>2, <1>12 DEF W!FetchesEnd
<1>13. CASE W!Cancel
  <2>1. /\ phase' = phase /\ phase \in {"sitemap", "bfs"} /\ opts' = opts /\ queue' = queue /\ urls' = urls
        /\ walked' = walked /\ missed'
    BY <1>13 DEF W!Cancel
  <2>2. phase = "bfs" => BWalk'
    BY <2>1 DEF BInv, BWalk, BItem, W!Reach
  <2> QED
    BY <2>1, <2>2 DEF BInv, W!WalkIsBreadthFirst
<1>14. CASE W!Crawled
  <2>1. phase' \in {"idle", "index"}
    BY <1>14 DEF W!Crawled
  <2> QED
    BY <1>2, <2>1
<1>15. CASE \E i \in DOMAIN pages : W!IndexPage(i)
  BY <1>3, <1>15 DEF W!IndexPage, W!RestUnchanged, W!crawlVars
<1>16. CASE W!Return
  BY <1>2, <1>16 DEF W!Return
<1>17. CASE UNCHANGED W!vars
  BY <1>3, <1>17 DEF W!vars, W!crawlVars
<1> QED
  BY <1>4, <1>5, <1>6, <1>7, <1>8, <1>9, <1>10, <1>11, <1>12, <1>13, <1>14, <1>15, <1>16, <1>17
     DEF W!Next, W!CrawlStep

(* The two invariants together.                                            *)
WebInv == WInv /\ BInv

(* What is proved of the crawl and of the rows holds at the start and is kept *)
(* by every step.                                                           *)
LEMMA WebInductive ==
    ASSUME W!CrawlerAssumption
    PROVE  (W!Init => WebInv) /\ (WebInv /\ [W!Next]_(W!vars) => WebInv')
<1>1. W!Init => BInv
  BY DEF W!Init, W!CrawlInit, BInv, W!WalkIsBreadthFirst
<1> QED
  BY <1>1, WInit, WStep, BStep DEF WebInv

(* A crawl without a sitemap returns pages that are linked from the root, each *)
(* once and within its limits; if it could read every page it asked for, they *)
(* are all of them unless the page limit ended it, and nearer ones come first *)
(* (internal/crawler, crawl).                                               *)
THEOREM CrawlWalkIsBreadthFirst == W!Spec => []WalkIsBreadthFirst
<1>1. WebInv => WalkIsBreadthFirst
  BY DEF WebInv, BInv, WalkIsBreadthFirst
<1>2. W!CrawlerAssumption
  BY OuterAssumption
<1>3. (W!Init => WebInv) /\ (WebInv /\ [W!Next]_(W!vars) => WebInv')
  BY <1>2, WebInductive
<1> QED
  BY <1>1, <1>3, PTL DEF W!Spec

=============================================================================
