--------------------------- MODULE InstallerProof ---------------------------
(***************************************************************************)
(* The installer leaves the user's settings file sound: for any number of  *)
(* commands and saves by the user, interleaved and interrupted anywhere,   *)
(* any hooks of the user's, any pipelines' needs and any file to start     *)
(* with.                                                                   *)
(*                                                                         *)
(* A file is told by what it runs, `Fires', and by where it routes to.     *)
(* Each operator on the file is a lemma of what it does to these two, and  *)
(* the steps use those lemmas only.                                        *)
(***************************************************************************)
EXTENDS Installer, FiniteSetTheorems, TLAPS

Urls == {"unset", "ptk", "foreign"}

Arrays == UNION {[S -> Groups] : S \in SUBSET Nat}

SettingsFiles == [groups : Arrays, url : Urls]

\* The file s runs the hook h on the event e.
Fires(s, e, h) == \E i \in DOMAIN s.groups : s.groups[i].event = e /\ h \in s.groups[i].hooks

\* What every file and every copy of one is.
Wellformed(s) == SettingsOK(s) /\ OwnedOnce(s) /\ LegacyInPre(s)

LEMMA GroupFields ==
    ASSUME NEW g \in Groups
    PROVE  /\ g.event \in HookEvents /\ g.matcher \in Matchers
           /\ g.hooks \subseteq OwnedHooks \cup OwnHooks /\ g.hooks # {}
  <1> DEFINE H == (SUBSET (OwnedHooks \cup OwnHooks)) \ {{}}
  <1>1. g \in [event : HookEvents, matcher : Matchers, hooks : H]
    BY DEF Groups
  <1> HIDE DEF H
  <1>2. g.event \in HookEvents /\ g.matcher \in Matchers /\ g.hooks \in H
    BY <1>1
  <1>3. \A x \in H : x \subseteq OwnedHooks \cup OwnHooks /\ x # {}
    BY DEF H
  <1> QED
    BY <1>2, <1>3

LEMMA SettingsAreFiles ==
    ASSUME NEW s
    PROVE  SettingsOK(s) <=> s \in SettingsFiles /\ IsFiniteSet(DOMAIN s.groups)
  <1>1. ASSUME SettingsOK(s) PROVE s \in SettingsFiles /\ IsFiniteSet(DOMAIN s.groups)
    <2>1. s \in [groups : [DOMAIN s.groups -> Groups], url : Urls]
          /\ IsFiniteSet(DOMAIN s.groups) /\ DOMAIN s.groups \subseteq Nat
      BY <1>1 DEF SettingsOK, Urls
    <2>2. s.groups \in Arrays
      BY <2>1 DEF Arrays
    <2> QED
      BY <2>1, <2>2 DEF SettingsFiles
  <1>2. ASSUME s \in SettingsFiles, IsFiniteSet(DOMAIN s.groups) PROVE SettingsOK(s)
    <2>1. PICK S \in SUBSET Nat : s.groups \in [S -> Groups]
      BY <1>2 DEF SettingsFiles, Arrays
    <2>2. DOMAIN s.groups = S
      BY <2>1
    <2> QED
      BY <1>2, <2>1, <2>2 DEF SettingsFiles, SettingsOK, Urls
  <1> QED
    BY <1>1, <1>2

\* What PTK has in a file, and whether it is an older one's.
LEMMA OwnedFires ==
    ASSUME NEW s
    PROVE  /\ \A e : Present(s, e) <=> \E h \in OwnedHooks : Fires(s, e, h)
           /\ Old(s) <=> \E e : Fires(s, e, "legacy")
  BY DEF Present, Old, Fires, GroupsOf

LEMMA HasOwnedFires ==
    ASSUME NEW s, SettingsOK(s)
    PROVE  HasOwned(s) <=> s.url = "ptk" \/ \E e : \E h \in OwnedHooks : Fires(s, e, h)
  <1>1. \A i \in DOMAIN s.groups : s.groups[i].event \in HookEvents
    BY DEF SettingsOK, Groups
  <1>2. \A e, h : Fires(s, e, h) => e \in HookEvents
    BY <1>1 DEF Fires
  <1>3. \A e : Present(s, e) <=> \E h \in OwnedHooks : Fires(s, e, h)
    BY OwnedFires
  <1> QED
    BY <1>2, <1>3 DEF HasOwned

\* Files that run the same hooks of the user have the same part of theirs.
LEMMA SameOwnHooks ==
    ASSUME NEW s, NEW t, \A e : \A h \in OwnHooks : Fires(s, e, h) <=> Fires(t, e, h)
    PROVE  OwnPart(s).hooks = OwnPart(t).hooks
  <1> DEFINE Own(r) == UNION {{g.event} \X (g.hooks \cap OwnHooks) : g \in GroupsOf(r)}
  <1>1. \A r, x : x \in Own(r) <=> \E e : \E h \in OwnHooks : Fires(r, e, h) /\ x = <<e, h>>
    BY DEF GroupsOf, Fires
  <1>2. Own(s) = Own(t)
    BY <1>1
  <1> QED
    BY <1>2 DEF OwnPart

LEMMA SameOwnPart ==
    ASSUME NEW s, NEW t,
           \A e : \A h \in OwnHooks : Fires(s, e, h) <=> Fires(t, e, h),
           (s.url = "foreign") = (t.url = "foreign")
    PROVE  OwnPart(s) = OwnPart(t)
  BY SameOwnHooks DEF OwnPart

(***************************************************************************)
(* What the operators on the file do                                       *)
(***************************************************************************)

\* A finite set of places leaves one free.
LEMMA FreePlace ==
    ASSUME NEW S, IsFiniteSet(S)
    PROVE  \E n \in 1 .. Cardinality(S) + 1 : n \notin S
  <1> SUFFICES ASSUME 1 .. Cardinality(S) + 1 \subseteq S PROVE FALSE
    OBVIOUS
  <1>1. Cardinality(S) \in Nat
    BY FS_CardinalityType
  <1>2. Cardinality(1 .. Cardinality(S) + 1) = Cardinality(S) + 1
    BY <1>1, FS_Interval
  <1>3. Cardinality(1 .. Cardinality(S) + 1) <= Cardinality(S)
    BY FS_Subset
  <1> QED
    BY <1>1, <1>2, <1>3

\* The array new is old with one more place, n, where g is.
OneMore(new, old, g, n) ==
    /\ n \in Nat /\ n \notin DOMAIN old
    /\ DOMAIN new = DOMAIN old \cup {n} /\ IsFiniteSet(DOMAIN new)
    /\ new[n] = g
    /\ \A i \in DOMAIN old : new[i] = old[i]
    /\ g \in Groups => new \in Arrays

LEMMA PushedArray ==
    ASSUME NEW s, SettingsOK(s), NEW g
    PROVE  \E n : OneMore(Pushed(s.groups, g), s.groups, g, n)
  <1> DEFINE S == DOMAIN s.groups
             n == CHOOSE m \in 1 .. Cardinality(S) + 1 : m \notin S
             new == [i \in S \cup {n} |-> IF i = n THEN g ELSE s.groups[i]]
  <1>1. IsFiniteSet(S) /\ S \subseteq Nat /\ s.groups \in [S -> Groups]
    BY DEF SettingsOK
  <1>2. n \in 1 .. Cardinality(S) + 1 /\ n \notin S
    BY <1>1, FreePlace
  <1>3. n \in Nat
    BY <1>1, <1>2, FS_CardinalityType
  <1>4. Pushed(s.groups, g) = new
    BY DEF Pushed
  <1>5. IsFiniteSet(S \cup {n})
    BY <1>1, FS_AddElement
  <1> HIDE DEF n, S
  <1>6. /\ DOMAIN new = S \cup {n} /\ new[n] = g
        /\ \A i \in S : new[i] = s.groups[i]
    BY <1>2
  <1>7. ASSUME g \in Groups PROVE new \in Arrays
    <2>1. new \in [S \cup {n} -> Groups]
      BY <1>1, <1>7
    <2>2. S \cup {n} \in SUBSET Nat
      BY <1>1, <1>3
    <2> QED
      BY <2>1, <2>2 DEF Arrays
  <1> HIDE DEF new
  <1>8. OneMore(new, s.groups, g, n)
    BY <1>2, <1>3, <1>5, <1>6, <1>7 DEF OneMore, S
  <1> QED
    BY <1>4, <1>8

\* A group that is pushed fires its hooks too.
LEMMA PushedFires ==
    ASSUME NEW s, SettingsOK(s), NEW g, NEW t, t.groups = Pushed(s.groups, g)
    PROVE  \A e, h : Fires(t, e, h) <=> Fires(s, e, h) \/ (g.event = e /\ h \in g.hooks)
  <1>1. PICK n : OneMore(t.groups, s.groups, g, n)
    BY PushedArray
  <1> QED
    BY <1>1 DEF OneMore, Fires

LEMMA PushedWellformed ==
    ASSUME NEW s, Wellformed(s), NEW g \in Groups,
           "legacy" \notin g.hooks,
           "ptk" \in g.hooks => ~Present(s, g.event)
    PROVE  Wellformed([s EXCEPT !.groups = Pushed(@, g)])
  <1> DEFINE t == [s EXCEPT !.groups = Pushed(@, g)]
  <1>1. s \in SettingsFiles /\ SettingsOK(s)
    BY SettingsAreFiles DEF Wellformed
  <1>2. PICK n : OneMore(Pushed(s.groups, g), s.groups, g, n)
    BY <1>1, PushedArray
  <1>3. t.groups = Pushed(s.groups, g) /\ t \in SettingsFiles
    BY <1>1, <1>2 DEF SettingsFiles, OneMore
  <1> HIDE DEF t
  <1>4. SettingsOK(t)
    BY <1>2, <1>3, SettingsAreFiles DEF OneMore
  <1>5. LegacyInPre(t)
    BY <1>2, <1>3 DEF Wellformed, LegacyInPre, OneMore
  <1>6. OwnedOnce(t)
    <2>1. ~(OwnedHooks \subseteq g.hooks)
      BY DEF OwnedHooks
    <2>2. g.hooks \cap OwnedHooks # {} =>
              \A i \in DOMAIN s.groups :
                  s.groups[i].event = g.event => s.groups[i].hooks \cap OwnedHooks = {}
      BY DEF OwnedHooks, Present, GroupsOf
    <2> QED
      BY <1>2, <1>3, <2>1, <2>2 DEF Wellformed, OwnedOnce, OneMore
  <1> QED
    BY <1>4, <1>5, <1>6 DEF Wellformed, t

\* The array new is what is left of old without those hooks on those events.
Rid(new, old, events, hooks) ==
    /\ new \in Arrays /\ IsFiniteSet(DOMAIN new)
    /\ DOMAIN new \subseteq DOMAIN old
    /\ \A i \in DOMAIN new :
          /\ new[i].event = old[i].event
          /\ new[i].hooks = IF old[i].event \in events THEN old[i].hooks \ hooks
                            ELSE old[i].hooks
    /\ \A i \in DOMAIN old \ DOMAIN new :
          old[i].event \in events /\ old[i].hooks \subseteq hooks

\* What remove_hook_entries leaves.
LEMMA WithoutArray ==
    ASSUME NEW s, SettingsOK(s), NEW events, NEW hooks
    PROVE  Rid(Without(s.groups, events, hooks), s.groups, events, hooks)
  <1> DEFINE S == DOMAIN s.groups
             Left(g) == IF g.event \in events THEN [g EXCEPT !.hooks = @ \ hooks] ELSE g
             T == {j \in S : Left(s.groups[j]).hooks # {}}
             new == [i \in T |-> Left(s.groups[i])]
  <1>1. IsFiniteSet(S) /\ S \subseteq Nat /\ \A i \in S : s.groups[i] \in Groups
    BY DEF SettingsOK
  <1>2. Without(s.groups, events, hooks) = new
    BY DEF Without
  <1>3. ASSUME NEW i \in S
        PROVE  /\ Left(s.groups[i]).event = s.groups[i].event
               /\ Left(s.groups[i]).matcher = s.groups[i].matcher
               /\ Left(s.groups[i]).hooks = IF s.groups[i].event \in events
                                            THEN s.groups[i].hooks \ hooks
                                            ELSE s.groups[i].hooks
               /\ Left(s.groups[i]).hooks # {} => Left(s.groups[i]) \in Groups
    BY <1>1 DEF Groups
  <1> HIDE DEF Left
  <1>4. new \in Arrays
    <2>1. new \in [T -> Groups] /\ T \in SUBSET Nat
      BY <1>1, <1>3
    <2> QED
      BY <2>1 DEF Arrays
  <1>5. IsFiniteSet(T)
    BY <1>1, FS_Subset
  <1>6. ASSUME NEW i \in S PROVE s.groups[i].hooks # {}
    BY <1>1, GroupFields
  <1>7. \A i \in S \ T : s.groups[i].event \in events /\ s.groups[i].hooks \subseteq hooks
    BY <1>3, <1>6
  <1>8. DOMAIN new = T /\ \A i \in T : new[i] = Left(s.groups[i])
    OBVIOUS
  <1> HIDE DEF new
  <1>9. Rid(new, s.groups, events, hooks)
    BY <1>3, <1>4, <1>5, <1>7, <1>8 DEF Rid
  <1> QED
    BY <1>2, <1>9

LEMMA WithoutFires ==
    ASSUME NEW s, SettingsOK(s), NEW events, NEW hooks,
           NEW t, t.groups = Without(s.groups, events, hooks)
    PROVE  \A e, h : Fires(t, e, h) <=> Fires(s, e, h) /\ ~(e \in events /\ h \in hooks)
  <1>1. Rid(t.groups, s.groups, events, hooks)
    BY WithoutArray
  <1>2. ASSUME NEW e, NEW h, Fires(t, e, h)
        PROVE  Fires(s, e, h) /\ ~(e \in events /\ h \in hooks)
    BY <1>1, <1>2 DEF Rid, Fires
  <1>3. ASSUME NEW e, NEW h, Fires(s, e, h), ~(e \in events /\ h \in hooks)
        PROVE  Fires(t, e, h)
    <2>1. PICK i \in DOMAIN s.groups : s.groups[i].event = e /\ h \in s.groups[i].hooks
      BY <1>3 DEF Fires
    <2>2. i \in DOMAIN t.groups /\ t.groups[i].event = e /\ h \in t.groups[i].hooks
      BY <1>1, <1>3, <2>1 DEF Rid
    <2> QED
      BY <2>2 DEF Fires
  <1> QED
    BY <1>2, <1>3

LEMMA WithoutWellformed ==
    ASSUME NEW s, Wellformed(s), NEW events, NEW hooks, NEW url \in Urls,
           NEW t, t = [groups |-> Without(s.groups, events, hooks), url |-> url]
    PROVE  Wellformed(t)
  <1>1. SettingsOK(s)
    BY DEF Wellformed
  <1> DEFINE new == Without(s.groups, events, hooks)
  <1>2. /\ new \in Arrays /\ IsFiniteSet(DOMAIN new)
        /\ DOMAIN new \subseteq DOMAIN s.groups
        /\ \A i \in DOMAIN new :
              /\ new[i].event = s.groups[i].event
              /\ new[i].hooks \subseteq s.groups[i].hooks
    <2>1. Rid(new, s.groups, events, hooks)
      BY <1>1, WithoutArray
    <2> HIDE DEF new
    <2>2. \A i \in DOMAIN new : new[i].hooks \subseteq s.groups[i].hooks
      BY <2>1 DEF Rid
    <2> QED
      BY <2>1, <2>2 DEF Rid
  <1>3. t.groups = new /\ t \in SettingsFiles
    BY <1>2 DEF SettingsFiles
  <1> HIDE DEF new
  <1>4. SettingsOK(t)
    BY <1>2, <1>3, SettingsAreFiles
  <1>5. LegacyInPre(t)
    BY <1>2, <1>3 DEF Wellformed, LegacyInPre
  <1>6. OwnedOnce(t)
    BY <1>2, <1>3 DEF Wellformed, OwnedOnce
  <1> QED
    BY <1>4, <1>5, <1>6 DEF Wellformed

\* An entry of PTK's, for an event that has none.
LEMMA WithFile ==
    ASSUME NEW s, Wellformed(s), NEW event \in HookEvents, NEW matcher, NEW needed \in BOOLEAN,
           needed => matcher \in Matchers /\ ~Present(s, event),
           NEW t, t = With(s, event, matcher, needed)
    PROVE  /\ Wellformed(t) /\ t.url = s.url
           /\ \A e, h : Fires(t, e, h) <=> Fires(s, e, h) \/ (needed /\ e = event /\ h = "ptk")
  <1>1. CASE ~needed
    BY <1>1 DEF With
  <1>2. CASE needed
    <2> DEFINE g == Entries(event, matcher)
    <2>1. /\ g \in Groups /\ g.event = event /\ g.hooks = {"ptk"}
          /\ "legacy" \notin g.hooks
      BY <1>2 DEF Entries, Groups, OwnedHooks
    <2> HIDE DEF g
    <2>2. t = [s EXCEPT !.groups = Pushed(@, g)]
      BY <1>2 DEF With, g
    <2>3. Wellformed(t)
      <3>1. ~Present(s, g.event)
        BY <1>2, <2>1
      <3>2. Wellformed([s EXCEPT !.groups = Pushed(@, g)])
        BY <2>1, <3>1, PushedWellformed
      <3> QED
        BY <2>2, <3>2
    <2>4. s \in SettingsFiles /\ SettingsOK(s)
      BY SettingsAreFiles DEF Wellformed
    <2>5. t.groups = Pushed(s.groups, g) /\ t.url = s.url
      BY <2>2, <2>4 DEF SettingsFiles
    <2>6. \A e, h : Fires(t, e, h) <=> Fires(s, e, h) \/ (g.event = e /\ h \in g.hooks)
      BY <2>4, <2>5, PushedFires
    <2> QED
      BY <1>2, <2>1, <2>3, <2>5, <2>6
  <1> QED
    BY <1>1, <1>2

\* Refreshing the matchers changes nothing of what is run.
LEMMA RefreshedFile ==
    ASSUME NEW s, Wellformed(s), NEW need \in Needs,
           NEW t, t = [s EXCEPT !.groups = [i \in DOMAIN @ |-> Refreshed(@[i], need)]]
    PROVE  /\ Wellformed(t) /\ t.url = s.url
           /\ \A e, h : Fires(t, e, h) <=> Fires(s, e, h)
  <1> DEFINE S == DOMAIN s.groups
             new == [i \in S |-> Refreshed(s.groups[i], need)]
  <1>1. s \in SettingsFiles /\ SettingsOK(s)
    BY SettingsAreFiles DEF Wellformed
  <1>2. IsFiniteSet(S) /\ S \subseteq Nat /\ \A i \in S : s.groups[i] \in Groups
    BY <1>1 DEF SettingsOK
  <1>3. \A e \in DOMAIN need : need[e] \in Matchers
    BY InstallerAssumption
  <1>4. ASSUME NEW g \in Groups
        PROVE  /\ Refreshed(g, need) \in Groups
               /\ Refreshed(g, need).event = g.event /\ Refreshed(g, need).hooks = g.hooks
    BY <1>3 DEF Refreshed, Groups
  <1>5. t.groups = new /\ t.url = s.url /\ t = [groups |-> new, url |-> s.url]
    BY <1>1 DEF SettingsFiles
  <1>6. DOMAIN new = S /\ \A i \in S : /\ new[i] \in Groups
                                        /\ new[i].event = s.groups[i].event
                                        /\ new[i].hooks = s.groups[i].hooks
    BY <1>2, <1>4
  <1>7. new \in Arrays
    <2>1. new \in [S -> Groups] /\ S \in SUBSET Nat
      BY <1>2, <1>6
    <2> QED
      BY <2>1 DEF Arrays
  <1> HIDE DEF new
  <1>8. SettingsOK(t)
    BY <1>1, <1>2, <1>5, <1>6, <1>7, SettingsAreFiles DEF SettingsFiles
  <1>9. OwnedOnce(t) /\ LegacyInPre(t)
    BY <1>5, <1>6 DEF Wellformed, OwnedOnce, LegacyInPre
  <1>10. \A e, h : Fires(t, e, h) <=> Fires(s, e, h)
    BY <1>5, <1>6 DEF Fires
  <1> QED
    BY <1>5, <1>8, <1>9, <1>10 DEF Wellformed

\* What the init is to write.
LEMMA PatchedFile ==
    ASSUME NEW s, Wellformed(s), NEW need \in Needs, NEW t, t = Patched(s, need)
    PROVE  Wellformed(t) /\ OwnPart(t) = OwnPart(s) /\ (Old(t) <=> Old(s))
  <1> DEFINE fresh == [s EXCEPT !.groups = [i \in DOMAIN @ |-> Refreshed(@[i], need)]]
             Needed(e) == e \in DOMAIN need /\ ~Present(s, e)
             pre == Needed("pre")
             post == Needed("post")
             more == With(fresh, "pre", need["pre"], pre)
  <1>1. t = With(more, "post", need["post"], post)
    BY DEF Patched
  <1>2. /\ Wellformed(fresh) /\ fresh.url = s.url
        /\ \A e, h : Fires(fresh, e, h) <=> Fires(s, e, h)
    BY RefreshedFile
  <1>3. /\ pre \in BOOLEAN
        /\ pre => need["pre"] \in Matchers /\ ~Present(s, "pre")
    BY InstallerAssumption
  <1>4. /\ post \in BOOLEAN
        /\ post => need["post"] \in Matchers /\ ~Present(s, "post")
    BY InstallerAssumption
  <1>5. "pre" \in HookEvents /\ "post" \in HookEvents
    BY DEF HookEvents
  <1> HIDE DEF fresh, pre, post
  <1>6. /\ Wellformed(more) /\ more.url = s.url
        /\ \A e, h : Fires(more, e, h) <=> Fires(s, e, h) \/ (pre /\ e = "pre" /\ h = "ptk")
    <2>1. pre => ~Present(fresh, "pre")
      BY <1>2, <1>3, OwnedFires
    <2> QED
      BY <1>2, <1>3, <1>5, <2>1, WithFile
  <1> HIDE DEF more
  <1>7. /\ Wellformed(t) /\ t.url = s.url
        /\ \A e, h : Fires(t, e, h) <=> Fires(more, e, h) \/ (post /\ e = "post" /\ h = "ptk")
    <2>1. post => ~Present(more, "post")
      BY <1>4, <1>6, OwnedFires
    <2> QED
      BY <1>1, <1>4, <1>5, <1>6, <2>1, WithFile
  <1>8. "ptk" \notin OwnHooks
    BY InstallerAssumption DEF OwnedHooks
  <1>9. OwnPart(t) = OwnPart(s)
    BY <1>6, <1>7, <1>8, SameOwnPart
  <1> QED
    BY <1>6, <1>7, <1>9, OwnedFires

\* What is left without an older PTK's entries.
LEMMA ModernFile ==
    ASSUME NEW s, Wellformed(s), NEW t, t = Modern(s)
    PROVE  /\ Wellformed(t) /\ OwnPart(t) = OwnPart(s)
           /\ ~Old(t)
           /\ HasOwned(t) => HasOwned(s)
  <1>1. s \in SettingsFiles /\ SettingsOK(s)
    BY SettingsAreFiles DEF Wellformed
  <1>2. /\ t = [groups |-> Without(s.groups, {"pre"}, {"legacy"}), url |-> s.url]
        /\ s.url \in Urls
    BY <1>1 DEF Modern, SettingsFiles
  <1>3. t.groups = Without(s.groups, {"pre"}, {"legacy"}) /\ t.url = s.url
    BY <1>2
  <1>4. Wellformed(t)
    BY <1>2, WithoutWellformed
  <1>5. \A e, h : Fires(t, e, h) <=> Fires(s, e, h) /\ ~(e = "pre" /\ h = "legacy")
    <2> DEFINE events == {"pre"}
               hooks == {"legacy"}
    <2>1. t.groups = Without(s.groups, events, hooks)
      BY <1>3
    <2>2. \A e, h : (e \in events /\ h \in hooks) <=> (e = "pre" /\ h = "legacy")
      OBVIOUS
    <2> HIDE DEF events, hooks
    <2>3. \A e, h : Fires(t, e, h) <=> Fires(s, e, h) /\ ~(e \in events /\ h \in hooks)
      BY <1>1, <2>1, WithoutFires
    <2> QED
      BY <2>2, <2>3
  <1>6. "legacy" \notin OwnHooks
    BY InstallerAssumption DEF OwnedHooks
  <1>7. OwnPart(t) = OwnPart(s)
    BY <1>3, <1>5, <1>6, SameOwnPart
  <1>8. ~Old(t)
    <2>1. \A e : Fires(s, e, "legacy") => e = "pre"
      BY DEF Wellformed, LegacyInPre, Fires
    <2> QED
      BY <1>5, <2>1, OwnedFires
  <1>9. HasOwned(t) => HasOwned(s)
    BY <1>1, <1>3, <1>4, <1>5, HasOwnedFires DEF Wellformed
  <1> QED
    BY <1>4, <1>7, <1>8, <1>9

\* What the uninstall is to write.
LEMMA RemovedFile ==
    ASSUME NEW s, Wellformed(s), NEW t, t = Removed(s)
    PROVE  Wellformed(t) /\ OwnPart(t) = OwnPart(s) /\ ~Old(t) /\ ~HasOwned(t)
  <1> DEFINE url == IF s.url = "ptk" THEN "unset" ELSE s.url
  <1>1. s \in SettingsFiles /\ SettingsOK(s)
    BY SettingsAreFiles DEF Wellformed
  <1>2. url \in Urls /\ url # "ptk" /\ (url = "foreign") = (s.url = "foreign")
    BY <1>1 DEF SettingsFiles, Urls
  <1>3. t = [groups |-> Without(s.groups, HookEvents, OwnedHooks), url |-> url]
    BY DEF Removed
  <1> HIDE DEF url
  <1>4. t.groups = Without(s.groups, HookEvents, OwnedHooks) /\ t.url = url
    BY <1>3
  <1>5. Wellformed(t)
    BY <1>2, <1>3, WithoutWellformed
  <1>6. \A e, h : Fires(t, e, h) <=> Fires(s, e, h) /\ ~(e \in HookEvents /\ h \in OwnedHooks)
    BY <1>1, <1>4, WithoutFires
  <1>7. OwnPart(t) = OwnPart(s)
    <2>1. \A h \in OwnHooks : h \notin OwnedHooks
      BY InstallerAssumption
    <2> QED
      BY <1>2, <1>4, <1>6, <2>1, SameOwnPart
  <1>8. \A e, h : Fires(t, e, h) => e \in HookEvents
    BY <1>5, GroupFields DEF Wellformed, SettingsOK, Fires
  <1>9. "legacy" \in OwnedHooks
    BY DEF OwnedHooks
  <1>10. ~Old(t)
    BY <1>6, <1>8, <1>9, OwnedFires
  <1>11. ~HasOwned(t)
    BY <1>2, <1>4, <1>5, <1>6, <1>8, HasOwnedFires DEF Wellformed
  <1> QED
    BY <1>5, <1>7, <1>10, <1>11

\* What is written when the proxy is routed to.
LEMMA RoutedFile ==
    ASSUME NEW s, Wellformed(s), NEW hook \in BOOLEAN,
           NEW t, t = [With(s, "session", "none", hook /\ ~Autostarts(s)) EXCEPT !.url = "ptk"]
    PROVE  /\ Wellformed(t)
           /\ OwnPart(t) = [OwnPart(s) EXCEPT !.url = "unset"]
           /\ Old(t) <=> Old(s)
  <1> DEFINE needed == hook /\ ~Autostarts(s)
             w == With(s, "session", "none", needed)
  <1>1. needed \in BOOLEAN /\ "session" \in HookEvents /\ "none" \in Matchers
    BY InstallerAssumption DEF HookEvents
  <1>2. needed => ~Present(s, "session")
    <2>1. \A e : Fires(s, e, "legacy") => e = "pre"
      BY DEF Wellformed, LegacyInPre, Fires
    <2>2. Fires(s, "session", "ptk") => Autostarts(s)
      BY DEF Fires, Autostarts, GroupsOf
    <2>3. Present(s, "session") => \E h \in OwnedHooks : Fires(s, "session", h)
      BY OwnedFires
    <2> QED
      BY <2>1, <2>2, <2>3 DEF OwnedHooks
  <1>3. t = [w EXCEPT !.url = "ptk"]
    OBVIOUS
  <1> HIDE DEF needed
  <1>4. /\ Wellformed(w)
        /\ \A e, h : Fires(w, e, h) <=> Fires(s, e, h) \/ (needed /\ e = "session" /\ h = "ptk")
    BY <1>1, <1>2, WithFile
  <1> HIDE DEF w
  <1>5. w \in SettingsFiles /\ SettingsOK(w)
    BY <1>4, SettingsAreFiles DEF Wellformed
  <1>6. t.groups = w.groups /\ t.url = "ptk" /\ t \in SettingsFiles
    BY <1>3, <1>5 DEF SettingsFiles, Urls
  <1>7. Wellformed(t)
    <2>1. SettingsOK(t)
      BY <1>5, <1>6, SettingsAreFiles DEF SettingsOK
    <2> QED
      BY <1>4, <1>6, <2>1 DEF Wellformed, OwnedOnce, LegacyInPre
  <1>8. \A e, h : Fires(t, e, h) <=> Fires(w, e, h)
    BY <1>6 DEF Fires
  <1>9. OwnPart(t).hooks = OwnPart(s).hooks
    <2>1. "ptk" \notin OwnHooks
      BY InstallerAssumption DEF OwnedHooks
    <2>2. \A e : \A h \in OwnHooks : Fires(t, e, h) <=> Fires(s, e, h)
      BY <1>4, <1>8, <2>1
    <2> QED
      BY <2>2, SameOwnHooks
  <1>10. OwnPart(t) = [OwnPart(s) EXCEPT !.url = "unset"]
    <2>1. OwnPart(t) = [hooks |-> OwnPart(t).hooks, url |-> "unset"]
      BY <1>6 DEF OwnPart
    <2> DEFINE own == OwnPart(s)
    <2>2. own = [hooks |-> own.hooks, url |-> own.url]
      BY DEF OwnPart
    <2> HIDE DEF own
    <2>3. [own EXCEPT !.url = "unset"] = [hooks |-> own.hooks, url |-> "unset"]
      BY <2>2
    <2> QED
      BY <1>9, <2>1, <2>3 DEF own
  <1> QED
    BY <1>4, <1>7, <1>8, <1>10, OwnedFires

\* What the user may save: PTK's part is as it was, or its route is gone.
SameOwned(t, s) ==
    /\ t.url = "ptk" => s.url = "ptk"
    /\ \A e : \A h \in OwnedHooks : Fires(t, e, h) <=> Fires(s, e, h)

LEMMA EditedFile ==
    ASSUME NEW s, Wellformed(s), NEW t \in Edited(s)
    PROVE  Wellformed(t) /\ (Old(t) <=> Old(s)) /\ (HasOwned(t) => HasOwned(s))
  <1>1. s \in SettingsFiles /\ SettingsOK(s) /\ \A i \in DOMAIN s.groups : s.groups[i] \in Groups
    BY SettingsAreFiles DEF Wellformed, SettingsOK
  <1>2. \A h \in OwnHooks : h \notin OwnedHooks
    BY InstallerAssumption
  <1>3. "ptk" \in OwnedHooks /\ "legacy" \in OwnedHooks
    BY DEF OwnedHooks
  <1>4. SUFFICES Wellformed(t) /\ SameOwned(t, s)
    BY <1>1, <1>3, OwnedFires, HasOwnedFires DEF Wellformed, SameOwned
  <1>5. ASSUME NEW e \in HookEvents, NEW h \in OwnHooks,
               t = [s EXCEPT !.groups = Pushed(@, Alone(e, h))]
        PROVE  Wellformed(t) /\ SameOwned(t, s)
    <2> DEFINE g == Alone(e, h)
    <2>1. g \in Groups /\ g.event = e /\ g.hooks = {h}
      BY InstallerAssumption DEF Alone, Groups
    <2>2. t.groups = Pushed(s.groups, g) /\ t.url = s.url
      BY <1>1, <1>5 DEF SettingsFiles
    <2> HIDE DEF g
    <2>3. "legacy" \notin g.hooks /\ "ptk" \notin g.hooks
      BY <1>2, <1>3, <2>1
    <2>4. Wellformed([s EXCEPT !.groups = Pushed(@, g)])
      BY <2>1, <2>3, PushedWellformed
    <2>5. \A d, k : Fires(t, d, k) <=> Fires(s, d, k) \/ (g.event = d /\ k \in g.hooks)
      BY <1>1, <2>2, PushedFires
    <2> QED
      BY <1>2, <1>5, <2>1, <2>2, <2>4, <2>5 DEF SameOwned, g
  <1>6. ASSUME NEW i \in DOMAIN s.groups, NEW h \in OwnHooks,
               t = [s EXCEPT !.groups[i].hooks = @ \cup {h}]
        PROVE  Wellformed(t) /\ SameOwned(t, s)
    <2> DEFINE S == DOMAIN s.groups
               g == [s.groups[i] EXCEPT !.hooks = @ \cup {h}]
               new == [s.groups EXCEPT ![i] = g]
    <2>1. IsFiniteSet(S) /\ S \subseteq Nat /\ s.groups \in [S -> Groups]
      BY <1>1 DEF SettingsOK
    <2>2. /\ g.event = s.groups[i].event /\ g.hooks = s.groups[i].hooks \cup {h}
          /\ g \in Groups
      BY <1>1 DEF Groups
    <2>3. t.groups = new /\ t.url = s.url /\ t = [groups |-> new, url |-> s.url]
      BY <1>1, <1>6 DEF SettingsFiles
    <2> HIDE DEF g
    <2>4. new \in [S -> Groups] /\ new[i] = g /\ \A j \in S \ {i} : new[j] = s.groups[j]
      BY <2>1, <2>2
    <2> HIDE DEF new
    <2>5. SettingsOK(t)
      BY <1>1, <2>1, <2>3, <2>4 DEF SettingsFiles, SettingsOK, Urls
    <2>6. \A j \in S : /\ t.groups[j].event = s.groups[j].event
                       /\ t.groups[j].hooks \cap OwnedHooks = s.groups[j].hooks \cap OwnedHooks
      BY <1>2, <2>2, <2>3, <2>4
    <2>7. DOMAIN t.groups = S
      BY <2>3, <2>4
    <2>8. SameOwned(t, s)
      BY <2>3, <2>6, <2>7 DEF SameOwned, Fires
    <2>9. OwnedOnce(t) /\ LegacyInPre(t)
      BY <1>3, <2>6, <2>7 DEF Wellformed, OwnedOnce, LegacyInPre
    <2> QED
      BY <2>5, <2>8, <2>9 DEF Wellformed
  <1>7. ASSUME NEW e \in HookEvents, t = [s EXCEPT !.groups = Without(@, {e}, OwnHooks)]
        PROVE  Wellformed(t) /\ SameOwned(t, s)
    <2> DEFINE events == {e}
    <2>1. /\ t = [groups |-> Without(s.groups, events, OwnHooks), url |-> s.url]
          /\ s.url \in Urls
      BY <1>1, <1>7 DEF SettingsFiles
    <2> HIDE DEF events
    <2>2. Wellformed(t)
      BY <2>1, WithoutWellformed
    <2>3. t.groups = Without(s.groups, events, OwnHooks) /\ t.url = s.url
      BY <2>1
    <2>4. \A d, k : Fires(t, d, k) <=> Fires(s, d, k) /\ ~(d \in events /\ k \in OwnHooks)
      BY <1>1, <2>3, WithoutFires
    <2> QED
      BY <1>2, <2>2, <2>3, <2>4 DEF SameOwned
  <1>8. ASSUME NEW u \in {"unset", "foreign"}, t = [s EXCEPT !.url = u]
        PROVE  Wellformed(t) /\ SameOwned(t, s)
    <2>1. t.groups = s.groups /\ t.url = u /\ t \in SettingsFiles
      BY <1>1, <1>8 DEF SettingsFiles, Urls
    <2>2. SettingsOK(t)
      BY <1>1, <2>1, SettingsAreFiles DEF SettingsOK
    <2> QED
      BY <2>1, <2>2 DEF Wellformed, OwnedOnce, LegacyInPre, SameOwned, Fires
  <1>9. \/ \E e \in HookEvents : \E h \in OwnHooks :
              t = [s EXCEPT !.groups = Pushed(@, Alone(e, h))]
        \/ \E i \in DOMAIN s.groups : \E h \in OwnHooks :
              t = [s EXCEPT !.groups[i].hooks = @ \cup {h}]
        \/ \E e \in HookEvents : t = [s EXCEPT !.groups = Without(@, {e}, OwnHooks)]
        \/ \E u \in {"unset", "foreign"} : t = [s EXCEPT !.url = u]
    <2> DEFINE A == {[s EXCEPT !.groups = Pushed(@, Alone(e, h))] :
                        e \in HookEvents, h \in OwnHooks}
               B == {[s EXCEPT !.groups[i].hooks = @ \cup {h}] :
                        i \in DOMAIN s.groups, h \in OwnHooks}
               C == {[s EXCEPT !.groups = Without(@, {e}, OwnHooks)] : e \in HookEvents}
               D == {[s EXCEPT !.url = u] : u \in {"unset", "foreign"}}
    <2>1. t \in A \/ t \in B \/ t \in C \/ t \in D
      BY DEF Edited
    <2>2. ASSUME t \in A
          PROVE  \E e \in HookEvents : \E h \in OwnHooks :
                     t = [s EXCEPT !.groups = Pushed(@, Alone(e, h))]
      BY <2>2
    <2>3. ASSUME t \in B
          PROVE  \E i \in DOMAIN s.groups : \E h \in OwnHooks :
                     t = [s EXCEPT !.groups[i].hooks = @ \cup {h}]
      BY <2>3
    <2>4. ASSUME t \in C
          PROVE  \E e \in HookEvents : t = [s EXCEPT !.groups = Without(@, {e}, OwnHooks)]
      BY <2>4
    <2>5. ASSUME t \in D
          PROVE  \E u \in {"unset", "foreign"} : t = [s EXCEPT !.url = u]
      BY <2>5
    <2> HIDE DEF A, B, C, D
    <2> QED
      BY <2>1, <2>2, <2>3, <2>4, <2>5
  <1> QED
    BY <1>5, <1>6, <1>7, <1>8, <1>9, Zenon

(***************************************************************************)
(* The inductive invariant                                                 *)
(***************************************************************************)

Ats == {"rest", "migrate", "legacy", "legacyWrite", "patch", "patchWrite", "onramp", "choose",
        "unhook", "unhookWrite"}

Process ==
    [at : Ats, ask : {"no", "ask", "auto", "skip"}, onramp : BOOLEAN,
     need : Needs \cup {Unused.need}, copy : SettingsFiles, fresh : BOOLEAN]

\* The copy of r is what its write makes of the file s.
Derived(r, s) ==
    /\ r.at = "legacyWrite" => r.copy = Modern(s)
    /\ r.at = "patchWrite" => r.copy = Patched(s, r.need)
    /\ r.at = "choose" => r.copy = s
    /\ r.at = "unhookWrite" => r.copy = Removed(s)

\* The state r of a process, while the file is s.
RecordOK(r, s) ==
    /\ r \in Process
    /\ Wellformed(r.copy)
    /\ r.at \in {"migrate", "legacy", "legacyWrite", "patch", "patchWrite"} => r.need \in Needs
    /\ r.fresh => Derived(r, s)

\* Between the script's end and that of the entry for it.
Busy(p) == setup[p].at \in {"legacy", "legacyWrite", "unhook", "unhookWrite"}

Inited ==
    /\ script \in BOOLEAN /\ installed \in BOOLEAN /\ kept \in BOOLEAN /\ cut \in BOOLEAN
    /\ Wellformed(settings)
    /\ setup \in [Setups -> Process]
    /\ \A p \in Setups : RecordOK(setup[p], settings)

InstallerInv ==
    /\ Inited
    /\ UsersOwnIsKept
    /\ NothingRemains
    /\ kept /\ ~cut /\ Old(settings) /\ ~script => \E p \in Setups : Busy(p)

LEMMA NoFile ==
    Wellformed(Unused.copy)
  <1> DEFINE s == Unused.copy
  <1>1. s.groups = <<>> /\ s.url = "unset" /\ s = [groups |-> <<>>, url |-> "unset"]
    BY DEF Unused
  <1> HIDE DEF s
  <1>2. <<>> \in [{} -> Groups] /\ DOMAIN <<>> = {} /\ IsFiniteSet({})
    BY FS_EmptySet
  <1>3. SettingsOK(s)
    BY <1>1, <1>2 DEF SettingsOK
  <1> QED
    BY <1>1, <1>2, <1>3 DEF Wellformed, OwnedOnce, LegacyInPre, s

\* A process that rests or waits for an answer holds no copy.
LEMMA FreshStart ==
    ASSUME NEW at \in Ats, NEW ask \in {"no", "ask", "auto", "skip"}, NEW onramp \in BOOLEAN,
           NEW need \in Needs \cup {Unused.need},
           at \in {"migrate", "legacy", "legacyWrite", "patch", "patchWrite"} => need \in Needs,
           NEW s, NEW r,
           r = [Unused EXCEPT !.at = at, !.ask = ask, !.onramp = onramp, !.need = need]
    PROVE  RecordOK(r, s)
  <1>1. /\ r.at = at /\ r.need = need /\ r.copy = Unused.copy /\ r.fresh = FALSE
        /\ r = [at |-> at, ask |-> ask, onramp |-> onramp, need |-> need,
                copy |-> Unused.copy, fresh |-> FALSE]
    BY DEF Unused
  <1>2. Wellformed(Unused.copy) /\ Unused.copy \in SettingsFiles
    BY NoFile, SettingsAreFiles DEF Wellformed
  <1>3. r \in Process
    BY <1>1, <1>2 DEF Process
  <1> QED
    BY <1>1, <1>2, <1>3 DEF RecordOK

LEMMA UnusedOK == ASSUME NEW s PROVE RecordOK(Unused, s)
  <1> DEFINE need == Unused.need
             copy == Unused.copy
  <1>1. /\ Unused = [at |-> "rest", ask |-> "no", onramp |-> FALSE, need |-> need,
                     copy |-> copy, fresh |-> FALSE]
        /\ need \in Needs \cup {Unused.need}
    BY DEF Unused
  <1>2. Wellformed(copy) /\ copy \in SettingsFiles
    BY NoFile, SettingsAreFiles DEF Wellformed
  <1> HIDE DEF need, copy
  <1>3. Unused \in Process
    BY <1>1, <1>2 DEF Process, Ats
  <1>4. Unused.at = "rest" /\ Unused.copy = copy /\ Unused.fresh = FALSE
    BY <1>1
  <1> QED
    BY <1>2, <1>3, <1>4 DEF RecordOK

\* A process moves, and the file is as it was.
LEMMA MovesOK ==
    ASSUME Inited, NEW p \in Setups, NEW r, RecordOK(r, settings), Steps(p, r),
           settings' = settings, script' \in BOOLEAN, installed' \in BOOLEAN, kept' \in BOOLEAN,
           cut' \in BOOLEAN
    PROVE  Inited'
  <1>1. r \in Process /\ setup' = [setup EXCEPT ![p] = r]
    BY DEF RecordOK, Steps
  <1>2. setup' \in [Setups -> Process] /\ \A q \in Setups : setup'[q] = IF q = p THEN r ELSE setup[q]
    BY <1>1 DEF Inited
  <1>3. \A q \in Setups : RecordOK(setup'[q], settings')
    BY <1>2 DEF Inited
  <1> QED
    BY <1>2, <1>3 DEF Inited

\* A process goes on with what it has.
LEMMA ToOK ==
    ASSUME Inited, NEW p \in Setups, NEW at \in Ats,
           at \in {"migrate", "legacy", "legacyWrite", "patch", "patchWrite"}
               => setup[p].need \in Needs,
           at \notin {"legacyWrite", "patchWrite", "choose", "unhookWrite"}
    PROVE  RecordOK(To(p, at), settings)
  <1>1. setup[p] \in Process /\ RecordOK(setup[p], settings)
    BY DEF Inited
  <1>2. /\ To(p, at) \in Process /\ To(p, at).at = at /\ To(p, at).need = setup[p].need
        /\ To(p, at).copy = setup[p].copy
    BY <1>1 DEF To, Process
  <1> QED
    BY <1>1, <1>2 DEF RecordOK, Derived

\* A process read the file, and derived a copy.
LEMMA HoldingOK ==
    ASSUME Inited, NEW p \in Setups, NEW at \in Ats, NEW copy, Wellformed(copy),
           at \in {"migrate", "legacy", "legacyWrite", "patch", "patchWrite"}
               => setup[p].need \in Needs,
           /\ at = "legacyWrite" => copy = Modern(settings)
           /\ at = "patchWrite" => copy = Patched(settings, setup[p].need)
           /\ at = "choose" => copy = settings
           /\ at = "unhookWrite" => copy = Removed(settings)
    PROVE  RecordOK(Holding(p, at, copy), settings)
  <1> DEFINE r == Holding(p, at, copy)
  <1>1. setup[p] \in Process /\ copy \in SettingsFiles
    BY SettingsAreFiles DEF Inited, Wellformed
  <1>2. r \in Process /\ r.at = at /\ r.need = setup[p].need /\ r.copy = copy
    BY <1>1 DEF Holding, Process
  <1> HIDE DEF r
  <1>3. RecordOK(r, settings)
    BY <1>2 DEF RecordOK, Derived
  <1> QED
    BY <1>3 DEF r

\* The file is replaced, and every copy of it is stale.
LEMMA ReplacesOK ==
    ASSUME Inited, NEW p \in Setups, NEW at \in {"patch", "onramp", "rest"},
           at = "patch" => setup[p].need \in Needs,
           NEW s, Wellformed(s), Replaces(p, s, at),
           script' \in BOOLEAN, installed' \in BOOLEAN, kept' \in BOOLEAN, cut' \in BOOLEAN
    PROVE  Inited'
  <1>1. /\ setup' = [q \in Setups |->
                        IF q = p THEN [setup[q] EXCEPT !.at = at, !.fresh = FALSE,
                                                       !.copy = Unused.copy]
                                 ELSE [setup[q] EXCEPT !.fresh = FALSE]]
        /\ settings' = s
    BY DEF Replaces
  <1>2. Wellformed(Unused.copy) /\ Unused.copy \in SettingsFiles
    BY NoFile, SettingsAreFiles DEF Wellformed
  <1>3. at \in Ats
    BY DEF Ats
  <1> HIDE DEF Unused
  <1>4. ASSUME NEW q \in Setups
        PROVE  setup'[q] \in Process /\ RecordOK(setup'[q], settings')
    <2>1. setup[q] \in Process /\ RecordOK(setup[q], settings)
      BY DEF Inited
    <2>2. CASE q = p
      <3>1. /\ setup'[q] \in Process /\ setup'[q].at = at /\ setup'[q].need = setup[q].need
            /\ setup'[q].copy = Unused.copy /\ setup'[q].fresh = FALSE
        BY <1>1, <1>2, <1>3, <2>1, <2>2 DEF Process
      <3> QED
        BY <1>2, <2>2, <3>1 DEF RecordOK
    <2>3. CASE q # p
      <3>1. /\ setup'[q] \in Process /\ setup'[q].at = setup[q].at
            /\ setup'[q].need = setup[q].need
            /\ setup'[q].copy = setup[q].copy /\ setup'[q].fresh = FALSE
        BY <1>1, <2>1, <2>3 DEF Process
      <3> QED
        BY <2>1, <3>1 DEF RecordOK
    <2> QED
      BY <2>2, <2>3
  <1>5. setup' \in [Setups -> Process]
    BY <1>1, <1>4
  <1> QED
    BY <1>1, <1>4, <1>5 DEF Inited

(***************************************************************************)
(* The steps                                                               *)
(***************************************************************************)

\* A process moves, with the script perhaps, and is busy after it if it was.
LEMMA QuietStep ==
    ASSUME InstallerInv, NEW p \in Setups, NEW r, RecordOK(r, settings), Steps(p, r),
           UNCHANGED <<settings, mine, kept>>, script' \in BOOLEAN, cut' \in {cut, TRUE},
           installed' \in BOOLEAN,
           ~installed' => ~installed \/ ~HasOwned(settings),
           \/ cut' = TRUE
           \/ r.at \in {"legacy", "legacyWrite", "unhook", "unhookWrite"}
           \/ ~Busy(p) /\ script' = script
           \/ ~Old(settings)
    PROVE  InstallerInv'
  <1>1. Inited'
    BY MovesOK DEF InstallerInv, Inited
  <1>2. UsersOwnIsKept' /\ NothingRemains'
    BY DEF InstallerInv, UsersOwnIsKept, NothingRemains
  <1>3. (kept /\ ~cut /\ Old(settings) /\ ~script => \E q \in Setups : Busy(q))'
    <2>1. setup' = [setup EXCEPT ![p] = r] /\ setup \in [Setups -> Process]
      BY DEF Steps, InstallerInv, Inited
    <2>2. CASE r.at \in {"legacy", "legacyWrite", "unhook", "unhookWrite"}
      BY <2>1, <2>2 DEF Busy
    <2>3. CASE ~Busy(p) /\ script' = script /\ cut' = cut
      <3>1. \A q \in Setups : Busy(q) => Busy(q)'
        BY <2>1, <2>3 DEF Busy
      <3> QED
        BY <2>3, <3>1 DEF InstallerInv
    <2> QED
      BY <2>2, <2>3
  <1> QED
    BY <1>1, <1>2, <1>3 DEF InstallerInv

\* A process writes what it derived.
LEMMA WriteStep ==
    ASSUME InstallerInv, NEW p \in Setups,
           NEW at \in {"patch", "onramp", "rest"}, at = "patch" => setup[p].need \in Needs,
           NEW s, Wellformed(s), Replaces(p, s, at),
           kept' = (kept /\ setup[p].fresh), installed' \in BOOLEAN, UNCHANGED <<script, cut>>,
           kept' => /\ OwnPart(s) = mine'
                    /\ Old(s) => Old(settings) /\ ~Busy(p)
                    /\ ~installed' => ~HasOwned(s)
    PROVE  InstallerInv'
  <1>1. setup \in [Setups -> Process] /\ setup[p].fresh \in BOOLEAN /\ Inited
    BY DEF InstallerInv, Inited, Process
  <1>2. kept' \in BOOLEAN /\ settings' = s
    BY <1>1 DEF Replaces, Inited
  <1>3. Inited'
    BY <1>1, <1>2, ReplacesOK DEF Inited
  <1>4. UsersOwnIsKept' /\ NothingRemains'
    BY <1>2 DEF UsersOwnIsKept, NothingRemains
  <1>5. (kept /\ ~cut /\ Old(settings) /\ ~script => \E q \in Setups : Busy(q))'
    <2>1. ASSUME NEW q \in Setups, q # p PROVE setup'[q].at = setup[q].at
      <3>1. setup'[q] = [setup[q] EXCEPT !.fresh = FALSE]
        BY <2>1 DEF Replaces
      <3> QED
        BY <1>1, <3>1 DEF Process
    <2>2. SUFFICES ASSUME kept', ~cut', Old(settings'), ~script' PROVE \E q \in Setups : Busy(q)'
      OBVIOUS
    <2>3. kept /\ ~cut /\ Old(settings) /\ ~script /\ ~Busy(p)
      BY <1>1, <1>2, <2>2 DEF Inited
    <2>4. PICK q \in Setups : Busy(q)
      BY <2>3 DEF InstallerInv
    <2> QED
      BY <2>1, <2>3, <2>4 DEF Busy
  <1> QED
    BY <1>3, <1>4, <1>5 DEF InstallerInv

LEMMA BeginSteps ==
    ASSUME InstallerInv, NEW p \in Setups, InitBegins(p) \/ UninstallBegins(p)
    PROVE  InstallerInv'
  <1>1. CASE InitBegins(p)
    <2>1. PICK ask \in {"ask", "auto", "skip"}, hookOnly \in BOOLEAN, need \in Needs :
              Steps(p, [Unused EXCEPT !.at = "migrate", !.ask = ask, !.need = need,
                                      !.onramp = ask = "ask" /\ ~hookOnly])
      BY <1>1 DEF InitBegins
    <2> DEFINE onramp == ask = "ask" /\ ~hookOnly
               r == [Unused EXCEPT !.at = "migrate", !.ask = ask, !.onramp = onramp,
                                   !.need = need]
    <2>2. onramp \in BOOLEAN /\ "migrate" \in Ats
      BY DEF Ats
    <2>3. Steps(p, r)
      BY <2>1 DEF Unused
    <2> HIDE DEF onramp
    <2>4. RecordOK(r, settings)
      BY <2>2, FreshStart
    <2> HIDE DEF r
    <2>5. setup[p].at = "rest" /\ UNCHANGED <<settings, script, SetupGhosts>>
      BY <1>1 DEF InitBegins
    <2> QED
      BY <2>3, <2>4, <2>5, QuietStep DEF InstallerInv, Inited, Busy, SetupGhosts
  <1>2. CASE UninstallBegins(p)
    <2> DEFINE r == [Unused EXCEPT !.at = "unhook"]
    <2>1. RecordOK(Unused, settings) /\ Unused.fresh = FALSE
      BY UnusedOK DEF Unused
    <2>2. r \in Process /\ r.at = "unhook" /\ r.copy = Unused.copy /\ r.fresh = FALSE
      BY <2>1 DEF RecordOK, Process, Ats
    <2>3. RecordOK(r, settings)
      BY <2>1, <2>2 DEF RecordOK
    <2>4. Steps(p, r) /\ script' = FALSE /\ UNCHANGED <<settings, SetupGhosts>>
      BY <1>2 DEF UninstallBegins
    <2> HIDE DEF r
    <2> QED
      BY <2>2, <2>3, <2>4, QuietStep DEF InstallerInv, Inited, SetupGhosts
  <1> QED
    BY <1>1, <1>2

LEMMA MigrateSteps ==
    ASSUME InstallerInv, NEW p \in Setups, Migrate(p) \/ LegacyReads(p) \/ LegacyFails(p)
    PROVE  InstallerInv'
  <1>1. Inited /\ RecordOK(setup[p], settings) /\ setup[p] \in Process /\ Wellformed(settings)
    BY DEF InstallerInv, Inited
  <1>2. {"legacy", "legacyWrite", "patch"} \subseteq Ats
    BY DEF Ats
  <1>3. CASE Migrate(p)
    <2>1. setup[p].at = "migrate" /\ setup[p].need \in Needs
      BY <1>1, <1>3 DEF Migrate, RecordOK
    <2>2. UNCHANGED <<settings, SetupGhosts>>
      BY <1>3 DEF Migrate
    <2>3. CASE script' = FALSE /\ Steps(p, To(p, "legacy"))
      <3>1. RecordOK(To(p, "legacy"), settings) /\ To(p, "legacy").at = "legacy"
        BY <1>1, <1>2, <2>1, ToOK DEF To, Process
      <3> QED
        BY <2>2, <2>3, <3>1, QuietStep DEF InstallerInv, Inited, SetupGhosts
    <2>4. CASE UNCHANGED script /\ Steps(p, To(p, "patch"))
      <3>1. RecordOK(To(p, "patch"), settings)
        BY <1>1, <1>2, <2>1, ToOK
      <3> QED
        BY <2>1, <2>2, <2>4, <3>1, QuietStep DEF InstallerInv, Inited, SetupGhosts, Busy
    <2> QED
      BY <1>3, <2>3, <2>4 DEF Migrate
  <1>4. CASE LegacyReads(p)
    <2>1. setup[p].at = "legacy" /\ setup[p].need \in Needs
      BY <1>1, <1>4 DEF LegacyReads, RecordOK
    <2>2. UNCHANGED <<settings, script, SetupGhosts>>
      BY <1>4 DEF LegacyReads
    <2>3. CASE Modern(settings) = settings
      <3>1. Steps(p, To(p, "patch")) /\ ~Old(settings)
        BY <1>1, <1>4, <2>3, ModernFile DEF LegacyReads
      <3>2. RecordOK(To(p, "patch"), settings)
        BY <1>1, <1>2, <2>1, ToOK
      <3> QED
        BY <2>2, <3>1, <3>2, QuietStep DEF InstallerInv, Inited, SetupGhosts
    <2>4. CASE Modern(settings) # settings
      <3> DEFINE r == Holding(p, "legacyWrite", Modern(settings))
      <3>1. Steps(p, r) /\ r.at = "legacyWrite"
        BY <1>1, <1>4, <2>4 DEF LegacyReads, Holding, Process
      <3>2. Wellformed(Modern(settings))
        BY <1>1, ModernFile
      <3>3. RecordOK(r, settings)
        BY <1>1, <1>2, <2>1, <3>2, HoldingOK
      <3> HIDE DEF r
      <3> QED
        BY <2>2, <3>1, <3>3, QuietStep DEF InstallerInv, Inited, SetupGhosts
    <2> QED
      BY <2>3, <2>4
  <1>5. CASE LegacyFails(p)
    <2>1. setup[p].need \in Needs
      BY <1>1, <1>5 DEF LegacyFails, RecordOK
    <2> DEFINE r == [Unused EXCEPT !.at = "patch", !.ask = setup[p].ask,
                                   !.onramp = setup[p].onramp, !.need = setup[p].need]
    <2>2. Steps(p, r)
      BY <1>5 DEF LegacyFails, Unused
    <2>3. setup[p].ask \in {"no", "ask", "auto", "skip"} /\ setup[p].onramp \in BOOLEAN
      BY <1>1 DEF Process
    <2>4. RecordOK(r, settings)
      BY <1>2, <2>1, <2>3, FreshStart
    <2>5. cut' = TRUE /\ UNCHANGED <<settings, script, mine, installed, kept>>
      BY <1>5 DEF LegacyFails
    <2> HIDE DEF r
    <2> QED
      BY <2>2, <2>4, <2>5, QuietStep DEF InstallerInv, Inited
  <1> QED
    BY <1>3, <1>4, <1>5

LEMMA PatchSteps ==
    ASSUME InstallerInv, NEW p \in Setups, PatchReads(p) \/ PatchDeclined(p)
    PROVE  InstallerInv'
  <1>1. Inited /\ RecordOK(setup[p], settings) /\ setup[p] \in Process /\ Wellformed(settings)
    BY DEF InstallerInv, Inited
  <1>2. setup[p].need \in Needs /\ ~Busy(p) /\ UNCHANGED <<settings, script, SetupGhosts>>
    BY <1>1 DEF PatchReads, PatchDeclined, RecordOK, Busy
  <1>3. \A r : RecordOK(r, settings) /\ Steps(p, r) => InstallerInv'
    BY <1>1, <1>2, QuietStep DEF Inited, SetupGhosts
  <1>4. RecordOK(Unused, settings)
    BY UnusedOK
  <1>5. CASE PatchReads(p)
    <2> DEFINE new == Patched(settings, setup[p].need)
               r == Holding(p, "patchWrite", new)
    <2>1. RecordOK(AfterPatch(p), settings)
      BY <1>1, <1>4, ToOK DEF AfterPatch, Ats
    <2>2. Wellformed(new)
      BY <1>1, <1>2, PatchedFile
    <2>3. RecordOK(r, settings)
      BY <1>1, <1>2, <2>2, HoldingOK DEF Ats
    <2>4. Steps(p, AfterPatch(p)) \/ Steps(p, Unused) \/ Steps(p, r)
      BY <1>5 DEF PatchReads
    <2> HIDE DEF r
    <2> QED
      BY <1>3, <1>4, <2>1, <2>3, <2>4
  <1>6. CASE PatchDeclined(p)
    BY <1>3, <1>4, <1>6 DEF PatchDeclined
  <1> QED
    BY <1>5, <1>6

LEMMA OnrampSteps ==
    ASSUME InstallerInv, NEW p \in Setups, OnrampReads(p) \/ OnrampDeclined(p)
    PROVE  InstallerInv'
  <1>1. Inited /\ RecordOK(setup[p], settings) /\ setup[p] \in Process /\ Wellformed(settings)
    BY DEF InstallerInv, Inited
  <1>2. ~Busy(p) /\ UNCHANGED <<settings, script, SetupGhosts>>
    BY DEF OnrampReads, OnrampDeclined, Busy
  <1> DEFINE r == Holding(p, "choose", settings)
  <1>3. RecordOK(r, settings) /\ RecordOK(Unused, settings)
    BY <1>1, HoldingOK, UnusedOK DEF Ats
  <1>4. Steps(p, Unused) \/ Steps(p, r)
    BY DEF OnrampReads, OnrampDeclined
  <1> HIDE DEF r
  <1> QED
    BY <1>1, <1>2, <1>3, <1>4, QuietStep DEF Inited, SetupGhosts

LEMMA UninstallReadStep ==
    ASSUME InstallerInv, NEW p \in Setups, UninstallReads(p)
    PROVE  InstallerInv'
  <1>1. Inited /\ RecordOK(setup[p], settings) /\ setup[p] \in Process /\ Wellformed(settings)
    BY DEF InstallerInv, Inited
  <1>2. setup[p].at = "unhook" /\ UNCHANGED <<settings, script, mine, kept, cut>>
    BY DEF UninstallReads
  <1>3. CASE Removed(settings) = settings
    <2>1. Steps(p, Unused) /\ installed' \in BOOLEAN
      BY <1>1, <1>3 DEF UninstallReads, Inited
    <2>2. ~Old(settings) /\ ~HasOwned(settings)
      BY <1>1, <1>3, RemovedFile
    <2> QED
      BY <1>1, <1>2, <2>1, <2>2, UnusedOK, QuietStep DEF Inited
  <1>4. CASE Removed(settings) # settings
    <2> DEFINE r == Holding(p, "unhookWrite", Removed(settings))
    <2>1. Steps(p, r) /\ installed' = installed /\ r.at = "unhookWrite"
      BY <1>1, <1>4 DEF UninstallReads, Inited, Holding, Process
    <2>2. Wellformed(Removed(settings))
      BY <1>1, RemovedFile
    <2>3. RecordOK(r, settings)
      BY <1>1, <2>2, HoldingOK DEF Ats
    <2> HIDE DEF r
    <2> QED
      BY <1>1, <1>2, <2>1, <2>3, QuietStep DEF Inited
  <1> QED
    BY <1>3, <1>4

LEMMA EndStep ==
    ASSUME InstallerInv, NEW p \in Setups, SetupEnds(p)
    PROVE  InstallerInv'
  <1>1. Inited /\ Steps(p, Unused) /\ UNCHANGED <<settings, script, mine, installed, kept>>
    BY DEF InstallerInv, SetupEnds
  <1>2. cut' \in {cut, TRUE} /\ (cut' = TRUE \/ ~Busy(p))
    BY <1>1 DEF SetupEnds, Busy, Inited
  <1> QED
    BY <1>1, <1>2, UnusedOK, QuietStep DEF Inited

\* The writes of an init and of an uninstall.
LEMMA InitWrites ==
    ASSUME InstallerInv, NEW p \in Setups, LegacyWrites(p) \/ PatchWrites(p)
    PROVE  InstallerInv'
  <1> DEFINE s == setup[p].copy
  <1>1. /\ Inited /\ RecordOK(setup[p], settings) /\ setup[p] \in Process
        /\ Wellformed(settings) /\ Wellformed(s) /\ setup[p].fresh \in BOOLEAN
    BY DEF InstallerInv, Inited, RecordOK, Process
  <1>2. setup[p].need \in Needs
    BY <1>1 DEF LegacyWrites, PatchWrites, RecordOK
  <1>3. /\ kept' = (kept /\ setup[p].fresh)
        /\ UNCHANGED <<script, mine, cut>>
    BY DEF LegacyWrites, PatchWrites
  <1>4. kept' => kept /\ Derived(setup[p], settings) /\ OwnPart(settings) = mine
    BY <1>1, <1>3 DEF Inited, RecordOK, InstallerInv, UsersOwnIsKept
  <1>5. CASE LegacyWrites(p)
    <2>1. setup[p].at = "legacyWrite" /\ Replaces(p, s, "patch") /\ installed' = installed
      BY <1>5 DEF LegacyWrites
    <2>2. kept' => s = Modern(settings)
      BY <1>4, <2>1 DEF Derived
    <2>3. kept' => OwnPart(s) = mine' /\ ~Old(s) /\ (~installed' => ~HasOwned(s))
      BY <1>1, <1>3, <1>4, <2>1, <2>2, ModernFile DEF InstallerInv, NothingRemains
    <2> HIDE DEF s
    <2> QED
      BY <1>1, <1>2, <1>3, <2>1, <2>3, WriteStep DEF Inited
  <1>6. CASE PatchWrites(p)
    <2>1. setup[p].at = "patchWrite" /\ Replaces(p, s, AfterPatch(p).at) /\ installed' = TRUE
      BY <1>6 DEF PatchWrites
    <2>2. AfterPatch(p).at \in {"onramp", "rest"} /\ ~Busy(p)
      BY <1>1, <2>1 DEF AfterPatch, To, Unused, Busy, Process
    <2>3. kept' => s = Patched(settings, setup[p].need)
      BY <1>4, <2>1 DEF Derived
    <2>4. kept' => OwnPart(s) = mine' /\ (Old(s) <=> Old(settings))
      BY <1>1, <1>2, <1>3, <1>4, <2>3, PatchedFile
    <2> HIDE DEF s
    <2> DEFINE at == AfterPatch(p).at
    <2>5. at \in {"patch", "onramp", "rest"} /\ at # "patch" /\ Replaces(p, s, at)
      BY <2>1, <2>2
    <2> HIDE DEF at
    <2> QED
      BY <1>1, <1>3, <2>1, <2>2, <2>4, <2>5, WriteStep DEF Inited
  <1> QED
    BY <1>5, <1>6

LEMMA OnrampWriteStep ==
    ASSUME InstallerInv, NEW p \in Setups, OnrampWrites(p)
    PROVE  InstallerInv'
  <1> DEFINE copy == setup[p].copy
             Route(hook) == [With(copy, "session", "none", hook /\ ~Autostarts(copy))
                                EXCEPT !.url = "ptk"]
  <1>1. /\ Inited /\ RecordOK(setup[p], settings) /\ setup[p] \in Process
        /\ Wellformed(settings) /\ Wellformed(copy) /\ setup[p].fresh \in BOOLEAN
    BY DEF InstallerInv, Inited, RecordOK, Process
  <1>2. PICK hook \in BOOLEAN : Replaces(p, Route(hook), "rest")
    BY DEF OnrampWrites
  <1> DEFINE s == Route(hook)
  <1>3. /\ setup[p].at = "choose" /\ mine' = [mine EXCEPT !.url = "unset"] /\ installed' = TRUE
        /\ kept' = (kept /\ setup[p].fresh) /\ UNCHANGED <<script, cut>>
    BY DEF OnrampWrites
  <1>4. /\ Wellformed(s) /\ (Old(s) <=> Old(copy))
        /\ OwnPart(s) = [OwnPart(copy) EXCEPT !.url = "unset"]
    BY <1>1, RoutedFile
  <1>5. kept' => kept /\ copy = settings /\ OwnPart(settings) = mine
    BY <1>1, <1>3 DEF Inited, RecordOK, Derived, InstallerInv, UsersOwnIsKept
  <1>6. ~Busy(p)
    BY <1>3 DEF Busy
  <1>7. kept' => OwnPart(s) = mine' /\ (Old(s) <=> Old(settings))
    BY <1>3, <1>4, <1>5
  <1> HIDE DEF s, copy, Route
  <1>8. Replaces(p, s, "rest")
    BY <1>2 DEF s
  <1> QED
    BY <1>1, <1>3, <1>4, <1>6, <1>7, <1>8, WriteStep DEF Inited

LEMMA UninstallWriteStep ==
    ASSUME InstallerInv, NEW p \in Setups, UninstallWrites(p)
    PROVE  InstallerInv'
  <1> DEFINE s == setup[p].copy
  <1>1. /\ Inited /\ RecordOK(setup[p], settings) /\ setup[p] \in Process
        /\ Wellformed(settings) /\ Wellformed(s) /\ setup[p].fresh \in BOOLEAN
    BY DEF InstallerInv, Inited, RecordOK, Process
  <1>2. /\ setup[p].at = "unhookWrite" /\ Replaces(p, s, "rest") /\ installed' = FALSE
        /\ kept' = (kept /\ setup[p].fresh) /\ UNCHANGED <<script, mine, cut>>
    BY DEF UninstallWrites
  <1>3. kept' => kept /\ s = Removed(settings) /\ OwnPart(settings) = mine
    BY <1>1, <1>2 DEF Inited, RecordOK, Derived, InstallerInv, UsersOwnIsKept
  <1>4. kept' => OwnPart(s) = mine' /\ ~Old(s) /\ ~HasOwned(s)
    BY <1>1, <1>2, <1>3, RemovedFile
  <1> HIDE DEF s
  <1> QED
    BY <1>1, <1>2, <1>4, WriteStep DEF Inited

\* The user saves: what others hold is stale, and PTK's part no larger.
LEMMA SaveStep ==
    ASSUME InstallerInv, UserSaves
    PROVE  InstallerInv'
  <1>1. /\ Inited /\ Wellformed(settings) /\ setup \in [Setups -> Process]
        /\ settings' \in Edited(settings) /\ mine' = OwnPart(settings')
        /\ setup' = [q \in Setups |-> [setup[q] EXCEPT !.fresh = FALSE]]
        /\ UNCHANGED <<script, installed, kept, cut>>
    BY DEF InstallerInv, Inited, UserSaves
  <1>2. /\ Wellformed(settings') /\ (Old(settings') <=> Old(settings))
        /\ HasOwned(settings') => HasOwned(settings)
    BY <1>1, EditedFile
  <1>3. ASSUME NEW q \in Setups
        PROVE  /\ setup'[q] \in Process /\ setup'[q].at = setup[q].at
               /\ RecordOK(setup'[q], settings')
    <2>1. setup[q] \in Process /\ RecordOK(setup[q], settings)
      BY <1>1 DEF Inited
    <2>2. /\ setup'[q] \in Process /\ setup'[q].at = setup[q].at /\ setup'[q].fresh = FALSE
          /\ setup'[q].need = setup[q].need /\ setup'[q].copy = setup[q].copy
      BY <1>1, <2>1 DEF Process
    <2> QED
      BY <2>1, <2>2 DEF RecordOK
  <1>4. setup' \in [Setups -> Process]
    BY <1>1, <1>3
  <1>5. Inited'
    BY <1>1, <1>2, <1>3, <1>4 DEF Inited
  <1>6. UsersOwnIsKept' /\ NothingRemains'
    BY <1>1, <1>2 DEF InstallerInv, UsersOwnIsKept, NothingRemains
  <1>7. (kept /\ ~cut /\ Old(settings) /\ ~script => \E q \in Setups : Busy(q))'
    BY <1>1, <1>2, <1>3 DEF InstallerInv, Busy
  <1> QED
    BY <1>5, <1>6, <1>7 DEF InstallerInv

LEMMA InitEstablishes ==
    ASSUME InstallerInit
    PROVE  InstallerInv
  <1>1. Wellformed(settings)
    BY InstallerAssumption DEF InstallerInit, Wellformed
  <1>2. RecordOK(Unused, settings) /\ Unused \in Process
    BY UnusedOK DEF RecordOK
  <1>3. setup = [p \in Setups |-> Unused] /\ kept = TRUE /\ cut = FALSE
    BY DEF InstallerInit
  <1>4. (script <=> Old(settings)) /\ script \in BOOLEAN
    BY DEF InstallerInit, Old
  <1>5. (installed <=> HasOwned(settings)) /\ installed \in BOOLEAN
    BY DEF InstallerInit, HasOwned
  <1>6. Inited
    BY <1>1, <1>2, <1>3, <1>4, <1>5 DEF Inited
  <1> QED
    BY <1>4, <1>5, <1>6 DEF InstallerInv, UsersOwnIsKept, NothingRemains, InstallerInit

LEMMA InstallerSteps ==
    ASSUME InstallerInv, [InstallerNext]_setupVars
    PROVE  InstallerInv'
  <1>1. CASE UNCHANGED setupVars
    BY <1>1 DEF setupVars, InstallerInv, Inited, UsersOwnIsKept, NothingRemains, Busy
  <1>2. CASE UserSaves
    BY <1>2, SaveStep
  <1>3. ASSUME NEW p \in Setups, SetupStep(p) PROVE InstallerInv'
    BY <1>3, BeginSteps, MigrateSteps, PatchSteps, OnrampSteps, UninstallReadStep, EndStep,
       InitWrites, OnrampWriteStep, UninstallWriteStep DEF SetupStep
  <1> QED
    BY <1>1, <1>2, <1>3 DEF InstallerNext

\* The copies a process holds are what its command makes of the file, unless
\* someone wrote the file since, and an entry of an older PTK whose script is
\* gone has a process that is about to remove it (claude.rs:151-250 and
\* mod.rs:987-1200).
THEOREM InstallerInvHolds == InstallerSpec => []InstallerInv
  <1>1. InstallerInit => InstallerInv
    BY InitEstablishes
  <1>2. InstallerInv /\ [InstallerNext]_setupVars => InstallerInv'
    BY InstallerSteps
  <1> QED
    BY <1>1, <1>2, PTL DEF InstallerSpec

\* Whatever the commands, and wherever they are interrupted: the user's
\* entries are what the user made them, PTK's are there once per event at
\* most, not at all after an uninstall, and none outlives its script.  Only a
\* save that falls between a command's read and its write is excepted
\* (claude.rs:151-250 and 254-431, mod.rs:987-1200 and 1757-1794).
THEOREM SettingsSound == InstallerSpec => []SettingsStaySound
  <1>1. InstallerInv => SettingsStaySound
    <2>1. ASSUME InstallerInv PROVE NothingDangles
      <3> SUFFICES ASSUME kept, ~cut, \A p \in Setups : setup[p].at = "rest", Old(settings)
                   PROVE  script
        BY DEF NothingDangles
      <3>1. \A p \in Setups : ~Busy(p)
        BY DEF Busy
      <3> QED
        BY <2>1, <3>1 DEF InstallerInv
    <2> QED
      BY <2>1 DEF InstallerInv, Inited, Wellformed, SettingsStaySound
  <1> QED
    BY <1>1, InstallerInvHolds, PTL
=============================================================================
