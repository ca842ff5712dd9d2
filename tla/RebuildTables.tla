---------------------------- MODULE RebuildTables ----------------------------
(***************************************************************************)
(* The tables EDITS of the rebuild.py scripts of a-1006, a-1007 and a-1008 *)
(* (with its edits_lr.py, RENAMES and POST), row for row.  purge_edits()   *)
(* of a-1007 writes its five rows twice, once for each spelling.           *)
(***************************************************************************)
EXTENDS SeriesEdit

\* a-1006/rebuild.py:39-168
a1006_1 ==
  << edit(C157, "pfind", <<1>>, <<2>>, "157 ret"),
     edit(C159, "pfind", <<3>>, <<4>>, "159 projid"),
     edit(C159, "scan_device.3", <<23>>, <<24>>, "159 man3"),
     edit(C163, "libscan_zfs", <<27>>, <<28>>, "163 evict"),
     edit(C415, "sanity.sh", <<31>>, <<32>>, "415 sanity"),
     edit(C415, "scan_changelog_test", <<33>>, <<34>>, "415 test.c"),
     edit(C417, "pfind", <<5>>, <<6>>, "417 mdt"),
     edit(C418, "pfind", <<7>>, <<8>>, "418 want"),
     edit(C417, "lfs_find_parse", <<35>>, <<36>>, "417 sign"),
     edit(C417, "lfs_find_parse", <<37>>, <<38, 37>>, "417 label"),
     until(edit(C417, "pfind", <<9>>, <<10>>, "417 filter"), C419),
     edit(C419, "pfind", <<11>>, <<12>>, "419 filter"),
     edit(C419, "pfind", <<13>>, <<14>>, "419 anchor") >>

\* a-1006/rebuild.py:171-306
a1006_2 ==
  << edit(C418, "lfs", <<39>>, <<40, 39>>, "418 lfs"),
     edit(C418, "pfind", <<15>>, <<16, 15>>, "418 under"),
     edit(C418, "lfs-find.1", <<41>>, <<42>>, "418 man"),
     edit(C420, "lfs-find.1", <<43>>, <<44, 43>>, "420 example"),
     edit(C163, "libscan_zfs", <<29>>, <<29, 30>>, "lr163 eacces"),
     edit(C163, "scan_device.3", <<25>>, <<26>>, "lr163 man"),
     edit(C415, "scan_changelog", <<45>>, <<45, 46>>, "lr415 field"),
     edit(C415, "scan_changelog", <<47>>, <<48>>, "lr415 clear"),
     edit(C415, "scan_changelog", <<49>>, <<50>>, "lr415 rc"),
     edit(C415, "scan_changelog.3", <<51>>, <<52>>, "lr415 man"),
     edit(C417, "pfind", <<17>>, <<18>>, "lr417 depth"),
     until(edit(C417, "pfind", <<19>>, <<20>>, "lr417 dropped"), C418),
     edit(C418, "pfind", <<21>>, <<22>>, "lr418 rule") >>

a1006 ==
  a1006_1 \o a1006_2

\* a-1007/rebuild.py:44-188
a1007_1 ==
  << edit(C163, "libscan_zfs", <<1>>, <<2>>, "163 eacces"),
     edit(C163, "libscan_zfs", <<3>>, <<4>>, "163 cache"),
     edit(C419, "pfind", <<5>>, <<6>>, "419 nofollow"),
     edit(C419, "pfind", <<7>>, <<8>>, "419 lstat"),
     edit(C419, "lfs-find.1", <<62>>, <<63>>, "419 man1 symlink"),
     edit(C419, "find_since.3", <<78>>, <<79>>, "419 man3 symlink"),
     until(edit(C419, "lfs-find.1", <<64, 65>>, <<66, 67, 65>>,
               "419 man1 stuck"), C443),
     edit(C443, "lfs-find.1", <<65>>, <<67, 65>>, "443 man1 stuck"),
     edit(C419, "find_since.3", <<80>>, <<80, 81>>, "419 man3 stuck"),
     edit(C415, "scan_changelog", <<96>>, <<97>>, "415 src"),
     edit(C415, "scan_changelog.3", <<98>>, <<99>>, "415 man src"),
     edit(C415, "scan_changelog_test", <<100>>, <<101>>, "415 t8 fields"),
     edit(C415, "scan_changelog_test", <<102>>, <<103>>, "415 t8 cb"),
     edit(C415, "scan_changelog_test", <<104>>, <<104, 105>>,
               "415 t8 assert") >>

\* a-1007/rebuild.py:201-325
a1007_2 ==
  << edit(C420, "sanity.sh", <<106>>, <<107>>, "420 guard Ab"),
     edit(C420, "sanity.sh", <<108>>, <<109>>, "420 guard Ac"),
     edit(C420, "sanity.sh", <<110>>, <<111>>, "420 noroot"),
     edit(C420, "sanity.sh", <<112>>, <<113>>, "420 other fs") >>

\* a-1007/rebuild.py:326-440
a1007_3 ==
  << until(edit(C443, "pfind", <<9>>, <<10, 9>>, "443 helper"), F_GAP),
     until(edit(C443, "pfind", <<11>>, <<12>>, "443 check comment"), F_GAP),
     until(edit(C443, "pfind", <<13>>, <<14>>, "443 check uses"), F_GAP),
     until(edit(C443, "pfind", <<15>>, <<16>>, "443 loop uses"), F_GAP),
     until(edit(C443, "pfind", <<17>>, <<18>>, "443 null note"), F_GAP),
     edit(F_GAP, "pfind", <<9>>, <<19, 9>>, "443 helper"),
     edit(F_GAP, "pfind", <<11>>, <<12>>, "443 check comment"),
     edit(F_GAP, "pfind", <<20>>, <<14>>, "443 check uses"),
     edit(F_GAP, "pfind", <<21>>, <<16>>, "443 loop uses"),
     edit(F_GAP, "pfind", <<17>>, <<18>>, "443 null note"),
     until(edit(C417, "lfs", <<132>>, <<132, 133>>, "417 lfs since"), C418),
     until(edit(C418, "lfs", <<132>>, <<132, 134>>, "418 lfs since"), C419),
     edit(C419, "lfs", <<132>>, <<132, 135>>, "419 lfs since"),
     edit(C418, "lfs", <<136>>, <<137>>, "418 lfs what"),
     edit(C159, "find_device.3", <<138>>, <<139>>, "159 errors"),
     edit(C417, "lfs-find.1", <<68>>, <<69>>, "417 man1 subset"),
     edit(C417, "find_since.3", <<82>>, <<83>>, "417 man3 subset") >>

\* a-1007/rebuild.py:470-605
a1007_4 ==
  << edit(C419, "pfind", <<22>>, <<23>>, "419 reached col"),
     edit(C419, "pfind", <<24>>, <<25>>, "419 raw newline"),
     edit(C419, "pfind", <<26>>, <<27>>, "419 %4x"),
     edit(C419, "pfind", <<28>>, <<29>>, "419 index 0"),
     edit(C419, "pfind", <<30>>, <<31>>, "419 probe"),
     edit(C419, "pfind", <<32>>, <<33>>, "419 filter anchor"),
     edit(C419, "pfind", <<34>>, <<35>>, "419 open or read"),
     edit(C419, "pfind", <<36>>, <<37>>, "419 startrec"),
     edit(C443, "lfs-find.1", <<70>>, <<71>>, "443 man1 verb"),
     edit(C418, "pfind", <<38>>, <<39>>, "lr418 fid on error") >>

\* a-1007/rebuild.py:608-716
a1007_5 ==
  << edit(C417, "find_since.3", <<84>>, <<85>>, "lr417 example"),
     edit(C418, "find_since.3", <<86>>, <<87>>, "lr418 example"),
     until(edit(C417, "find_since.3", <<88>>, <<89>>, "lr417 root"), F_GAP),
     edit(F_GAP, "find_since.3", <<90>>, <<91>>, "lr417 root gap"),
     edit(C419, "lfs-find.1", <<72>>, <<73>>, "lr419 cookie place"),
     edit(C420, "sanity.sh", <<114>>, <<115>>, "lr420 gone"),
     edit(C420, "sanity.sh", <<116>>, <<117>>, "lr420 160Ae path"),
     until(edit(C419, "lfs-find.1", <<74, 75>>, <<76>>, "lr419 race"), C443),
     edit(C443, "lfs-find.1", <<74>>, <<77>>, "lr443 race") >>

\* a-1007/rebuild.py:762-905
a1007_6 ==
  << edit(F_GAP, "pfind", <<40>>, <<41>>, "lrgap code"),
     edit(F_GAP, "find_since.3", <<92>>, <<93, 94>>, "lrgap man3"),
     edit(C419, "pfind", <<42>>, <<43, 42>>, "d419 sync helper"),
     edit(C419, "pfind", <<44>>, <<45>>, "d419 sync use"),
     edit(F_GAP, "pfind", <<46>>, <<47>>, "dgap zero"),
     edit(F_GAP, "sanity.sh", <<118>>, <<118, 119>>, "dgap 160Af zero"),
     edit(C418, "pfind", <<48>>, <<49>>, "d418 stripe"),
     edit(C418, "pfind", <<50>>, <<51>>, "d418 four"),
     edit(C418, "pfind", <<52>>, <<53>>, "d418 resolve"),
     edit(C418, "pfind", <<54>>, <<55>>, "d418 fc_d"),
     edit(C418, "pfind", <<56>>, <<57>>, "d418 uid"),
     edit(C418, "pfind", <<58>>, <<59>>, "d418 ost"),
     edit(C419, "lustreapi.h", <<140>>, <<141>>, "l2 419 header") >>

\* a-1007/rebuild.py:906-959
a1007_7 ==
  << edit(C419, "lfs_find_parse", <<142>>, <<143>>, "l2 419 parse"),
     edit(C420, "sanity.sh", <<120>>, <<121>>, "l2 420 trap"),
     edit(C420, "sanity.sh", <<122>>, <<122, 123>>, "l2 420 symlink"),
     edit(F_GAP, "pfind", <<60>>, <<61, 60>>, "l2 gap empty"),
     edit(F_GAP, "find_since.3", <<94>>, <<95>>, "l2 gap man3 empty"),
     edit(C420, "sanity.sh", <<124>>, <<125>>, "l3 420 local"),
     edit(C420, "sanity.sh", <<126>>, <<127>>, "l3 420 mid"),
     edit(C420, "sanity.sh", <<128>>, <<129>>, "l3 420 since"),
     edit(C420, "sanity.sh", <<130>>, <<131>>, "l3 420 comment") >>

a1007 ==
  a1007_1 \o a1007_2 \o a1007_3 \o a1007_4
    \o a1007_5 \o a1007_6 \o a1007_7

\* a-1008/rebuild.py:49-193
a1008_1 ==
  << edit(C159, "pfind", <<1>>, <<2>>, "159 empty name"),
     edit(C288, "pfind", <<3>>, <<3, 4>>, "288 empty name"),
     edit(C163, "libscan_zfs", <<94>>, <<95>>, "163 unlinked free"),
     edit(C415, "scan_changelog.3", <<96>>, <<97>>, "415 man wrap"),
     edit(C415, "scan_changelog", <<100>>, <<101>>, "415 time.h"),
     edit(C415, "scan_changelog", <<102>>, <<103>>, "415 sc_mnt"),
     edit(C417, "lfs-find.1", <<108>>, <<109>>, "417 man close"),
     until(edit(C417, "liblustreapi", <<128>>, <<129>>, "417 find_with_cb"),
               C418),
     until(edit(C418, "liblustreapi", <<128>>, <<130>>, "418 find_with_cb"),
               C419),
     edit(C419, "liblustreapi", <<128>>, <<131>>, "419 find_with_cb"),
     until(edit(C417, "pfind", <<5>>, <<5, 6>>, "417 printf"), C418),
     until(edit(C418, "pfind", <<7>>, <<7, 6>>, "418 printf"), C419),
     edit(C419, "pfind", <<8>>, <<8, 6>>, "419 printf"),
     edit(C417, "pfind", <<9>>, <<10>>, "417 hint"),
     edit(C417, "pfind", <<11>>, <<12>>, "417 cpi def"),
     edit(C417, "lustreapi_internal.h", <<132>>, <<133>>, "417 cpi decl"),
     edit(C417, "pfind", <<13>>, <<14>>, "417 cpi cast"),
     edit(C443, "pfind", <<15>>, <<16>>, "443 doc"),
     until(edit(C443, "pfind", <<17>>, <<18>>, "443 null"), F_GAP),
     edit(F_GAP, "pfind", <<19>>, <<20>>, "gap 443 null") >>

\* a-1008/rebuild.py:194-309
a1008_2 ==
  << edit(C443, "pfind", <<21>>, <<22>>, "443 caller"),
     edit(F_GAP, "pfind", <<23>>, <<24>>, "gap int"),
     edit(F_GAP, "pfind", <<25>>, <<26>>, "gap rc"),
     edit(F_GAP, "pfind", <<27>>, <<28>>, "gap index ret"),
     edit(F_GAP, "pfind", <<29>>, <<30>>, "gap boundary"),
     edit(F_GAP, "pfind", <<31>>, <<32>>, "gap msg"),
     edit(F_GAP, "pfind", <<33>>, <<34>>, "gap caller"),
     edit(C417, "pfind", <<35>>, <<35, 36>>, "stub helper"),
     edit(C417, "pfind", <<37>>, <<37, 38>>, "stub since"),
     edit(C418, "pfind", <<39>>, <<40>>, "stub changelog") >>

\* a-1008/edits_lr.py:13-144
a1008_lr_1 ==
  << edit(C159, "pfind", <<41>>, <<42>>, "lr2 decl"),
     edit(C159, "pfind", <<43>>, <<44, 43>>, "lr2 dom"),
     edit(C159, "pfind", <<45>>, <<46>>, "lr3 idx"),
     edit(C159, "pfind", <<47>>, <<48>>, "lr4 p"),
     edit(C288, "pfind", <<49>>, <<50, 49>>, "lr5 shard"),
     edit(C288, "find_device.3", <<134>>, <<135>>, "lr5 man"),
     edit(C288, "lfs-find.1", <<110>>, <<111>>, "lr6 man1"),
     edit(C288, "scan_rec_path.3", <<142>>, <<143>>, "lr6 man3"),
     edit(C288, "scan", <<144>>, <<145>>, "lr6 kdoc"),
     edit(C288, "find_device.3", <<136>>, <<136, 137>>, "lr7 einval"),
     edit(C288, "lustreapi.h", <<152>>, <<153>>, "lr8 hdr"),
     edit(C288, "scan_device.3", <<170>>, <<171>>, "lr8 man"),
     edit(C163, "Makefile.am", <<174>>, <<175>>, "lr10 mk"),
     edit(C415, "scan_changelog", <<104>>, <<105>>, "lr11 code"),
     edit(C415, "scan_changelog.3", <<98>>, <<98, 99>>, "lr11 man"),
     edit(C415, "scan_changelog_test", <<176>>, <<177, 176>>, "lr13 global") >>

\* a-1008/edits_lr.py:145-287
a1008_lr_2 ==
  << edit(C415, "scan_changelog_test", <<178>>, <<179>>, "lr13 burst"),
     edit(C415, "scan_changelog_test", <<180>>, <<181, 180>>, "lr13 target"),
     edit(C415, "scan_changelog_test", <<182>>, <<183, 182>>, "lr13 assert"),
     until(edit(C417, "lfs-find.1", <<112>>, <<113>>, "lr14 man1"), C418),
     until(edit(C418, "lfs-find.1", <<112>>, <<114>>, "lr14 man1 418"), C419),
     edit(C419, "lfs-find.1", <<112>>, <<115>>, "lr14 man1 419"),
     until(edit(C417, "find_device.3", <<138>>, <<139>>, "lr14 man3"), C418),
     until(edit(C418, "find_device.3", <<138>>, <<140>>, "lr14 man3 418"),
               C419),
     edit(C419, "find_device.3", <<138>>, <<141>>, "lr14 man3 419"),
     edit(C417, "lustreapi.h", <<154>>, <<155>>, "lr15 hdr"),
     until(edit(C417, "pfind", <<51>>, <<52, 51>>, "lr16 code"), C418),
     edit(C418, "pfind", <<53, 54, 51>>, <<52, 53, 54, 51>>, "lr16 code 418"),
     edit(C417, "find_since.3", <<184>>, <<185>>, "lr16 man"),
     edit(C419, "pfind", <<55, 56, 57>>, <<58, 56, 57>>, "lr21 decl"),
     edit(C419, "pfind", <<59>>, <<60>>, "lr21 count"),
     edit(C419, "pfind", <<61>>, <<62>>, "lr21 header") >>

\* a-1008/edits_lr.py:288-396
a1008_lr_3 ==
  << edit(C419, "pfind", <<63>>, <<64>>, "lr21 refuse"),
     edit(C419, "pfind", <<65>>, <<65, 66>>, "lr21 cmt"),
     edit(C419, "find_since.3", <<186>>, <<187>>, "lr21 man"),
     edit(C419, "find_since.3", <<188>>, <<188, 189>>, "lr24 man"),
     edit(C419, "lustreapi.h", <<156>>, <<157>>, "lr25 hdr"),
     edit(C419, "lustreapi.h", <<158>>, <<159>>, "lr25 proto"),
     edit(C443, "pfind", <<67>>, <<68>>, "lr26 cmt"),
     edit(C443, "pfind", <<69>>, <<70>>, "lr26 code"),
     edit(C443, "lfs-find.1", <<116>>, <<117>>, "lr26 man1"),
     edit(C443, "find_since.3", <<190>>, <<191>>, "lr26 man3"),
     edit(F_GAP, "lfs-find.1", <<118>>, <<119>>, "lr27 man"),
     edit(F_GAP, "pfind", <<71>>, <<72>>, "lr28 msg") >>

\* a-1008/edits_lr.py:470-605
a1008_lr_4 ==
  << edit(C288, "scan_device", <<198>>, <<199>>, "lr5 xa"),
     edit(C288, "pfind", <<73>>, <<74, 75, 76>>, "lr5 want"),
     edit(C418, "lfs-find.1", <<120>>, <<121>>, "ai420 burst"),
     edit(C419, "pfind", <<53>>, <<77>>, "ai419 three"),
     edit(F_NLINK, "scan", <<146>>, <<147>>, "ai501 lib"),
     edit(F_NLINK, "pfind", <<78>>, <<79>>, "ai501 consumer"),
     edit(F_NLINK, "scan_fid.3", <<200>>, <<201>>, "ai501 man1"),
     edit(F_NLINK, "scan_fid.3", <<202>>, <<203>>, "ai501 man2"),
     edit(F_NLINK, "scan_test", <<204>>, <<205>>, "ai501 test"),
     edit(C418, "lfs-find.1", <<122>>, <<122, 123>>, "lr19 man1"),
     edit(C418, "find_since.3", <<192>>, <<192, 193>>, "lr19 man3"),
     edit(C159, "pfind", <<80>>, <<81>>, "lr2-1 specific") >>

\* a-1008/edits_lr.py:619-761
a1008_lr_5 ==
  << edit(C163, "scan_device.3", <<172>>, <<173>>, "lr2-2 zfs"),
     edit(C288, "pfind", <<75>>, <<82>>, "lr2-3 want"),
     edit(C288, "lfs-find.1", <<124>>, <<125>>, "lr2-3 man"),
     edit(C415, "scan_changelog", <<106>>, <<107>>, "lr2-4 reflow"),
     edit(C415, "lustreapi.h", <<160>>, <<161>>, "lr2-4 kdoc"),
     edit(C417, "lfs_find_parse", <<206>>, <<207>>, "lr2-5 neg"),
     edit(C417, "find_since.3", <<194>>, <<195>>, "lr2-5 fid2path"),
     edit(C418, "pfind", <<83>>, <<84>>, "lr2-6 mdt"),
     edit(C418, "find_since.3", <<196>>, <<197, 196>>, "lr2-6 man3"),
     edit(C419, "pfind", <<85>>, <<86>>, "lr2-7 two"),
     edit(C443, "pfind", <<87>>, <<88>>, "lr2-8 each"),
     edit(F_GAP, "lfs-find.1", <<126>>, <<126, 127>>, "lr2-9 silence") >>

\* a-1008/edits_lr.py:764-775
a1008_lr_6 ==
  << edit(F_NLINK, "scan", <<148>>, <<149>>, "lr2-10 statx"),
     edit(F_NLINK, "scan", <<150>>, <<151>>, "lr2-10 copy") >>

\* a-1008/edits_lr.py:399-406: RENAMES, then POST
a1008_renames ==
  << rename(C415, "lustreapi.h", <<162>>, <<163>>),
     rename(C415, "lustreapi.h", <<164>>, <<165>>),
     rename(C419, "pfind", <<56>>, <<89>>),
     rename(C419, "pfind", <<90>>, <<91>>),
     rename(C419, "pfind", <<92>>, <<93>>),
     post(edit(C415, "lustreapi.h", <<166, 165, 167, 163, 168>>,
               <<166, 165, 169, 163, 168>>, "post jobid"),
               <<166, 164, 167, 162, 168>>) >>

a1008 ==
  a1008_1 \o a1008_2
    \o a1008_lr_1 \o a1008_lr_2 \o a1008_lr_3 \o a1008_lr_4 \o a1008_lr_5
        \o a1008_lr_6
    \o a1008_renames

=============================================================================
