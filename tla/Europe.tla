------------------------------- MODULE Europe -------------------------------
(***************************************************************************)
(* The map countryFromCoord really searches (internal/service/             *)
(* countries.go): countryPolygons, in hundredths of a degree, and in its   *)
(* order of priority.                                                      *)
(***************************************************************************)
EXTENDS GeoCountry

Luxembourg == <<
    <<5018, 574>>, <<5018, 603>>, <<5005, 613>>, <<4987, 653>>, <<4968, 653>>,
    <<4955, 637>>, <<4945, 611>>, <<4947, 573>>, <<4956, 573>>, <<4972, 574>>,
    <<4991, 578>>>>

Netherlands == <<
    <<5347, 535>>, <<5344, 620>>, <<5333, 721>>, <<5263, 709>>, <<5238, 707>>,
    <<5208, 700>>, <<5197, 669>>, <<5187, 615>>, <<5175, 595>>, <<5149, 617>>,
    <<5137, 615>>, <<5118, 599>>, <<5095, 594>>, <<5084, 584>>, <<5075, 570>>,
    <<5075, 563>>, <<5084, 562>>, <<5095, 558>>, <<5103, 555>>, <<5125, 545>>,
    <<5137, 502>>, <<5144, 428>>, <<5136, 337>>, <<5145, 360>>, <<5159, 370>>,
    <<5180, 385>>, <<5196, 405>>, <<5210, 425>>, <<5238, 453>>, <<5263, 462>>,
    <<5293, 478>>, <<5318, 501>>>>

Belgium == <<
    <<5148, 255>>, <<5136, 337>>, <<5130, 424>>, <<5125, 545>>, <<5118, 599>>,
    <<5076, 602>>, <<5051, 638>>, <<5017, 602>>, <<4956, 637>>, <<4950, 582>>,
    <<4956, 547>>, <<4962, 512>>, <<4984, 486>>, <<4996, 468>>, <<5010, 415>>,
    <<5010, 359>>, <<5033, 325>>, <<5048, 285>>, <<5082, 255>>, <<5110, 254>>>>

Denmark == <<
    <<5480, 945>>, <<5485, 858>>, <<5533, 813>>, <<5610, 810>>, <<5683, 825>>,
    <<5759, 997>>, <<5715, 1040>>, <<5646, 1052>>, <<5618, 1258>>,
    <<5580, 1270>>, <<5555, 1270>>, <<5520, 1280>>, <<5450, 1200>>,
    <<5485, 1080>>, <<5500, 1061>>, <<5523, 960>>, <<5503, 935>>>>

Czechia == <<
    <<5087, 1441>>, <<5108, 1504>>, <<5035, 1634>>, <<5009, 1707>>,
    <<4990, 1830>>, <<4970, 1885>>, <<4943, 1896>>, <<4873, 1750>>,
    <<4873, 1690>>, <<4873, 1469>>, <<4855, 1402>>, <<4872, 1351>>,
    <<4956, 1275>>, <<5027, 1209>>, <<5063, 1232>>, <<5080, 1300>>>>

Germany == <<
    <<5485, 858>>, <<5480, 945>>, <<5440, 1019>>, <<5418, 1210>>,
    <<5409, 1338>>, <<5392, 1422>>, <<5312, 1444>>, <<5235, 1455>>,
    <<5167, 1498>>, <<5108, 1504>>, <<5087, 1441>>, <<5063, 1232>>,
    <<5027, 1209>>, <<4956, 1275>>, <<4877, 1383>>, <<4800, 1290>>,
    <<4760, 1215>>, <<4745, 1135>>, <<4753, 968>>, <<4771, 868>>,
    <<4781, 763>>, <<4897, 823>>, <<4921, 684>>, <<4947, 636>>, <<5005, 613>>,
    <<5076, 602>>, <<5197, 669>>, <<5238, 707>>, <<5333, 721>>, <<5360, 813>>,
    <<5387, 870>>, <<5430, 858>>>>

France == <<
    <<5108, 254>>, <<5082, 158>>, <<4948, 12>>, <<4864, -117>>, <<4845, -450>>,
    <<4765, -302>>, <<4728, -219>>, <<4616, -115>>, <<4560, -122>>,
    <<4465, -117>>, <<4340, -179>>, <<4267, -179>>, <<4243, 77>>,
    <<4233, 318>>, <<4325, 347>>, <<4310, 595>>, <<4370, 727>>, <<4410, 766>>,
    <<4530, 687>>, <<4583, 704>>, <<4621, 612>>, <<4687, 685>>, <<4741, 755>>,
    <<4781, 751>>, <<4897, 823>>, <<4921, 684>>, <<4947, 636>>, <<4956, 547>>,
    <<4996, 468>>, <<5010, 359>>, <<5048, 285>>>>

Switzerland == <<
    <<4781, 763>>, <<4771, 868>>, <<4753, 968>>, <<4705, 960>>, <<4686, 1049>>,
    <<4649, 1048>>, <<4619, 1015>>, <<4600, 928>>, <<4582, 896>>,
    <<4585, 859>>, <<4615, 785>>, <<4592, 704>>, <<4621, 612>>, <<4643, 606>>,
    <<4687, 685>>, <<4741, 755>>>>

Austria == <<
    <<4878, 1690>>, <<4801, 1716>>, <<4740, 1654>>, <<4687, 1611>>,
    <<4662, 1564>>, <<4652, 1455>>, <<4665, 1371>>, <<4666, 1244>>,
    <<4700, 1149>>, <<4727, 1135>>, <<4727, 1018>>, <<4753, 968>>,
    <<4705, 960>>, <<4727, 1018>>, <<4745, 1135>>, <<4760, 1215>>,
    <<4800, 1290>>, <<4815, 1276>>, <<4877, 1383>>, <<4873, 1469>>,
    <<4887, 1503>>, <<4877, 1576>>, <<4869, 1645>>>>

Italy == <<
    <<4370, 727>>, <<4410, 766>>, <<4530, 687>>, <<4583, 704>>, <<4592, 704>>,
    <<4615, 785>>, <<4585, 859>>, <<4582, 896>>, <<4600, 928>>, <<4619, 1015>>,
    <<4649, 1048>>, <<4700, 1149>>, <<4666, 1244>>, <<4665, 1371>>,
    <<4652, 1455>>, <<4563, 1378>>, <<4405, 1356>>, <<4204, 1535>>,
    <<4064, 1800>>, <<3987, 1851>>, <<3795, 1607>>, <<3793, 1565>>,
    <<3888, 1601>>, <<3900, 1563>>, <<4005, 1534>>, <<4060, 1436>>,
    <<4120, 1355>>, <<4210, 1112>>, <<4357, 1030>>, <<4410, 968>>,
    <<4430, 824>>>>

Spain == <<
    <<4340, -179>>, <<4336, -302>>, <<4347, -588>>, <<4337, -840>>,
    <<4288, -927>>, <<4210, -890>>, <<4187, -887>>, <<4170, -718>>,
    <<4110, -693>>, <<3946, -753>>, <<3795, -740>>, <<3600, -560>>,
    <<3672, -217>>, <<3760, -75>>, <<3875, -4>>, <<4056, 52>>, <<4186, 312>>,
    <<4233, 318>>, <<4243, 77>>, <<4267, -179>>>>

Poland == <<
    <<5435, 1864>>, <<5483, 1838>>, <<5479, 1753>>, <<5445, 1687>>,
    <<5392, 1422>>, <<5312, 1444>>, <<5235, 1455>>, <<5167, 1498>>,
    <<5108, 1504>>, <<5035, 1634>>, <<5009, 1707>>, <<4990, 1830>>,
    <<4970, 1885>>, <<4943, 1896>>, <<4930, 2007>>, <<4932, 2237>>,
    <<5009, 2400>>, <<5124, 2362>>, <<5208, 2380>>, <<5350, 2390>>,
    <<5435, 2278>>, <<5438, 1946>>>>

Hungary == <<
    <<4858, 1695>>, <<4801, 1716>>, <<4740, 1654>>, <<4687, 1611>>,
    <<4636, 1630>>, <<4600, 1660>>, <<4580, 1730>>, <<4580, 1800>>,
    <<4590, 1890>>, <<4617, 1990>>, <<4618, 2080>>, <<4660, 2124>>,
    <<4736, 2185>>, <<4795, 2237>>, <<4840, 2215>>, <<4858, 2143>>,
    <<4857, 2077>>, <<4820, 1980>>, <<4785, 1873>>, <<4810, 1725>>>>

Slovakia == <<
    <<4878, 1690>>, <<4869, 1645>>, <<4887, 1503>>, <<4907, 1560>>,
    <<4950, 1805>>, <<4943, 1896>>, <<4930, 2007>>, <<4910, 2060>>,
    <<4890, 2150>>, <<4858, 2143>>, <<4840, 2215>>, <<4795, 2237>>,
    <<4775, 2120>>, <<4785, 1873>>, <<4810, 1725>>, <<4801, 1716>>,
    <<4858, 1695>>>>

Slovenia == <<
    <<4687, 1611>>, <<4662, 1564>>, <<4652, 1500>>, <<4652, 1455>>,
    <<4638, 1408>>, <<4628, 1373>>, <<4583, 1358>>, <<4547, 1360>>,
    <<4547, 1425>>, <<4550, 1515>>, <<4580, 1570>>, <<4636, 1630>>>>

Portugal == <<
    <<4210, -890>>, <<4187, -887>>, <<4110, -865>>, <<4020, -890>>,
    <<3935, -940>>, <<3878, -950>>, <<3850, -920>>, <<3795, -880>>,
    <<3702, -895>>, <<3696, -785>>, <<3720, -740>>, <<3890, -690>>,
    <<3946, -753>>, <<4110, -693>>, <<4170, -718>>, <<4187, -815>>>>

Croatia == <<
    <<4636, 1630>>, <<4600, 1660>>, <<4580, 1730>>, <<4580, 1800>>,
    <<4520, 1900>>, <<4485, 1895>>, <<4500, 1850>>, <<4520, 1770>>,
    <<4500, 1650>>, <<4430, 1590>>, <<4350, 1650>>, <<4265, 1810>>,
    <<4295, 1725>>, <<4320, 1660>>, <<4380, 1540>>, <<4450, 1490>>,
    <<4547, 1425>>, <<4550, 1515>>, <<4580, 1570>>>>

Bulgaria == <<
    <<4422, 2265>>, <<4380, 2240>>, <<4300, 2290>>, <<4220, 2295>>,
    <<4138, 2340>>, <<4125, 2430>>, <<4140, 2530>>, <<4170, 2600>>,
    <<4198, 2660>>, <<4210, 2750>>, <<4270, 2860>>, <<4335, 2860>>,
    <<4375, 2855>>, <<4400, 2725>>, <<4422, 2600>>, <<4422, 2400>>,
    <<4422, 2265>>>>

Romania == <<
    <<4800, 2460>>, <<4795, 2237>>, <<4710, 2190>>, <<4618, 2080>>,
    <<4590, 2130>>, <<4480, 2130>>, <<4422, 2265>>, <<4400, 2400>>,
    <<4400, 2600>>, <<4405, 2725>>, <<4375, 2855>>, <<4418, 2865>>,
    <<4515, 2970>>, <<4550, 2870>>, <<4610, 2830>>, <<4740, 2700>>,
    <<4795, 2660>>, <<4830, 2550>>>>

Sweden == <<
    <<5535, 1285>>, <<5605, 1270>>, <<5665, 1285>>, <<5770, 1180>>,
    <<5860, 1110>>, <<5940, 1060>>, <<6100, 1210>>, <<6350, 1230>>,
    <<6550, 1380>>, <<6640, 1550>>, <<6840, 1840>>, <<6905, 2050>>,
    <<6910, 2150>>, <<6785, 2350>>, <<6630, 2400>>, <<6560, 2220>>,
    <<6380, 2020>>, <<6238, 1730>>, <<6070, 1710>>, <<5935, 1810>>,
    <<5840, 1650>>, <<5775, 1665>>, <<5620, 1565>>, <<5560, 1425>>>>

countryPolygons == <<
    Luxembourg, Netherlands, Belgium, Denmark, Czechia, Germany, France,
    Switzerland, Austria, Italy, Spain, Poland, Hungary, Slovakia, Slovenia,
    Portugal, Croatia, Bulgaria, Romania, Sweden>>

MapOfEurope == {countryPolygons}

-----------------------------------------------------------------------------
(* Properties *)

\* The corners of a polygon each with the one before it.
Sides(p) == {<<p[i], p[IF i = 1 THEN Len(p) ELSE i - 1]>> : i \in DOMAIN p}

\* Whether a polygon holds the place, and twice its area.
Holds(p) == Cardinality({s \in Sides(p) : Crossed(s[1], s[2])}) % 2 = 1

Area(p) ==
    LET sum == FoldSet(LAMBDA s, sum : sum + s[2][1] * s[1][2] - s[1][1] * s[2][2], 0, Sides(p))
    IN  IF sum < 0 THEN -sum ELSE sum

\* What countries.go:11-12 says of the order: a place that two polygons hold is
\* found in the smaller country, "so they are not swallowed by their larger
\* neighbours".
SmallerNeighbourWins ==
    found > 0 =>
        \A k \in DOMAIN polygons :
            Holds(polygons[k]) => Area(polygons[found]) <= Area(polygons[k])

=============================================================================
