SPECIFICATION FairSpec
CONSTANTS
  PointerStep = 8
  Currency = {EUR, USD}
  MaxGroup = 2
  MaxPress = 1
  MaxVersion = 2
INVARIANTS TypeOK IndicatorMatchesLoad GroupBalance CrashNeedsStraggler ReportedUnlessStrayed
PROPERTIES RatesRegressOnlyWhenOvertaken EveryRoundReported StragglerAborts IndicatorGoesOff
CHECK_DEADLOCK FALSE
