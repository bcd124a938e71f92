SPECIFICATION FairSpec
CONSTANT
    Sources = {"harmed", "calmSeplos", "jk", "offCan", "aliveLine", "livingProbe", "livingCan"}
PROPERTY
    BatteryIsFound
