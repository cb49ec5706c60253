SPECIFICATION FairSpec
CONSTANTS
    CampaignHours = 2
    EpochHours = 2
    MaxEpochs = 3
    MaxFaults = 1
INVARIANT CampaignSound
 
 
PROPERTY EpochsSeal
